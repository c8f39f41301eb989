---------------------------- MODULE RunnerProofs ----------------------------
(***************************************************************************)
(* The local runner, for every number of runs, every budget and every plan.*)
(* Five results.  The quota: the bound on the calls is inductive with the  *)
(* types of the meter and of the phases, because a step either leaves both *)
(* the meter and the runs under way alone, or starts a call that the meter *)
(* had room for, or meters a call that ends.  What is asked of an executor *)
(* is allowed when it is asked.  The runner implements its contract.  The  *)
(* meter agrees with the ledger: a step adds to the meter what its events  *)
(* add to the ledger, a call that has ended and is not metered yet apart.  *)
(* And the store tells every caller's answer unless it dropped a batch:    *)
(* every run's events are well told, what arrives of them has no gap, and  *)
(* the runs that returned can be laid into the events that tell their end. *)
(***************************************************************************)
EXTENDS LocalRunner, Induction, FiniteSetTheorems, TLAPS

Phases == {"idle", "planning", "loop", "approving", "requested", "acting", "acted",
           "closing", "checking", "billing", "flushing", "returned", "rejected", "lost"}
Executing == {"requested", "acting", "acted"}

MeterTypeOK == usage \in [DOMAIN EmptyUsage -> Nat]
PhasesTypeOK == phase \in [Runs -> Phases]

QuotaInv == MeterTypeOK /\ PhasesTypeOK /\ QuotaOvershoot

\* What a step of one run does to the meter and to its phase.
Keeps(r, next) ==
  /\ usage'.tool_calls = usage.tool_calls
  /\ next \in Executing => phase[r] \in Executing
Calls(r) ==
  /\ usage'.tool_calls = usage.tool_calls
  /\ usage.tool_calls + 1 <= Budget.tool_calls
Meters(r, next) ==
  /\ usage'.tool_calls = usage.tool_calls + 1
  /\ phase[r] \in Executing /\ next \notin Executing

\* What the runs under way are once one run has moved on.
LEMMA Moving ==
  ASSUME PhasesTypeOK, NEW r \in Runs, NEW next \in Phases,
         phase' = [phase EXCEPT ![r] = next]
  PROVE  /\ IsFiniteSet(InExecute) /\ IsFiniteSet(InExecute')
         /\ Cardinality(InExecute) \in Nat /\ Cardinality(InExecute') \in Nat
         /\ Cardinality(InExecute') <= Cardinality(Runs)
         /\ (next \in Executing => phase[r] \in Executing)
              => Cardinality(InExecute') <= Cardinality(InExecute)
         /\ phase[r] \in Executing /\ next \notin Executing
              => Cardinality(InExecute') = Cardinality(InExecute) - 1
<1>1. InExecute \subseteq Runs /\ InExecute' \subseteq Runs
  BY DEF InExecute
<1>2. /\ IsFiniteSet(Runs) /\ IsFiniteSet(InExecute) /\ IsFiniteSet(InExecute')
      /\ Cardinality(InExecute') <= Cardinality(Runs)
  BY <1>1, RunnerAssumption, FS_Subset
<1>3. Cardinality(InExecute) \in Nat /\ Cardinality(InExecute') \in Nat
  BY <1>2, FS_CardinalityType
<1>4. ASSUME next \in Executing => phase[r] \in Executing
      PROVE  Cardinality(InExecute') <= Cardinality(InExecute)
  <2>1. InExecute' \subseteq InExecute
    BY <1>4 DEF InExecute, PhasesTypeOK, Executing
  <2> QED BY <2>1, <1>2, FS_Subset
<1>5. ASSUME phase[r] \in Executing, next \notin Executing
      PROVE  Cardinality(InExecute') = Cardinality(InExecute) - 1
  <2>1. r \in InExecute /\ InExecute' = InExecute \ {r}
    BY <1>5 DEF InExecute, PhasesTypeOK, Executing
  <2> QED BY <2>1, <1>2, FS_RemoveElement
<1> QED BY <1>2, <1>3, <1>4, <1>5

\* A step of one of the three kinds keeps within the bound.
LEMMA Bounded ==
  ASSUME QuotaInv, MeterTypeOK', NEW r \in Runs, NEW next \in Phases,
         phase' = [phase EXCEPT ![r] = next],
         Keeps(r, next) \/ Calls(r) \/ Meters(r, next)
  PROVE  QuotaInv'
<1>1. usage.tool_calls \in Nat /\ usage'.tool_calls \in Nat
  BY DEF QuotaInv, MeterTypeOK, EmptyUsage
<1>2. Budget.tool_calls \in Nat /\ Cardinality(Runs) \in Nat
  BY RunnerAssumption, FS_CardinalityType
<1>3. /\ Cardinality(InExecute) \in Nat /\ Cardinality(InExecute') \in Nat
      /\ Cardinality(InExecute') <= Cardinality(Runs)
      /\ (next \in Executing => phase[r] \in Executing)
           => Cardinality(InExecute') <= Cardinality(InExecute)
      /\ phase[r] \in Executing /\ next \notin Executing
           => Cardinality(InExecute') = Cardinality(InExecute) - 1
  BY Moving DEF QuotaInv
<1>4. PhasesTypeOK'
  BY DEF QuotaInv, PhasesTypeOK
<1>5. usage.tool_calls + Cardinality(InExecute) <= Budget.tool_calls + Cardinality(Runs) - 1
  BY DEF QuotaInv, QuotaOvershoot
<1>6. usage'.tool_calls + Cardinality(InExecute') <= Budget.tool_calls + Cardinality(Runs) - 1
  <2>1. CASE Keeps(r, next)
    BY <2>1, <1>1, <1>2, <1>3, <1>5 DEF Keeps
  <2>2. CASE Calls(r)
    BY <2>2, <1>1, <1>2, <1>3 DEF Calls
  <2>3. CASE Meters(r, next)
    BY <2>3, <1>1, <1>2, <1>3, <1>5 DEF Meters
  <2> QED BY <2>1, <2>2, <2>3
<1> QED BY <1>4, <1>6 DEF QuotaInv, QuotaOvershoot

\* Every step of a run is of one of the three kinds.
LEMMA SegmentKind ==
  ASSUME QuotaInv, NEW r \in Runs, Segment(r)
  PROVE  /\ MeterTypeOK'
         /\ \E next \in Phases : /\ phase' = [phase EXCEPT ![r] = next]
                                 /\ Keeps(r, next) \/ Calls(r) \/ Meters(r, next)
<1> DEFINE Goal == /\ MeterTypeOK'
                   /\ \E next \in Phases : /\ phase' = [phase EXCEPT ![r] = next]
                                           /\ Keeps(r, next) \/ Calls(r) \/ Meters(r, next)
<1> USE DEF Go, Phases, Executing, Keeps
<1>0. MeterTypeOK
  BY DEF QuotaInv
<1>1. CASE Start(r) \/ Planned(r)
  <2>1. usage' \in [DOMAIN EmptyUsage -> Nat] /\ usage'.tool_calls = usage.tool_calls
    <3>1. CASE Start(r)
      <4>1. PICK n \in Nat : usage' = [usage EXCEPT !.runs = @ + 1, !.model_calls = @ + n]
        BY <3>1 DEF Start
      <4>2. usage.runs + 1 \in Nat /\ usage.model_calls + n \in Nat
        BY <1>0 DEF MeterTypeOK, EmptyUsage
      <4> QED BY <1>0, <4>1, <4>2 DEF MeterTypeOK, EmptyUsage
    <3>2. CASE Planned(r)
      BY <1>0, <3>2 DEF Planned, MeterTypeOK, EmptyUsage
    <3> QED BY <1>1, <3>1, <3>2
  <2>2. \E next \in Phases \ Executing : phase' = [phase EXCEPT ![r] = next]
    BY <1>1 DEF Start, Planned
  <2> QED BY <2>1, <2>2 DEF MeterTypeOK
<1>2. CASE Reject(r) \/ Ask(r) \/ Disapprove(r)
  BY <1>0, <1>2 DEF Reject, Ask, Disapprove, MeterTypeOK
<1>3. ASSUME NEW before, Proceed(r, before) PROVE Goal
  <2>1. UNCHANGED usage
    BY <1>3 DEF Proceed
  <2>2. /\ \E next \in Phases : phase' = [phase EXCEPT ![r] = next]
                                /\ (next \notin Executing \/ WithinBudget(Budget, usage, "tool_calls"))
    BY <1>3 DEF Proceed, Begin
  <2>3. WithinBudget(Budget, usage, "tool_calls") => usage.tool_calls + 1 <= Budget.tool_calls
    BY RunnerAssumption DEF WithinBudget
  <2> QED BY <1>0, <2>1, <2>2, <2>3 DEF MeterTypeOK, Calls
<1>4. CASE Execute(r) \/ Approve(r)
  BY <1>3, <1>4 DEF Execute, Approve
<1>5. CASE CanExecute(r) \/ Act(r) \/ Throw(r)
  BY <1>0, <1>5 DEF CanExecute, Act, Throw, MeterTypeOK
<1>6. CASE Account(r)
  BY <1>0, <1>6 DEF Account, MeterTypeOK, EmptyUsage, Meters
<1>7. CASE Close(r) \/ Check(r) \/ Bill(r) \/ Flush(r) \/ FlushFails(r)
  BY <1>0, <1>7 DEF Close, Check, Bill, Flush, FlushFails, Conclude, MeterTypeOK
<1> QED
  BY <1>1, <1>2, <1>4, <1>5, <1>6, <1>7 DEF Segment

\* Nothing is under way at first, and nothing is metered.
LEMMA QuotaStarts == RunnerInit => QuotaInv
<1> SUFFICES ASSUME RunnerInit PROVE QuotaInv
  OBVIOUS
<1>1. MeterTypeOK /\ PhasesTypeOK /\ usage.tool_calls = 0
  BY DEF RunnerInit, MeterTypeOK, PhasesTypeOK, EmptyUsage, Phases
<1>2. InExecute = {}
  BY DEF RunnerInit, InExecute
<1>3. Cardinality(Runs) \in Nat \ {0} /\ Cardinality(InExecute) = 0 /\ Budget.tool_calls \in Nat
  BY <1>2, RunnerAssumption, FS_CardinalityType, FS_EmptySet
<1> QED BY <1>1, <1>3 DEF QuotaInv, QuotaOvershoot

\* A crash empties the meter and ends every call.
LEMMA QuotaCrash == QuotaInv /\ Crash => QuotaInv'
<1> SUFFICES ASSUME QuotaInv, Crash PROVE QuotaInv'
  OBVIOUS
<1>1. MeterTypeOK' /\ usage'.tool_calls = 0
  BY DEF Crash, MeterTypeOK, EmptyUsage
<1>2. PhasesTypeOK' /\ InExecute' = {}
  BY DEF Crash, QuotaInv, PhasesTypeOK, Phases, InExecute
<1>3. Cardinality(Runs) \in Nat \ {0} /\ Cardinality(InExecute') = 0 /\ Budget.tool_calls \in Nat
  BY <1>2, RunnerAssumption, FS_CardinalityType, FS_EmptySet
<1> QED BY <1>1, <1>2, <1>3 DEF QuotaInv, QuotaOvershoot

\* Every step of the runner keeps the invariant.
LEMMA QuotaSteps ==
  QuotaInv /\ [RunnerNext]_<<runnerVars, immuneVars>> => QuotaInv'
<1> SUFFICES ASSUME QuotaInv, [RunnerNext]_<<runnerVars, immuneVars>> PROVE QuotaInv'
  OBVIOUS
<1>1. ASSUME NEW r \in Runs, Segment(r) PROVE QuotaInv'
  BY <1>1, SegmentKind, Bounded
<1>2. ASSUME UNCHANGED <<usage, phase>> PROVE QuotaInv'
  BY <1>2 DEF QuotaInv, MeterTypeOK, PhasesTypeOK, QuotaOvershoot, InExecute
<1>3. ASSUME NEW g \in MayDeny, Deny(g) PROVE QuotaInv'
  BY <1>2, <1>3 DEF Deny
<1>4. CASE UNCHANGED <<runnerVars, immuneVars>>
  BY <1>2, <1>4 DEF runnerVars
<1> QED BY <1>1, <1>3, <1>4, QuotaCrash DEF RunnerNext

\* However many runs share a runner, the calls that were metered and those
\* under way pass the budget by less than the number of runs.
THEOREM QuotaBounded == RunnerSpec => []QuotaOvershoot
<1>1. QuotaInv => QuotaOvershoot
  BY DEF QuotaInv
<1> QED
  BY <1>1, QuotaStarts, QuotaSteps, PTL DEF RunnerSpec

-----------------------------------------------------------------------------
(* What is asked of an executor, and the contract: what a run has written  *)
(* to the ledger of its steps is told by the types of the events.          *)

EventTypes ==
  {"RunCreated", "TaskCreated", "PlanGenerated", "CapabilityRejected", "ApprovalRequired",
   "ApprovalGranted", "ApprovalDenied", "QuotaExceeded", "ImmuneBlocked", "Requested", "Denied",
   "Rejected", "Succeeded", "Unsuccessful", "VerificationCompleted", "TaskCompleted", "TaskFailed"}
Event == [type : EventTypes, step : Nat]
Result == [verdict : {"PASSED", "FAILED"}, evidence : BOOLEAN]

LogsTypeOK == log \in [Runs -> Seq(Event)] /\ results \in [Runs -> Seq(Result)]

\* A function updated at one point.
LEMMA Updated ==
  ASSUME NEW D, NEW S, NEW f \in [D -> S], NEW d \in D, NEW v \in S
  PROVE  /\ [f EXCEPT ![d] = v] \in [D -> S] /\ [f EXCEPT ![d] = v][d] = v
         /\ \A e \in D \ {d} : [f EXCEPT ![d] = v][e] = f[e]
OBVIOUS

\* A sequence continued by another.
LEMMA Continued ==
  ASSUME NEW S, NEW a \in Seq(S), NEW b \in Seq(S)
  PROVE  /\ a \o b \in Seq(S) /\ Len(a) \in Nat /\ Len(a \o b) = Len(a) + Len(b)
         /\ \A i \in 1..Len(a) : (a \o b)[i] = a[i]
         /\ \A i \in 1..Len(b) : (a \o b)[Len(a) + i] = b[i]
OBVIOUS

\* A run that moves on appends its events, with the step it is at, and no
\* other run's events change.
LEMMA Appending ==
  ASSUME LogsTypeOK, NEW r \in Runs, NEW next, NEW types \in Seq(EventTypes), Go(r, next, types)
  PROVE  /\ log' \in [Runs -> Seq(Event)]
         /\ \A q \in Runs \ {r} : log'[q] = log[q]
         /\ Len(log[r]) \in Nat /\ Len(log'[r]) = Len(log[r]) + Len(types)
         /\ \A i \in 1..Len(log[r]) : log'[r][i] = log[r][i]
         /\ \A i \in 1..Len(types) :
              log'[r][Len(log[r]) + i] = [type |-> types[i], step |-> StepOf(r)]
<1>1. log[r] \in Seq(Event) /\ StepOf(r) \in Nat /\ Len(types) \in Nat
  BY DEF LogsTypeOK, StepOf
<1>2. /\ Events(r, types) \in Seq(Event) /\ Len(Events(r, types)) = Len(types)
      /\ \A i \in 1..Len(types) : Events(r, types)[i] = [type |-> types[i], step |-> StepOf(r)]
  <2>1. DOMAIN types = 1..Len(types)
    OBVIOUS
  <2>2. \A i \in 1..Len(types) : types[i] \in EventTypes
    OBVIOUS
  <2>3. \A i \in 1..Len(types) : [type |-> types[i], step |-> StepOf(r)] \in Event
    BY <1>1, <2>2 DEF Event
  <2>4. Events(r, types) = [i \in 1..Len(types) |-> [type |-> types[i], step |-> StepOf(r)]]
    BY <2>1 DEF Events
  <2>5. Events(r, types) \in Seq(Event) /\ Len(Events(r, types)) = Len(types)
    BY <2>3, <2>4, <1>1
  <2> QED BY <2>4, <2>5
<1>3. log' = [log EXCEPT ![r] = log[r] \o Events(r, types)]
  BY DEF Go
<1>4. log'[r] = log[r] \o Events(r, types) /\ log[r] \o Events(r, types) \in Seq(Event)
  BY <1>1, <1>2, <1>3 DEF LogsTypeOK
<1>5. log' \in [Runs -> Seq(Event)] /\ \A q \in Runs \ {r} : log'[q] = log[q]
  <2>1. log \in [Runs -> Seq(Event)]
    BY DEF LogsTypeOK
  <2>2. [log EXCEPT ![r] = log[r] \o Events(r, types)] \in [Runs -> Seq(Event)]
    BY <2>1, <1>4, Updated
  <2>3. \A q \in Runs \ {r} : [log EXCEPT ![r] = log[r] \o Events(r, types)][q] = log[q]
    BY <2>1
  <2> QED BY <2>2, <2>3, <1>3
<1>6. /\ Len(log[r]) \in Nat /\ Len(log'[r]) = Len(log[r]) + Len(types)
      /\ \A i \in 1..Len(log[r]) : log'[r][i] = log[r][i]
      /\ \A i \in 1..Len(types) : log'[r][Len(log[r]) + i] = [type |-> types[i], step |-> StepOf(r)]
  <2> DEFINE a == log[r]
             b == Events(r, types)
  <2>1. a \in Seq(Event) /\ b \in Seq(Event) /\ log'[r] = a \o b /\ Len(b) = Len(types)
    BY <1>1, <1>2, <1>4
  <2> HIDE DEF a, b
  <2>2. /\ Len(a) \in Nat /\ Len(a \o b) = Len(a) + Len(b)
        /\ \A i \in 1..Len(a) : (a \o b)[i] = a[i]
        /\ \A i \in 1..Len(b) : (a \o b)[Len(a) + i] = b[i]
    <3>1. a \in Seq(Event) /\ b \in Seq(Event)
      BY <2>1
    <3> QED BY ONLY <3>1, Continued
  <2>3. /\ Len(a) \in Nat /\ Len(log'[r]) = Len(a) + Len(types)
        /\ \A i \in 1..Len(a) : log'[r][i] = a[i]
        /\ \A i \in 1..Len(types) : log'[r][Len(a) + i] = b[i]
    BY <2>1, <2>2
  <2> QED BY <2>3, <1>2 DEF a, b
<1> QED BY <1>5, <1>6

\* What the log says after that of the steps that succeeded and of the task.
LEMMA Telling ==
  ASSUME LogsTypeOK, NEW r \in Runs, NEW next, NEW types \in Seq(EventTypes), Go(r, next, types)
  PROVE  /\ \A q \in Runs \ {r} : Succeeded(q)' = Succeeded(q) /\ Said(q)' = Said(q)
         /\ Succeeded(r)' =
              Succeeded(r) \cup {s \in {StepOf(r)} : \E i \in DOMAIN types : types[i] = "Succeeded"}
         /\ (\A i \in DOMAIN types : types[i] \notin {"TaskCompleted", "TaskFailed"})
              => Said(r)' = Said(r)
         /\ Said(r) = "nothing" /\ (\E i \in DOMAIN types : types[i] = "TaskCompleted")
              => Said(r)' = "completed"
         /\ Said(r) = "nothing" /\ (\E i \in DOMAIN types : types[i] = "TaskFailed")
                                /\ ~(\E i \in DOMAIN types : types[i] = "TaskCompleted")
              => Said(r)' = "failed"
<1> DEFINE n == Len(log[r])
           m == Len(types)
<1>1. /\ log' \in [Runs -> Seq(Event)]
      /\ \A q \in Runs \ {r} : log'[q] = log[q]
      /\ n \in Nat /\ Len(log'[r]) = n + m
      /\ \A i \in 1..n : log'[r][i] = log[r][i]
      /\ \A i \in 1..m : log'[r][n + i] = [type |-> types[i], step |-> StepOf(r)]
  BY Appending
<1>2. m \in Nat /\ DOMAIN types = 1..m /\ DOMAIN log[r] = 1..n /\ DOMAIN log'[r] = 1..(n + m)
  BY <1>1 DEF LogsTypeOK
<1> HIDE DEF n, m
<1>3. ASSUME NEW T
      PROVE  (\E j \in DOMAIN log'[r] : log'[r][j].type = T)
               <=> \/ \E j \in DOMAIN log[r] : log[r][j].type = T
                   \/ \E i \in DOMAIN types : types[i] = T
  <2>1. ASSUME NEW j \in DOMAIN log'[r], log'[r][j].type = T
        PROVE  \/ \E k \in DOMAIN log[r] : log[r][k].type = T
               \/ \E i \in DOMAIN types : types[i] = T
    <3>1. CASE j <= n
      <4>1. j \in 1..n
        BY <1>1, <1>2, <3>1
      <4> QED BY <4>1, <1>1, <1>2, <2>1
    <3>2. CASE ~(j <= n)
      <4>1. j - n \in 1..m /\ j = n + (j - n)
        BY <1>1, <1>2, <3>2
      <4>2. log'[r][j] = [type |-> types[j - n], step |-> StepOf(r)]
        BY <4>1, <1>1
      <4>3. types[j - n] = T
        BY <4>2, <2>1
      <4> QED BY <4>1, <4>3, <1>2
    <3> QED BY <3>1, <3>2
  <2>2. ASSUME NEW j \in DOMAIN log[r], log[r][j].type = T
        PROVE  \E k \in DOMAIN log'[r] : log'[r][k].type = T
    <3>1. j \in 1..n /\ j \in 1..(n + m)
      BY <1>1, <1>2, <2>2
    <3> QED BY <3>1, <1>1, <1>2, <2>2
  <2>3. ASSUME NEW i \in DOMAIN types, types[i] = T
        PROVE  \E k \in DOMAIN log'[r] : log'[r][k].type = T
    <3>1. i \in 1..m /\ n + i \in DOMAIN log'[r]
      BY <1>1, <1>2, <2>3
    <3>0. log'[r][n + i] = [type |-> types[i], step |-> StepOf(r)]
      BY <3>1, <1>1
    <3>2. log'[r][n + i].type = T
      BY <3>0, <2>3
    <3> DEFINE k == n + i
    <3>3. k \in DOMAIN log'[r] /\ log'[r][k].type = T
      BY <3>1, <3>2
    <3> HIDE DEF k
    <3> QED BY <3>3
  <2> QED BY <2>1, <2>2, <2>3
<1>4. \A q \in Runs \ {r} : Succeeded(q)' = Succeeded(q) /\ Said(q)' = Said(q)
  BY <1>1 DEF Succeeded, Said
<1>5. Succeeded(r)' =
        Succeeded(r) \cup {s \in {StepOf(r)} : \E i \in DOMAIN types : types[i] = "Succeeded"}
  <2>1. ASSUME NEW s \in Succeeded(r)'
        PROVE  s \in Succeeded(r) \/ (s = StepOf(r) /\ \E i \in DOMAIN types : types[i] = "Succeeded")
    <3>1. PICK j \in DOMAIN log'[r] : log'[r][j].type = "Succeeded" /\ s = log'[r][j].step
      BY <2>1 DEF Succeeded
    <3>2. CASE j <= n
      <4>1. j \in 1..n
        BY <1>1, <1>2, <3>1, <3>2
      <4> QED BY <4>1, <1>1, <1>2, <3>1 DEF Succeeded
    <3>3. CASE ~(j <= n)
      <4>1. j - n \in 1..m /\ j = n + (j - n)
        BY <1>1, <1>2, <3>1, <3>3
      <4>2. log'[r][j] = [type |-> types[j - n], step |-> StepOf(r)]
        BY <4>1, <1>1
      <4> QED BY <4>1, <4>2, <1>2, <3>1
    <3> QED BY <3>2, <3>3
  <2>2. ASSUME NEW s \in Succeeded(r) PROVE s \in Succeeded(r)'
    <3>1. PICK j \in DOMAIN log[r] : log[r][j].type = "Succeeded" /\ s = log[r][j].step
      BY <2>2 DEF Succeeded
    <3>2. j \in 1..n /\ j \in 1..(n + m)
      BY <1>1, <1>2, <3>1
    <3> QED BY <3>1, <3>2, <1>1, <1>2 DEF Succeeded
  <2>3. ASSUME NEW i \in DOMAIN types, types[i] = "Succeeded" PROVE StepOf(r) \in Succeeded(r)'
    <3>1. i \in 1..m /\ n + i \in DOMAIN log'[r]
      BY <1>1, <1>2, <2>3
    <3>0. log'[r][n + i] = [type |-> types[i], step |-> StepOf(r)]
      BY <3>1, <1>1
    <3>2. log'[r][n + i].type = "Succeeded" /\ log'[r][n + i].step = StepOf(r)
      BY <3>0, <2>3
    <3> DEFINE k == n + i
    <3>3. k \in DOMAIN log'[r] /\ log'[r][k].type = "Succeeded" /\ log'[r][k].step = StepOf(r)
      BY <3>1, <3>2
    <3> HIDE DEF k
    <3> QED BY <3>3 DEF Succeeded
  <2> QED BY <2>1, <2>2, <2>3
<1> DEFINE Had(T) == \E j \in DOMAIN log[r] : log[r][j].type = T
           Has(T) == \E j \in DOMAIN log'[r] : log'[r][j].type = T
           New(T) == \E i \in DOMAIN types : types[i] = T
<1>6. /\ Said(r)' = IF Has("TaskCompleted") THEN "completed"
                    ELSE IF Has("TaskFailed") THEN "failed" ELSE "nothing"
      /\ Said(r) = IF Had("TaskCompleted") THEN "completed"
                   ELSE IF Had("TaskFailed") THEN "failed" ELSE "nothing"
  BY DEF Said
<1>7. /\ Has("TaskCompleted") <=> Had("TaskCompleted") \/ New("TaskCompleted")
      /\ Has("TaskFailed") <=> Had("TaskFailed") \/ New("TaskFailed")
  BY <1>3
<1>8. (\A i \in DOMAIN types : types[i] \notin {"TaskCompleted", "TaskFailed"})
        => ~New("TaskCompleted") /\ ~New("TaskFailed")
  OBVIOUS
<1> HIDE DEF Had, Has, New
<1>9. /\ ~New("TaskCompleted") /\ ~New("TaskFailed") => Said(r)' = Said(r)
      /\ Said(r) = "nothing" /\ New("TaskCompleted") => Said(r)' = "completed"
      /\ Said(r) = "nothing" /\ New("TaskFailed") /\ ~New("TaskCompleted") => Said(r)' = "failed"
  BY <1>6, <1>7
<1> QED BY <1>4, <1>5, <1>8, <1>9 DEF New

\* What a run that asks an executor to act can rely on.
Justified(r, types) ==
  /\ Answer(r).allowed
  /\ Answer(r).approvalRequired => \E i \in DOMAIN types : types[i] = "ApprovalGranted"
  /\ usage.tool_calls < Budget.tool_calls
  /\ Evaluate(config, GateRequest(r)).allowed

Pushes(r) == UNCHANGED results \/ \E result \in Result : Push(r, result)

Shape(r, next, types) ==
  /\ Go(r, next, types)
  /\ Pushes(r)
  /\ types # << >> /\ types[Len(types)] = "Requested" => Justified(r, types)

\* Short lists of event types.
LEMMA Lists ==
  ASSUME NEW R \in EventTypes, NEW S \in EventTypes, NEW T \in EventTypes
  PROVE  /\ << >> \in Seq(EventTypes)
         /\ <<T>> \in Seq(EventTypes) /\ <<T>>[Len(<<T>>)] = T
         /\ <<S, T>> \in Seq(EventTypes) /\ <<S, T>>[Len(<<S, T>>)] = T
         /\ <<R, S, T>> \in Seq(EventTypes) /\ <<R, S, T>>[Len(<<R, S, T>>)] = T
OBVIOUS

\* A list continued by one event type.
LEMMA Longer ==
  ASSUME NEW types \in Seq(EventTypes), NEW T \in EventTypes
  PROVE  /\ types \o <<T>> \in Seq(EventTypes)
         /\ (types \o <<T>>)[Len(types \o <<T>>)] = T
         /\ \A U : (\E i \in DOMAIN types : types[i] = U)
                 => \E i \in DOMAIN (types \o <<T>>) : (types \o <<T>>)[i] = U
<1>1. <<T>> \in Seq(EventTypes) /\ Len(<<T>>) = 1 /\ <<T>>[1] = T
  OBVIOUS
<1>2. /\ types \o <<T>> \in Seq(EventTypes) /\ Len(types) \in Nat
      /\ Len(types \o <<T>>) = Len(types) + 1
      /\ (types \o <<T>>)[Len(types) + 1] = T
      /\ \A i \in 1..Len(types) : (types \o <<T>>)[i] = types[i]
  BY ONLY <1>1, types \in Seq(EventTypes)
<1>3. DOMAIN types = 1..Len(types) /\ DOMAIN (types \o <<T>>) = 1..(Len(types) + 1)
  BY ONLY <1>2, types \in Seq(EventTypes)
<1>4. \A i \in 1..Len(types) : i \in 1..(Len(types) + 1)
  BY <1>2
<1> QED BY <1>2, <1>3, <1>4

\* Every step of a run appends events, pushes at most one result, and asks for
\* an action only when the policy, the approval, the quota and the gate let it.
LEMMA SegmentShape ==
  ASSUME MeterTypeOK, NEW r \in Runs, Segment(r)
  PROVE  \E next \in Phases, types \in Seq(EventTypes) : Shape(r, next, types)
<1> DEFINE Goal == \E next \in Phases, types \in Seq(EventTypes) : Shape(r, next, types)
<1>1. Failure \in Result
  BY DEF Failure, Result
<1>0. Push(r, Failure) \/ UNCHANGED results => Pushes(r)
  BY <1>1 DEF Pushes
<1>2. ASSUME NEW next \in Phases, NEW T \in EventTypes, Go(r, next, <<T>>), T # "Requested",
             Pushes(r)
      PROVE  Goal
  <2>1. <<T>> \in Seq(EventTypes) /\ <<T>>[Len(<<T>>)] = T
    BY ONLY T \in EventTypes, Lists
  <2>2. Shape(r, next, <<T>>)
    BY <1>2, <2>1 DEF Shape
  <2> QED BY <2>1, <2>2
<1>3. ASSUME NEW next \in Phases, Go(r, next, << >>),
             Pushes(r)
      PROVE  Goal
  <2>1. << >> \in Seq(EventTypes) /\ Shape(r, next, << >>)
    BY <1>3 DEF Shape
  <2> QED BY <2>1
<1>4. ASSUME NEW next \in Phases, NEW S \in EventTypes, NEW T \in EventTypes, Go(r, next, <<S, T>>),
             Pushes(r),
             T = "Requested" => Justified(r, <<S, T>>)
      PROVE  Goal
  <2>1. <<S, T>> \in Seq(EventTypes) /\ <<S, T>>[Len(<<S, T>>)] = T
    BY ONLY S \in EventTypes, T \in EventTypes, Lists
  <2>2. Shape(r, next, <<S, T>>)
    BY <1>4, <2>1 DEF Shape
  <2> QED BY <2>1, <2>2
<1> SUFFICES Goal
  OBVIOUS
<1> HIDE DEF Goal
<1>5. CASE Start(r)
  <2>1. CASE Go(r, "planning", <<"RunCreated", "TaskCreated">>)
    BY <1>0, <1>4, <1>5, <2>1 DEF Start, Phases, EventTypes
  <2>2. CASE Go(r, "loop", <<"RunCreated", "TaskCreated", "PlanGenerated">>)
    <3> DEFINE types == <<"RunCreated", "TaskCreated", "PlanGenerated">>
    <3>1. types \in Seq(EventTypes) /\ types[Len(types)] = "PlanGenerated" /\ "loop" \in Phases
      BY ONLY Lists DEF Phases, EventTypes
    <3>2. UNCHANGED results
      BY <1>5 DEF Start
    <3>3. Shape(r, "loop", types)
      BY <1>0, <2>2, <3>1, <3>2 DEF Shape
    <3> QED BY <3>1, <3>3 DEF Goal
  <2> QED BY <1>5, <2>1, <2>2 DEF Start
<1>6. CASE Planned(r)
  BY <1>0, <1>2, <1>6 DEF Planned, Phases, EventTypes
<1>7. CASE Reject(r) \/ Disapprove(r)
  <2>1. /\ \E T \in {"ApprovalDenied", "CapabilityRejected"} : Go(r, "loop", <<T>>)
        /\ Push(r, Failure)
    <3>1. CASE Reject(r)
      BY <3>1 DEF Reject
    <3>2. CASE Disapprove(r)
      BY <3>2 DEF Disapprove
    <3> QED BY <1>7, <3>1, <3>2
  <2>2. PICK T \in {"ApprovalDenied", "CapabilityRejected"} : Go(r, "loop", <<T>>)
    BY <2>1
  <2>3. T \in EventTypes /\ T # "Requested" /\ "loop" \in Phases
    BY DEF Phases, EventTypes
  <2> QED BY <1>0, <1>2, <2>1, <2>2, <2>3
<1>8. CASE Ask(r)
  BY <1>0, <1>2, <1>8 DEF Ask, Phases, EventTypes
<1>9. ASSUME NEW before \in {<< >>, <<"ApprovalGranted">>}, Proceed(r, before),
             before = << >> => ~Answer(r).approvalRequired
      PROVE  Goal
  <2>0. before \in Seq(EventTypes)
    <3>1. "ApprovalGranted" \in EventTypes
      BY DEF EventTypes
    <3>2. << >> \in Seq(EventTypes) /\ <<"ApprovalGranted">> \in Seq(EventTypes)
      BY <3>1, Lists
    <3> QED BY <1>9, <3>2
  <2>1. ASSUME NEW next \in Phases, NEW T \in EventTypes, Go(r, next, before \o <<T>>),
               UNCHANGED results \/ Push(r, Failure),
               T = "Requested" => Justified(r, before \o <<T>>)
        PROVE  Goal
    <3>1. before \o <<T>> \in Seq(EventTypes) /\ (before \o <<T>>)[Len(before \o <<T>>)] = T
      BY <2>0, Longer
    <3>2. Shape(r, next, before \o <<T>>)
      BY <1>0, <2>1, <3>1 DEF Shape
    <3> QED BY <3>1, <3>2 DEF Goal
  <2>2. ASSUME ~WithinBudget(Budget, usage, "tool_calls"), Go(r, "closing", before \o <<"QuotaExceeded">>),
               Push(r, Failure)
        PROVE  Goal
    BY <2>1, <2>2 DEF Phases, EventTypes
  <2>3. ASSUME Go(r, "loop", before \o <<"ImmuneBlocked">>), Push(r, Failure)
        PROVE  Goal
    BY <2>1, <2>3 DEF Phases, EventTypes
  <2>4. ASSUME Go(r, "rejected", before), UNCHANGED results
        PROVE  Goal
    <3>1. CASE before = << >>
      BY <1>0, <1>3, <2>4, <3>1 DEF Phases
    <3>2. CASE before = <<"ApprovalGranted">>
      BY <1>0, <1>2, <2>4, <3>2 DEF Phases, EventTypes
    <3> QED BY <3>1, <3>2, <1>9
  <2>5. ASSUME WithinBudget(Budget, usage, "tool_calls"), Evaluate(config, GateRequest(r)).allowed,
               Begin(r, before)
        PROVE  Goal
    <3>1. CASE Answer(r).allowed
      <4>1. Go(r, "requested", before \o <<"Requested">>) /\ UNCHANGED results
        BY <2>5, <3>1 DEF Begin
      <4>2. usage.tool_calls < Budget.tool_calls
        BY <2>5, RunnerAssumption DEF WithinBudget, MeterTypeOK, EmptyUsage
      <4>3. ASSUME Answer(r).approvalRequired
            PROVE  LET types == before \o <<"Requested">> IN
                   \E i \in DOMAIN types : types[i] = "ApprovalGranted"
        <5>1. before = <<"ApprovalGranted">>
          BY <1>9, <4>3
        <5>2. \E i \in DOMAIN before : before[i] = "ApprovalGranted"
          BY <5>1
        <5>3. "Requested" \in EventTypes
          BY DEF EventTypes
        <5> QED BY <2>0, <5>2, <5>3, Longer
      <4>4. Justified(r, before \o <<"Requested">>)
        BY <2>5, <3>1, <4>2, <4>3 DEF Justified
      <4> QED BY <2>1, <4>1, <4>4 DEF Phases, EventTypes
    <3>2. CASE ~Answer(r).allowed
      BY <2>1, <2>5, <3>2 DEF Begin, Phases, EventTypes
    <3> QED BY <3>1, <3>2
  <2> QED BY <1>9, <2>2, <2>3, <2>4, <2>5 DEF Proceed
<1>10. CASE Execute(r) \/ Approve(r)
  <2>1. CASE Execute(r)
    BY <1>9, <2>1 DEF Execute
  <2>2. CASE Approve(r)
    <3>1. <<"ApprovalGranted">> # << >>
      OBVIOUS
    <3> QED BY <1>9, <2>2, <3>1 DEF Approve
  <2> QED BY <1>10, <2>1, <2>2
<1>11. CASE CanExecute(r)
  BY <1>0, <1>2, <1>3, <1>11 DEF CanExecute, Phases, EventTypes
<1>12. CASE Act(r)
  <2>1. PICK result \in [verdict : {"PASSED"}, evidence : BOOLEAN] \cup {Failure} :
          /\ Push(r, result)
          /\ Go(r, "acted", <<IF result.verdict = "PASSED" THEN "Succeeded" ELSE "Unsuccessful">>)
    BY <1>12 DEF Act
  <2>2. Pushes(r)
    BY <1>1, <2>1 DEF Result, Pushes
  <2>3. PICK T \in {"Succeeded", "Unsuccessful"} : Go(r, "acted", <<T>>)
    BY <2>1
  <2> QED BY <1>2, <2>1, <2>2, <2>3 DEF Phases, EventTypes
<1>13. CASE Account(r) \/ Throw(r) \/ Bill(r) \/ Flush(r) \/ FlushFails(r)
  BY <1>0, <1>3, <1>13 DEF Account, Throw, Bill, Flush, FlushFails, Phases
<1>14. ASSUME NEW checks, Conclude(r, checks) PROVE Goal
  <2>1. \E T \in {"TaskCompleted", "TaskFailed"} : Go(r, "billing", <<"VerificationCompleted", T>>)
    BY <1>14 DEF Conclude
  <2>2. PICK T \in {"TaskCompleted", "TaskFailed"} : Go(r, "billing", <<"VerificationCompleted", T>>)
    BY <2>1
  <2>3. UNCHANGED results
    BY <1>14 DEF Conclude
  <2> QED BY <1>0, <1>4, <2>2, <2>3 DEF Phases, EventTypes
<1>15. CASE Close(r) \/ Check(r)
  BY <1>0, <1>3, <1>14, <1>15 DEF Close, Check, Phases
<1> QED
  BY <1>5, <1>6, <1>7, <1>8, <1>10, <1>11, <1>12, <1>13, <1>15 DEF Segment

\* The logs and the results keep their types, and only the run that moves on
\* gets events.
LEMMA SegmentLogs ==
  ASSUME MeterTypeOK, LogsTypeOK, NEW r \in Runs, Segment(r)
  PROVE  LogsTypeOK' /\ \A q \in Runs \ {r} : log'[q] = log[q] /\ results'[q] = results[q]
<1>1. PICK next \in Phases, types \in Seq(EventTypes) : Shape(r, next, types)
  BY SegmentShape
<1>2. log' \in [Runs -> Seq(Event)] /\ \A q \in Runs \ {r} : log'[q] = log[q]
  BY <1>1, Appending DEF Shape
<1>3. results' \in [Runs -> Seq(Result)] /\ \A q \in Runs \ {r} : results'[q] = results[q]
  <2>1. results \in [Runs -> Seq(Result)]
    BY DEF LogsTypeOK
  <2>2. CASE UNCHANGED results
    BY <2>1, <2>2
  <2>3. ASSUME NEW result \in Result, Push(r, result)
        PROVE  results' \in [Runs -> Seq(Result)] /\ \A q \in Runs \ {r} : results'[q] = results[q]
    <3>1. results' = [results EXCEPT ![r] = Append(results[r], result)]
      BY <2>3 DEF Push
    <3>2. results[r] \in Seq(Result)
      BY <2>1
    <3>3. Append(results[r], result) \in Seq(Result)
      BY ONLY <3>2, result \in Result
    <3> QED BY <2>1, <3>1, <3>3, Updated
  <2> QED BY <1>1, <2>2, <2>3 DEF Shape, Pushes
<1> QED BY <1>2, <1>3 DEF LogsTypeOK

\* What the run's events are when it asks for an action.
LEMMA Asking ==
  ASSUME LogsTypeOK, NEW r \in Runs, NEW next, NEW types \in Seq(EventTypes), Shape(r, next, types),
         Asks(r)
  PROVE  /\ Justified(r, types)
         /\ \A i \in DOMAIN types : [type |-> types[i], step |-> StepOf(r)] \in ToSet(log'[r])
<1> DEFINE n == Len(log[r])
           m == Len(types)
<1>1. /\ log'[r] \in Seq(Event)
      /\ n \in Nat /\ Len(log'[r]) = n + m
      /\ \A i \in 1..m : log'[r][n + i] = [type |-> types[i], step |-> StepOf(r)]
  BY Appending DEF Shape
<1>2. m \in Nat /\ DOMAIN types = 1..m
  OBVIOUS
<1> HIDE DEF n, m
<1>3. Len(log'[r]) > n /\ Last(log'[r]).type = "Requested"
  BY DEF Asks, n
<1>4. m \in 1..m /\ types # << >>
  BY <1>1, <1>2, <1>3 DEF m
<1>5. Last(log'[r]) = [type |-> types[m], step |-> StepOf(r)]
  BY <1>1, <1>4 DEF Last
<1>6. types[m] = "Requested"
  BY <1>3, <1>5
<1>7. Justified(r, types)
  BY <1>4, <1>6 DEF Shape, m
<1>8. ASSUME NEW i \in DOMAIN types
      PROVE  [type |-> types[i], step |-> StepOf(r)] \in ToSet(log'[r])
  <2> DEFINE k == n + i
  <2>1. k \in 1..Len(log'[r]) /\ log'[r][k] = [type |-> types[i], step |-> StepOf(r)]
    BY <1>1, <1>2
  <2>2. DOMAIN log'[r] = 1..Len(log'[r])
    BY <1>1
  <2> HIDE DEF k
  <2> QED BY <2>1, <2>2 DEF ToSet
<1> QED BY <1>7, <1>8

\* The types of the meter, of the phases and of the logs.
RunsTypeOK == MeterTypeOK /\ PhasesTypeOK /\ LogsTypeOK

\* Nothing is logged at first.
LEMMA RunsStart == RunnerInit => RunsTypeOK
<1> SUFFICES ASSUME RunnerInit PROVE RunsTypeOK
  OBVIOUS
<1>1. << >> \in Seq(Event) /\ << >> \in Seq(Result)
  OBVIOUS
<1> QED
  BY <1>1, QuotaStarts DEF RunnerInit, QuotaInv, RunsTypeOK, LogsTypeOK

\* A step that is no step of a run appends nothing.
LEMMA OtherSteps ==
  [RunnerNext]_<<runnerVars, immuneVars>>
    => (\E r \in Runs : Segment(r)) \/ UNCHANGED <<log, results>>
BY DEF RunnerNext, Deny, Crash, runnerVars

\* The types hold on.
LEMMA RunsSteps ==
  RunsTypeOK /\ [RunnerNext]_<<runnerVars, immuneVars>> /\ QuotaInv /\ QuotaInv' => RunsTypeOK'
<1> SUFFICES ASSUME RunsTypeOK, [RunnerNext]_<<runnerVars, immuneVars>>, QuotaInv'
             PROVE  LogsTypeOK'
  BY DEF RunsTypeOK, QuotaInv
<1>1. ASSUME NEW r \in Runs, Segment(r) PROVE LogsTypeOK'
  BY <1>1, SegmentLogs DEF RunsTypeOK
<1>2. ASSUME UNCHANGED <<log, results>> PROVE LogsTypeOK'
  BY <1>2 DEF RunsTypeOK, LogsTypeOK
<1> QED BY <1>1, <1>2, OtherSteps

\* No executor is asked to act against the policy, the approval of its own
\* step, the quota or the gate, as they are when it is asked.
LEMMA RequestsSteps ==
  ASSUME RunsTypeOK, [RunnerNext]_<<runnerVars, immuneVars>>, NEW r \in Runs, Asks(r)
  PROVE  /\ Answer(r).allowed
         /\ Answer(r).approvalRequired =>
              [type |-> "ApprovalGranted", step |-> StepOf(r)] \in ToSet(log'[r])
         /\ usage.tool_calls < Budget.tool_calls
         /\ Evaluate(config, GateRequest(r)).allowed
<1>1. CASE UNCHANGED <<log, results>>
  <2>1. Len(log'[r]) = Len(log[r]) /\ Len(log[r]) \in Nat
    BY <1>1 DEF RunsTypeOK, LogsTypeOK
  <2> QED BY <2>1 DEF Asks
<1>2. ASSUME NEW q \in Runs, Segment(q), q # r PROVE FALSE
  <2>1. Len(log'[r]) = Len(log[r]) /\ Len(log[r]) \in Nat
    BY <1>2, SegmentLogs DEF RunsTypeOK, LogsTypeOK
  <2> QED BY <2>1 DEF Asks
<1>3. CASE Segment(r)
  <2>1. PICK next \in Phases, types \in Seq(EventTypes) : Shape(r, next, types)
    BY <1>3, SegmentShape DEF RunsTypeOK
  <2>2. /\ Justified(r, types)
        /\ \A i \in DOMAIN types : [type |-> types[i], step |-> StepOf(r)] \in ToSet(log'[r])
    BY <2>1, Asking DEF RunsTypeOK
  <2> QED BY <2>2 DEF Justified
<1> QED BY <1>1, <1>2, <1>3, OtherSteps

\* However long an approval is awaited and whatever other runs and operators do
\* meanwhile, an executor is asked to act only when the policy, the quota and
\* the gate allow it at that moment and the step itself was approved.
THEOREM RequestsHold == RunnerSpec => RequestsAllowed
<1>1. RunnerInit => QuotaInv /\ RunsTypeOK
  BY QuotaStarts, RunsStart
<1>2. QuotaInv /\ RunsTypeOK /\ [RunnerNext]_<<runnerVars, immuneVars>> => (QuotaInv /\ RunsTypeOK)'
  BY QuotaSteps, RunsSteps
<1> DEFINE Allowed == \A r \in Runs : Asks(r) =>
             /\ Answer(r).allowed
             /\ Answer(r).approvalRequired =>
                  [type |-> "ApprovalGranted", step |-> StepOf(r)] \in ToSet(log'[r])
             /\ usage.tool_calls < Budget.tool_calls
             /\ Evaluate(config, GateRequest(r)).allowed
<1>3. RunsTypeOK /\ [RunnerNext]_<<runnerVars, immuneVars>>
        => [Allowed]_<<runnerVars, immuneVars>>
  BY RequestsSteps
<1>4. RequestsAllowed <=> [][Allowed]_<<runnerVars, immuneVars>>
  BY DEF RequestsAllowed
<1> HIDE DEF Allowed
<1> QED
  BY <1>1, <1>2, <1>3, <1>4, PTL DEF RunnerSpec

-----------------------------------------------------------------------------
(* The contract.  A run's results and its log tell the same story, step by *)
(* step: that is what makes a verdict of its results a verdict of what was *)
(* executed, and the loop's place in the plan a bound on what can still be.*)

Ended == {"returned", "rejected", "lost"}
Speaking == {"billing", "flushing", "returned"}
Working == Phases \ ({"billing", "flushing"} \cup Ended)

RunOK(r) ==
  /\ Len(results[r]) <= Len(Job[r].plan)
  /\ phase[r] \in {"approving", "requested", "acting"} => MoreSteps(r)
  /\ Succeeded(r) \subseteq 1..Len(results[r])
  /\ \A i \in 1..Len(results[r]) : results[r][i].verdict = "PASSED" => i \in Succeeded(r)
  /\ phase[r] = "closing" => \E i \in 1..Len(results[r]) : results[r][i].verdict = "FAILED"
  /\ phase[r] = "checking" => Job[r].ownChecks
  /\ phase[r] \in Speaking => Said(r) # "nothing"
  /\ phase[r] \in Working => Said(r) = "nothing"

StoryOK == \A r \in Runs : RunOK(r)
ContractInv == RunsTypeOK /\ StoryOK

Told == {"Succeeded", "TaskCompleted", "TaskFailed"}

\* A step of a run that tells nothing: it may fail the step the loop is at.
Quiet(r, next, types) ==
  /\ Go(r, next, types)
  /\ \A i \in DOMAIN types : types[i] \notin Told
  /\ UNCHANGED results \/ (MoreSteps(r) /\ Push(r, Failure))
  /\ next \in {"approving", "requested", "acting"} => MoreSteps(r) /\ UNCHANGED results
  /\ next = "closing" => MoreSteps(r) /\ Push(r, Failure)
  /\ next = "checking" => Job[r].ownChecks
  /\ next \in Speaking => phase[r] \in {"billing", "flushing"}
  /\ next \in Working => phase[r] \in Working
  /\ next = "returned" => phase[r] = "flushing"
  /\ phase[r] \notin Ended

\* One more result.
LEMMA Pushing ==
  ASSUME LogsTypeOK, NEW r \in Runs, NEW result \in Result, Push(r, result)
  PROVE  /\ Len(results[r]) \in Nat /\ Len(results'[r]) = Len(results[r]) + 1
         /\ \A i \in 1..Len(results[r]) : results'[r][i] = results[r][i]
         /\ results'[r][Len(results[r]) + 1] = result
         /\ \A q \in Runs \ {r} : results'[q] = results[q]
<1>1. results \in [Runs -> Seq(Result)] /\ results' = [results EXCEPT ![r] = Append(results[r], result)]
  BY DEF LogsTypeOK, Push
<1>2. results'[r] = Append(results[r], result) /\ results[r] \in Seq(Result)
  BY <1>1
<1>3. \A q \in Runs \ {r} : results'[q] = results[q]
  BY <1>1
<1> DEFINE a == results[r]
<1>4. a \in Seq(Result) /\ results'[r] = Append(a, result)
  BY <1>2
<1> HIDE DEF a
<1>5. /\ Len(a) \in Nat /\ Len(Append(a, result)) = Len(a) + 1
      /\ \A i \in 1..Len(a) : Append(a, result)[i] = a[i]
      /\ Append(a, result)[Len(a) + 1] = result
  <2>1. a \in Seq(Result)
    BY <1>4
  <2> QED BY ONLY <2>1, result \in Result
<1> QED BY <1>3, <1>4, <1>5 DEF a

\* What a run did not touch stays in order.
LEMMA OthersOK ==
  ASSUME StoryOK, NEW q \in Runs, results'[q] = results[q], phase'[q] = phase[q],
         Succeeded(q)' = Succeeded(q), Said(q)' = Said(q)
  PROVE  RunOK(q)'
<1>1. RunOK(q)
  BY DEF StoryOK
<1>2. MoreSteps(q)' = MoreSteps(q)
  BY DEF MoreSteps, StepOf
<1> QED BY <1>1, <1>2 DEF RunOK

\* A quiet step keeps the story, and tells nothing new.
LEMMA QuietKeeps ==
  ASSUME ContractInv, NEW r \in Runs, NEW next \in Phases, NEW types \in Seq(EventTypes),
         Quiet(r, next, types)
  PROVE  /\ StoryOK'
         /\ \A q \in Runs : Succeeded(q)' = Succeeded(q) /\ Said(q)' = Said(q)
<1>1. LogsTypeOK /\ PhasesTypeOK
  BY DEF ContractInv, RunsTypeOK
<1>2. Go(r, next, types) /\ \A i \in DOMAIN types : types[i] \notin Told
  BY DEF Quiet
<1>3. \A q \in Runs : Succeeded(q)' = Succeeded(q) /\ Said(q)' = Said(q)
  <2>1. ~\E i \in DOMAIN types : types[i] = "Succeeded"
    BY <1>2 DEF Told
  <2>2. \A i \in DOMAIN types : types[i] \notin {"TaskCompleted", "TaskFailed"}
    BY <1>2 DEF Told
  <2>3. /\ \A q \in Runs \ {r} : Succeeded(q)' = Succeeded(q) /\ Said(q)' = Said(q)
        /\ Succeeded(r)' =
             Succeeded(r) \cup {s \in {StepOf(r)} : \E i \in DOMAIN types : types[i] = "Succeeded"}
        /\ Said(r)' = Said(r)
    BY <1>1, <1>2, <2>2, Telling
  <2>4. Succeeded(r)' = Succeeded(r)
    BY <2>1, <2>3
  <2> QED BY <2>3, <2>4
<1>4. phase'[r] = next /\ \A q \in Runs \ {r} : phase'[q] = phase[q]
  BY <1>1, <1>2 DEF Go, PhasesTypeOK
<1>5. ASSUME NEW q \in Runs \ {r} PROVE RunOK(q)'
  <2>1. results'[q] = results[q]
    <3>1. CASE UNCHANGED results
      BY <3>1
    <3>2. CASE Push(r, Failure)
      <4>1. Failure \in Result
        BY DEF Failure, Result
      <4> QED BY <1>1, <3>2, <4>1, Pushing
    <3> QED BY <3>1, <3>2 DEF Quiet
  <2> QED BY <1>3, <1>4, <2>1, OthersOK DEF ContractInv
<1>6. RunOK(r)'
  <2>0. RunOK(r)
    BY DEF ContractInv, StoryOK
  <2>1. /\ next \in Speaking => Said(r)' # "nothing"
        /\ next \in Working => Said(r)' = "nothing"
        /\ next = "checking" => Job[r].ownChecks
    BY <1>3, <2>0 DEF RunOK, Quiet, Speaking
  <2>2. CASE UNCHANGED results
    <3>1. MoreSteps(r)' = MoreSteps(r) /\ results'[r] = results[r]
      BY <2>2 DEF MoreSteps, StepOf
    <3>2. next # "closing" \/ \E i \in 1..Len(results[r]) : results[r][i].verdict = "FAILED"
      <4>1. CASE next = "closing"
        <5>1. Failure \in Result /\ Push(r, Failure)
          BY <4>1 DEF Failure, Result, Quiet
        <5>2. Len(results'[r]) = Len(results[r]) + 1 /\ Len(results[r]) \in Nat
          BY <1>1, <5>1, Pushing
        <5> QED BY <2>2, <5>2
      <4> QED BY <4>1
    <3>3. next \in {"approving", "requested", "acting"} => MoreSteps(r)
      BY DEF Quiet
    <3> QED BY <1>3, <1>4, <2>0, <2>1, <3>1, <3>2, <3>3 DEF RunOK
  <2>3. CASE MoreSteps(r) /\ Push(r, Failure) /\ ~UNCHANGED results
    <3> DEFINE n == Len(results[r])
    <3>1. /\ n \in Nat /\ Len(results'[r]) = n + 1
          /\ \A i \in 1..n : results'[r][i] = results[r][i]
          /\ results'[r][n + 1] = Failure
      <4>1. Failure \in Result
        BY DEF Failure, Result
      <4> QED BY <1>1, <2>3, <4>1, Pushing
    <3>2. n + 1 <= Len(Job[r].plan) /\ Len(Job[r].plan) \in Nat
      BY <2>3, PlansAssumption DEF MoreSteps, StepOf
    <3>3. next \notin {"approving", "requested", "acting"}
      BY <2>3 DEF Quiet
    <3>4. Succeeded(r)' \subseteq 1..(n + 1)
      BY <1>3, <2>0, <3>1 DEF RunOK
    <3>5. \A i \in 1..(n + 1) : results'[r][i].verdict = "PASSED" => i \in Succeeded(r)'
      <4>1. Failure.verdict # "PASSED"
        BY DEF Failure
      <4>2. \A i \in 1..(n + 1) : i \in 1..n \/ i = n + 1
        BY <3>1
      <4> QED BY <1>3, <2>0, <3>1, <4>1, <4>2 DEF RunOK
    <3>6. \E i \in 1..(n + 1) : results'[r][i].verdict = "FAILED"
      <4>1. n + 1 \in 1..(n + 1) /\ results'[r][n + 1].verdict = "FAILED"
        BY <3>1 DEF Failure
      <4> QED BY <4>1
    <3> QED BY <1>4, <2>1, <3>1, <3>2, <3>3, <3>4, <3>5, <3>6 DEF RunOK
  <2> QED BY <2>2, <2>3 DEF Quiet
<1> QED BY <1>3, <1>5, <1>6 DEF StoryOK

\* A step that proves: the executor acted with success.
Acts(r) ==
  /\ phase[r] = "acting"
  /\ \E result \in Result : result.verdict = "PASSED" /\ Push(r, result)
  /\ Go(r, "acted", <<"Succeeded">>)

\* A step that says how the task ended.
Speaks(r, type) ==
  /\ phase[r] \in {"loop", "closing", "checking"}
  /\ UNCHANGED results
  /\ Go(r, "billing", <<"VerificationCompleted", type>>)
  /\ type = "TaskCompleted" /\ ~Job[r].ownChecks => Succeeded(r) = 1..Len(Job[r].plan)

\* A verdict of the results: it can only be that the task passed when every
\* step of the plan has a result and every result is a success.
LEMMA VerdictProven ==
  ASSUME LogsTypeOK, NEW r \in Runs, RunOK(r), phase[r] = "closing" \/ ~MoreSteps(r),
         VerdictOf(results[r]) = "PASSED"
  PROVE  Succeeded(r) = 1..Len(Job[r].plan)
<1>1. DOMAIN results[r] = 1..Len(results[r]) /\ Len(results[r]) \in Nat
  BY DEF LogsTypeOK
<1>2. \A i \in 1..Len(results[r]) : results[r][i].verdict # "FAILED" /\ results[r][i].verdict = "PASSED"
  BY <1>1 DEF VerdictOf
<1>3. phase[r] # "closing"
  BY <1>2 DEF RunOK
<1>4. Len(results[r]) = Len(Job[r].plan)
  BY <1>1, <1>3, PlansAssumption DEF RunOK, MoreSteps, StepOf
<1>5. \A i \in 1..Len(results[r]) : i \in Succeeded(r)
  BY <1>2 DEF RunOK
<1> QED BY <1>4, <1>5 DEF RunOK

\* Every step of a run is quiet, or proves, or speaks.
LEMMA Kinds ==
  ASSUME ContractInv, NEW r \in Runs, Segment(r)
  PROVE  \/ \E next \in Phases, types \in Seq(EventTypes) : Quiet(r, next, types)
         \/ Acts(r)
         \/ \E type \in {"TaskCompleted", "TaskFailed"} : Speaks(r, type)
<1> DEFINE Calm == \E next \in Phases, types \in Seq(EventTypes) : Quiet(r, next, types)
           Goal == Calm \/ Acts(r) \/ \E type \in {"TaskCompleted", "TaskFailed"} : Speaks(r, type)
<1> SUFFICES Goal
  OBVIOUS
<1>0. LogsTypeOK /\ RunOK(r)
  BY DEF ContractInv, RunsTypeOK, StoryOK
<1> DEFINE Fits(next) ==
      /\ UNCHANGED results \/ (MoreSteps(r) /\ Push(r, Failure))
      /\ next \in {"approving", "requested", "acting"} => MoreSteps(r) /\ UNCHANGED results
      /\ next = "closing" => MoreSteps(r) /\ Push(r, Failure)
      /\ next = "checking" => Job[r].ownChecks
      /\ next \in Speaking => phase[r] \in {"billing", "flushing"}
      /\ next \in Working => phase[r] \in Working
      /\ next = "returned" => phase[r] = "flushing"
      /\ phase[r] \notin Ended
<1>1. ASSUME NEW next \in Phases, NEW types \in Seq(EventTypes), Go(r, next, types), Fits(next),
             \A i \in DOMAIN types : types[i] \notin Told
      PROVE  Calm
  <2>1. Quiet(r, next, types)
    BY <1>1 DEF Quiet
  <2> QED BY <2>1
<1> HIDE DEF Calm
<1>2. ASSUME NEW next \in Phases, Go(r, next, << >>), Fits(next) PROVE Calm
  <2>1. << >> \in Seq(EventTypes) /\ \A i \in DOMAIN << >> : << >>[i] \notin Told
    OBVIOUS
  <2> QED BY <1>1, <1>2, <2>1
<1>3. ASSUME NEW next \in Phases, NEW T \in EventTypes \ Told, Go(r, next, <<T>>), Fits(next)
      PROVE  Calm
  <2>1. <<T>> \in Seq(EventTypes) /\ \A i \in DOMAIN <<T>> : <<T>>[i] \notin Told
    OBVIOUS
  <2> QED BY <1>1, <1>3, <2>1
<1>4. ASSUME NEW next \in Phases, NEW before \in {<< >>, <<"ApprovalGranted">>},
             NEW T \in EventTypes \ Told, Go(r, next, before \o <<T>>), Fits(next)
      PROVE  Calm
  <2>1. CASE before = << >>
    <3>1. << >> \o <<T>> = <<T>>
      OBVIOUS
    <3> QED BY <1>3, <1>4, <2>1, <3>1
  <2>2. CASE before = <<"ApprovalGranted">>
    <3> DEFINE types == before \o <<T>>
               A == EventTypes \ Told
    <3>1. <<"ApprovalGranted">> \in Seq(A) /\ T \in A
      BY DEF EventTypes, Told
    <3> HIDE DEF A
    <3>2. types \in Seq(A)
      <4>1. before \in Seq(A) /\ <<T>> \in Seq(A)
        BY <2>2, <3>1
      <4> QED BY ONLY <4>1
    <3> HIDE DEF types
    <3>3. types \in Seq(EventTypes) /\ \A i \in DOMAIN types : types[i] \notin Told
      BY <3>2 DEF A
    <3> QED BY <1>1, <1>4, <3>3 DEF types
  <2> QED BY <1>4, <2>1, <2>2
<1>5. CASE Start(r)
  <2>1. UNCHANGED results /\ phase[r] = "idle"
    BY <1>5 DEF Start
  <2>2. Fits("loop") /\ Fits("planning")
    BY <2>1 DEF Speaking, Working, Phases, Ended
  <2> HIDE DEF Fits
  <2>3. CASE Go(r, "planning", <<"RunCreated", "TaskCreated">>)
    <3> DEFINE types == <<"RunCreated", "TaskCreated">>
    <3>1. types \in Seq(EventTypes) /\ \A i \in DOMAIN types : types[i] \notin Told
      BY DEF EventTypes, Told
    <3>2. "planning" \in Phases
      BY DEF Phases
    <3> QED BY <1>1, <2>2, <2>3, <3>1, <3>2
  <2>4. CASE Go(r, "loop", <<"RunCreated", "TaskCreated", "PlanGenerated">>)
    <3> DEFINE types == <<"RunCreated", "TaskCreated", "PlanGenerated">>
    <3>1. types \in Seq(EventTypes) /\ \A i \in DOMAIN types : types[i] \notin Told
      BY DEF EventTypes, Told
    <3>2. "loop" \in Phases
      BY DEF Phases
    <3> QED BY <1>1, <2>2, <2>4, <3>1, <3>2
  <2> QED BY <1>5, <2>3, <2>4 DEF Start
<1>6. CASE Planned(r)
  <2>1. Fits("loop")
    BY <1>6 DEF Planned, Speaking, Working, Phases, Ended
  <2>2. "PlanGenerated" \in EventTypes \ Told /\ "loop" \in Phases
    BY DEF EventTypes, Told, Phases
  <2> HIDE DEF Fits
  <2> QED BY <1>3, <1>6, <2>1, <2>2 DEF Planned
<1>7. CASE Reject(r) \/ Disapprove(r)
  <2>1. /\ \E T \in {"ApprovalDenied", "CapabilityRejected"} : Go(r, "loop", <<T>>)
        /\ Push(r, Failure) /\ phase[r] \in {"loop", "approving"} /\ MoreSteps(r)
    <3>1. CASE Reject(r)
      BY <3>1 DEF Reject, InLoop
    <3>2. CASE Disapprove(r)
      BY <1>0, <3>2 DEF Disapprove, RunOK
    <3> QED BY <1>7, <3>1, <3>2
  <2>2. PICK T \in {"ApprovalDenied", "CapabilityRejected"} : Go(r, "loop", <<T>>)
    BY <2>1
  <2>3. T \in EventTypes \ Told /\ "loop" \in Phases
    BY DEF EventTypes, Told, Phases
  <2>4. Fits("loop")
    BY <2>1 DEF Speaking, Working, Phases, Ended
  <2> HIDE DEF Fits
  <2> QED BY <1>3, <2>2, <2>3, <2>4
<1>8. CASE Ask(r)
  <2>1. Fits("approving")
    BY <1>8 DEF Ask, InLoop, Speaking, Working, Phases, Ended
  <2>2. "ApprovalRequired" \in EventTypes \ Told /\ "approving" \in Phases
    BY DEF EventTypes, Told, Phases
  <2> HIDE DEF Fits
  <2> QED BY <1>3, <1>8, <2>1, <2>2 DEF Ask
<1>9. ASSUME NEW before \in {<< >>, <<"ApprovalGranted">>}, Proceed(r, before),
             phase[r] \in {"loop", "approving"}, MoreSteps(r)
      PROVE  Calm
  <2>1. /\ Push(r, Failure) => Fits("loop") /\ Fits("closing") /\ Fits("acted")
        /\ UNCHANGED results => Fits("requested") /\ Fits("rejected")
    BY <1>9 DEF Speaking, Working, Phases, Ended
  <2>2. /\ {"QuotaExceeded", "ImmuneBlocked", "Requested", "Denied", "ApprovalGranted"}
             \subseteq EventTypes \ Told
        /\ {"closing", "loop", "rejected", "requested", "acted"} \subseteq Phases
    BY DEF EventTypes, Told, Phases
  <2> HIDE DEF Fits
  <2>3. ASSUME Go(r, "closing", before \o <<"QuotaExceeded">>), Push(r, Failure) PROVE Calm
    BY <1>4, <2>1, <2>2, <2>3
  <2>4. ASSUME Go(r, "loop", before \o <<"ImmuneBlocked">>), Push(r, Failure) PROVE Calm
    BY <1>4, <2>1, <2>2, <2>4
  <2>5. ASSUME Go(r, "rejected", before), UNCHANGED results PROVE Calm
    <3>1. CASE before = << >>
      BY <1>2, <2>1, <2>2, <2>5, <3>1
    <3>2. CASE before = <<"ApprovalGranted">>
      BY <1>3, <2>1, <2>2, <2>5, <3>2
    <3> QED BY <1>9, <3>1, <3>2
  <2>6. ASSUME Begin(r, before) PROVE Calm
    <3>1. \/ Go(r, "requested", before \o <<"Requested">>) /\ UNCHANGED results
          \/ Go(r, "acted", before \o <<"Denied">>) /\ Push(r, Failure)
      BY <2>6 DEF Begin
    <3>2. CASE Go(r, "requested", before \o <<"Requested">>) /\ UNCHANGED results
      BY <1>4, <2>1, <2>2, <3>2
    <3>3. CASE Go(r, "acted", before \o <<"Denied">>) /\ Push(r, Failure)
      BY <1>4, <2>1, <2>2, <3>3
    <3> QED BY <3>1, <3>2, <3>3
  <2> QED BY <1>9, <2>3, <2>4, <2>5, <2>6 DEF Proceed
<1>10. CASE Execute(r) \/ Approve(r)
  <2>1. CASE Execute(r)
    BY <1>9, <2>1 DEF Execute, InLoop
  <2>2. CASE Approve(r)
    BY <1>0, <1>9, <2>2 DEF Approve, RunOK
  <2> QED BY <1>10, <2>1, <2>2
<1>11. CASE CanExecute(r)
  <2>1. phase[r] = "requested" /\ MoreSteps(r)
    BY <1>0, <1>11 DEF CanExecute, RunOK
  <2>2. /\ Push(r, Failure) => Fits("acted")
        /\ UNCHANGED results => Fits("acting")
    BY <2>1 DEF Speaking, Working, Phases, Ended
  <2>3. "Rejected" \in EventTypes \ Told /\ {"acting", "acted"} \subseteq Phases
    BY DEF EventTypes, Told, Phases
  <2> HIDE DEF Fits
  <2>4. CASE Go(r, "acting", << >>) /\ UNCHANGED results
    BY <1>2, <2>2, <2>3, <2>4
  <2>5. CASE Go(r, "acted", <<"Rejected">>) /\ Push(r, Failure)
    BY <1>3, <2>2, <2>3, <2>5
  <2> QED BY <1>11, <2>4, <2>5 DEF CanExecute
<1>12. CASE Act(r)
  <2>1. PICK result \in [verdict : {"PASSED"}, evidence : BOOLEAN] \cup {Failure} :
          /\ Push(r, result)
          /\ Go(r, "acted", <<IF result.verdict = "PASSED" THEN "Succeeded" ELSE "Unsuccessful">>)
    BY <1>12 DEF Act
  <2>2. phase[r] = "acting" /\ MoreSteps(r)
    BY <1>0, <1>12 DEF Act, RunOK
  <2>3. CASE result = Failure
    <3>1. Go(r, "acted", <<"Unsuccessful">>) /\ Push(r, Failure)
      BY <2>1, <2>3 DEF Failure
    <3>2. Fits("acted")
      BY <2>2, <3>1 DEF Speaking, Working, Phases, Ended
    <3>3. "Unsuccessful" \in EventTypes \ Told /\ "acted" \in Phases
      BY DEF EventTypes, Told, Phases
    <3> HIDE DEF Fits
    <3> QED BY <1>3, <3>1, <3>2, <3>3
  <2>4. CASE result \in [verdict : {"PASSED"}, evidence : BOOLEAN]
    <3>1. result \in Result /\ result.verdict = "PASSED"
      BY <2>4 DEF Result
    <3> QED BY <2>1, <2>2, <3>1 DEF Acts
  <2> QED BY <2>1, <2>3, <2>4
<1>13. CASE Account(r) \/ Throw(r) \/ Bill(r) \/ Flush(r) \/ FlushFails(r)
  <2>1. CASE Account(r)
    <3>1. Go(r, "loop", << >>) /\ Fits("loop") /\ "loop" \in Phases
      BY <2>1 DEF Account, Speaking, Working, Phases, Ended
    <3> QED BY <1>2, <3>1
  <2>2. CASE Throw(r)
    <3>1. Go(r, "rejected", << >>) /\ Fits("rejected") /\ "rejected" \in Phases
      BY <2>2 DEF Throw, Speaking, Working, Phases, Ended
    <3> QED BY <1>2, <3>1
  <2>3. CASE Bill(r)
    <3>1. Go(r, "flushing", << >>) /\ Fits("flushing") /\ "flushing" \in Phases
      BY <2>3 DEF Bill, Speaking, Working, Phases, Ended
    <3> QED BY <1>2, <3>1
  <2>4. CASE Flush(r)
    <3>1. Go(r, "returned", << >>) /\ Fits("returned") /\ "returned" \in Phases
      BY <2>4 DEF Flush, Speaking, Working, Phases, Ended
    <3> QED BY <1>2, <3>1
  <2>5. CASE FlushFails(r)
    <3>1. Go(r, "rejected", << >>) /\ Fits("rejected") /\ "rejected" \in Phases
      BY <2>5 DEF FlushFails, Speaking, Working, Phases, Ended
    <3> QED BY <1>2, <3>1
  <2> QED BY <1>13, <2>1, <2>2, <2>3, <2>4, <2>5
<1>14. ASSUME NEW checks, Conclude(r, checks), phase[r] \in {"loop", "closing", "checking"},
              ~Job[r].ownChecks /\ VerdictOf(checks) = "PASSED"
                => Succeeded(r) = 1..Len(Job[r].plan)
       PROVE  Goal
  <2>1. UNCHANGED results
    BY <1>14 DEF Conclude
  <2>2. CASE VerdictOf(checks) = "PASSED"
    <3>1. Go(r, "billing", <<"VerificationCompleted", "TaskCompleted">>)
      BY <1>14, <2>2 DEF Conclude
    <3>2. Speaks(r, "TaskCompleted")
      BY <1>14, <2>1, <2>2, <3>1 DEF Speaks
    <3> QED BY <3>2
  <2>3. CASE VerdictOf(checks) # "PASSED"
    <3>1. Go(r, "billing", <<"VerificationCompleted", "TaskFailed">>)
      BY <1>14, <2>3 DEF Conclude
    <3>2. Speaks(r, "TaskFailed")
      BY <1>14, <2>1, <3>1 DEF Speaks
    <3> QED BY <3>2
  <2> QED BY <2>2, <2>3
<1>15. CASE Close(r)
  <2>1. phase[r] = "closing" \/ (phase[r] = "loop" /\ ~MoreSteps(r))
    BY <1>15 DEF Close
  <2>2. CASE Job[r].ownChecks
    <3>1. Go(r, "checking", << >>) /\ UNCHANGED results
      BY <1>15, <2>2 DEF Close
    <3>2. Fits("checking") /\ "checking" \in Phases
      BY <2>1, <2>2, <3>1 DEF Speaking, Working, Phases, Ended
    <3> QED BY <1>2, <3>1, <3>2
  <2>3. CASE ~Job[r].ownChecks
    <3>1. Conclude(r, results[r])
      BY <1>15, <2>3 DEF Close
    <3>2. VerdictOf(results[r]) = "PASSED" => Succeeded(r) = 1..Len(Job[r].plan)
      BY <1>0, <2>1, VerdictProven
    <3> HIDE DEF Goal
    <3> QED BY <1>14, <2>1, <3>1, <3>2
  <2> QED BY <2>2, <2>3
<1>16. CASE Check(r)
  <2>1. phase[r] = "checking" /\ Job[r].ownChecks
    BY <1>0, <1>16 DEF Check, RunOK
  <2>2. PICK checks \in Checks : Conclude(r, checks)
    BY <1>16 DEF Check
  <2> HIDE DEF Goal
  <2> QED BY <1>14, <2>1, <2>2
<1> QED
  BY <1>5, <1>6, <1>7, <1>8, <1>9, <1>10, <1>11, <1>12, <1>13, <1>15, <1>16 DEF Segment

\* A step that proves keeps the story: the step had not been proven.
LEMMA ActKeeps ==
  ASSUME ContractInv, NEW r \in Runs, Acts(r)
  PROVE  /\ StoryOK'
         /\ \A q \in Runs : Said(q)' = Said(q)
         /\ \A q \in Runs \ {r} : Succeeded(q)' = Succeeded(q)
         /\ Succeeded(r)' = Succeeded(r) \cup {StepOf(r)}
         /\ StepOf(r) \in 1..Len(Job[r].plan) \ Succeeded(r)
         /\ Said(r) = "nothing"
         /\ phase' = [phase EXCEPT ![r] = "acted"]
<1>1. LogsTypeOK /\ PhasesTypeOK /\ RunOK(r)
  BY DEF ContractInv, RunsTypeOK, StoryOK
<1>2. PICK result \in Result : result.verdict = "PASSED" /\ Push(r, result)
  BY DEF Acts
<1> DEFINE n == Len(results[r])
<1>3. /\ n \in Nat /\ Len(results'[r]) = n + 1
      /\ \A i \in 1..n : results'[r][i] = results[r][i]
      /\ \A q \in Runs \ {r} : results'[q] = results[q]
  BY <1>1, <1>2, Pushing
<1>4. phase[r] = "acting" /\ Go(r, "acted", <<"Succeeded">>)
  BY DEF Acts
<1>5. <<"Succeeded">> \in Seq(EventTypes)
  BY DEF EventTypes
<1>6. /\ \A q \in Runs \ {r} : Succeeded(q)' = Succeeded(q) /\ Said(q)' = Said(q)
      /\ Succeeded(r)' = Succeeded(r) \cup {StepOf(r)}
      /\ Said(r)' = Said(r)
  <2> DEFINE types == <<"Succeeded">>
  <2>1. (\E i \in DOMAIN types : types[i] = "Succeeded")
        /\ \A i \in DOMAIN types : types[i] \notin {"TaskCompleted", "TaskFailed"}
    OBVIOUS
  <2>2. types \in Seq(EventTypes) /\ Go(r, "acted", types)
    BY <1>4, <1>5
  <2> HIDE DEF types
  <2>3. /\ \A q \in Runs \ {r} : Succeeded(q)' = Succeeded(q) /\ Said(q)' = Said(q)
        /\ Succeeded(r)' =
             Succeeded(r) \cup {s \in {StepOf(r)} : \E i \in DOMAIN types : types[i] = "Succeeded"}
        /\ Said(r)' = Said(r)
    BY <1>1, <2>1, <2>2, Telling
  <2> QED BY <2>1, <2>3
<1>7. phase' = [phase EXCEPT ![r] = "acted"]
  BY <1>4 DEF Go
<1>8. Said(r) = "nothing" /\ n + 1 <= Len(Job[r].plan) /\ Succeeded(r) \subseteq 1..n
  BY <1>1, <1>4 DEF RunOK, Working, Ended, Phases, MoreSteps, StepOf
<1>9. StepOf(r) = n + 1 /\ n + 1 \in 1..Len(Job[r].plan) /\ n + 1 \notin 1..n
  BY <1>3, <1>8, PlansAssumption DEF StepOf
<1>10. ASSUME NEW q \in Runs \ {r} PROVE RunOK(q)'
  BY <1>1, <1>3, <1>6, <1>7, OthersOK DEF ContractInv, PhasesTypeOK
<1>11. RunOK(r)'
  <2>1. phase'[r] = "acted"
    BY <1>1, <1>7 DEF PhasesTypeOK
  <2>2. Succeeded(r)' \subseteq 1..(n + 1)
    BY <1>3, <1>6, <1>8, <1>9
  <2>3. \A i \in 1..(n + 1) : results'[r][i].verdict = "PASSED" => i \in Succeeded(r)'
    <3>1. \A i \in 1..(n + 1) : i \in 1..n \/ i = n + 1
      BY <1>3
    <3> QED BY <1>1, <1>3, <1>6, <1>9, <3>1 DEF RunOK
  <2> QED BY <1>3, <1>6, <1>8, <2>1, <2>2, <2>3 DEF RunOK, Speaking
<1> QED BY <1>6, <1>7, <1>8, <1>9, <1>10, <1>11 DEF StoryOK

\* A step that says how the task ended keeps the story.
LEMMA SpeechKeeps ==
  ASSUME ContractInv, NEW r \in Runs, NEW type \in {"TaskCompleted", "TaskFailed"}, Speaks(r, type)
  PROVE  /\ StoryOK'
         /\ \A q \in Runs : Succeeded(q)' = Succeeded(q)
         /\ \A q \in Runs \ {r} : Said(q)' = Said(q)
         /\ Said(r) = "nothing"
         /\ Said(r)' = IF type = "TaskCompleted" THEN "completed" ELSE "failed"
         /\ phase' = [phase EXCEPT ![r] = "billing"]
<1>1. LogsTypeOK /\ PhasesTypeOK /\ RunOK(r)
  BY DEF ContractInv, RunsTypeOK, StoryOK
<1> DEFINE types == <<"VerificationCompleted", type>>
<1>2. /\ types \in Seq(EventTypes)
      /\ ~\E i \in DOMAIN types : types[i] = "Succeeded"
      /\ \E i \in DOMAIN types : types[i] = type
      /\ type = "TaskFailed" => ~\E i \in DOMAIN types : types[i] = "TaskCompleted"
  BY DEF EventTypes
<1>3. phase[r] \in {"loop", "closing", "checking"} /\ UNCHANGED results /\ Go(r, "billing", types)
  BY DEF Speaks
<1> HIDE DEF types
<1>4. Said(r) = "nothing"
  BY <1>1, <1>3 DEF RunOK, Working, Ended, Phases
<1>5. /\ \A q \in Runs \ {r} : Succeeded(q)' = Succeeded(q) /\ Said(q)' = Said(q)
      /\ Succeeded(r)' =
           Succeeded(r) \cup {s \in {StepOf(r)} : \E i \in DOMAIN types : types[i] = "Succeeded"}
      /\ Said(r)' = IF type = "TaskCompleted" THEN "completed" ELSE "failed"
  BY <1>1, <1>2, <1>3, <1>4, Telling
<1>6. Succeeded(r)' = Succeeded(r)
  BY <1>2, <1>5
<1>7. phase' = [phase EXCEPT ![r] = "billing"]
  BY <1>3 DEF Go
<1>8. ASSUME NEW q \in Runs \ {r} PROVE RunOK(q)'
  BY <1>1, <1>3, <1>5, <1>7, OthersOK DEF ContractInv, PhasesTypeOK
<1>9. RunOK(r)'
  <2>1. phase'[r] = "billing" /\ results'[r] = results[r]
    BY <1>1, <1>3, <1>7 DEF PhasesTypeOK
  <2> QED BY <1>1, <1>5, <1>6, <2>1 DEF RunOK, Working
<1> QED BY <1>4, <1>5, <1>6, <1>7, <1>8, <1>9 DEF StoryOK

\* A crash loses runs and tells nothing.
LEMMA CrashKeeps ==
  ASSUME ContractInv, Crash
  PROVE  StoryOK' /\ \A q \in Runs : Succeeded(q)' = Succeeded(q) /\ Said(q)' = Said(q)
<1>1. UNCHANGED <<log, results>>
      /\ phase' = [r \in Runs |-> IF phase[r] \in {"idle", "returned", "rejected"}
                                  THEN phase[r] ELSE "lost"]
  BY DEF Crash
<1>2. \A q \in Runs : Succeeded(q)' = Succeeded(q) /\ Said(q)' = Said(q)
  BY <1>1 DEF Succeeded, Said
<1>3. ASSUME NEW q \in Runs PROVE RunOK(q)'
  <2>1. RunOK(q) /\ results'[q] = results[q]
    BY <1>1 DEF ContractInv, StoryOK
  <2>2. phase'[q] = phase[q] \/ phase'[q] = "lost"
    BY <1>1
  <2>3. CASE phase'[q] = phase[q]
    BY <1>2, <2>1, <2>3, OthersOK DEF ContractInv
  <2>4. CASE phase'[q] = "lost"
    BY <1>2, <2>1, <2>4 DEF RunOK, Speaking, Working, Ended
  <2> QED BY <2>2, <2>3, <2>4
<1> QED BY <1>2, <1>3 DEF StoryOK

\* What does not concern the runs tells nothing.
LEMMA StillKeeps ==
  ASSUME ContractInv, UNCHANGED <<phase, log, results>>
  PROVE  StoryOK' /\ \A q \in Runs : Succeeded(q)' = Succeeded(q) /\ Said(q)' = Said(q)
<1>1. \A q \in Runs : Succeeded(q)' = Succeeded(q) /\ Said(q)' = Said(q)
  BY DEF Succeeded, Said
<1>2. ASSUME NEW q \in Runs PROVE RunOK(q)'
  BY <1>1, OthersOK DEF ContractInv
<1> QED BY <1>1, <1>2 DEF StoryOK

\* At first nothing has been told.
LEMMA StoryStarts == RunnerInit => StoryOK
<1> SUFFICES ASSUME RunnerInit, NEW r \in Runs PROVE RunOK(r)
  BY DEF StoryOK
<1>1. results[r] = << >> /\ log[r] = << >> /\ phase[r] = "idle"
  BY DEF RunnerInit
<1>2. Len(results[r]) = 0 /\ Succeeded(r) = {} /\ Said(r) = "nothing"
  BY <1>1 DEF Succeeded, Said
<1>3. Len(Job[r].plan) \in Nat
  BY PlansAssumption
<1> QED BY <1>1, <1>2, <1>3 DEF RunOK, Speaking

\* Every step keeps the story.
LEMMA StorySteps ==
  ContractInv /\ [RunnerNext]_<<runnerVars, immuneVars>> => StoryOK'
<1> SUFFICES ASSUME ContractInv, [RunnerNext]_<<runnerVars, immuneVars>> PROVE StoryOK'
  OBVIOUS
<1>1. ASSUME NEW r \in Runs, Segment(r) PROVE StoryOK'
  BY <1>1, Kinds, QuietKeeps, ActKeeps, SpeechKeeps
<1>2. CASE Crash
  BY <1>2, CrashKeeps
<1>3. CASE UNCHANGED <<phase, log, results>>
  BY <1>3, StillKeeps
<1>4. (\E r \in Runs : Segment(r)) \/ Crash \/ UNCHANGED <<phase, log, results>>
  BY DEF RunnerNext, Deny, runnerVars
<1> QED BY <1>1, <1>2, <1>3, <1>4

-----------------------------------------------------------------------------
(* The refinement: what the contract's variables are in a state of the     *)
(* runner, and the step of the contract each step of the runner is.        *)

HasEnded(r) == phase[r] \in Ended

\* At first the contract's state is its initial one.
LEMMA ContractStarts == RunnerInit => Contract!ContractInit
<1> SUFFICES ASSUME RunnerInit PROVE Contract!ContractInit
  OBVIOUS
<1>1. \A r \in Runs : Said(r) = "nothing" /\ Succeeded(r) = {} /\ phase[r] = "idle"
  <2> TAKE r \in Runs
  <2>1. log[r] = << >> /\ phase[r] = "idle"
    BY DEF RunnerInit
  <2> QED BY <2>1 DEF Said, Succeeded
<1>2. /\ [r \in Runs |-> Said(r)] = [r \in Runs |-> "nothing"]
      /\ [r \in Runs |-> Succeeded(r)] = [r \in Runs |-> {}]
  BY <1>1
<1>3. [r \in Runs |-> phase[r] \in {"returned", "rejected", "lost"}] = [r \in Runs |-> FALSE]
  <2>1. \A r \in Runs : (phase[r] \in {"returned", "rejected", "lost"}) = FALSE
    BY <1>1
  <2> QED BY <2>1, Zenon
<1> QED BY <1>2, <1>3 DEF Contract!ContractInit

\* When nothing of what the contract sees changes, it stutters.
LEMMA ContractStutters ==
  ASSUME \A q \in Runs : Succeeded(q)' = Succeeded(q) /\ Said(q)' = Said(q),
         \A q \in Runs : HasEnded(q)' = HasEnded(q)
  PROVE  UNCHANGED Contract!contractVars
BY DEF Contract!contractVars, HasEnded, Ended

\* When runs end and nothing is said or proven, they return or abort.
LEMMA ContractEnds ==
  ASSUME \A q \in Runs : Succeeded(q)' = Succeeded(q) /\ Said(q)' = Said(q),
         NEW S \in SUBSET Runs,
         \A q \in Runs : (HasEnded(q)' <=> HasEnded(q) \/ q \in S) /\ (q \in S => ~HasEnded(q))
  PROVE  Contract!ContractNext
<1> DEFINE ended == [q \in Runs |-> phase[q] \in {"returned", "rejected", "lost"}]
<1>1. Contract!Abort(S)
  <2>1. \A q \in S : ~ended[q]
    BY DEF HasEnded, Ended
  <2>2. [q \in Runs |-> phase'[q] \in {"returned", "rejected", "lost"}]
          = [q \in Runs |-> ended[q] \/ q \in S]
    <3> DEFINE P(q) == phase'[q] \in {"returned", "rejected", "lost"}
               Q(q) == ended[q] \/ q \in S
    <3>1. \A q \in Runs : P(q) = Q(q)
      <4> TAKE q \in Runs
      <4>1. P(q) <=> HasEnded(q) \/ q \in S
        BY DEF HasEnded, Ended
      <4>2. ended[q] = HasEnded(q)
        BY DEF HasEnded, Ended
      <4> HIDE DEF P, ended
      <4>3. P(q) <=> Q(q)
        BY <4>1, <4>2
      <4>4. P(q) \in BOOLEAN /\ Q(q) \in BOOLEAN
        BY DEF P, Q
      <4> QED BY <4>3, <4>4
    <3> HIDE DEF P, Q
    <3>2. [q \in Runs |-> P(q)] = [q \in Runs |-> Q(q)]
      BY <3>1, Zenon
    <3> QED BY <3>2 DEF P, Q
  <2>3. [q \in Runs |-> Said(q)'] = [q \in Runs |-> Said(q)]
    OBVIOUS
  <2>4. [q \in Runs |-> Succeeded(q)'] = [q \in Runs |-> Succeeded(q)]
    OBVIOUS
  <2> QED BY <2>1, <2>2, <2>3, <2>4 DEF Contract!Abort
<1> QED BY <1>1 DEF Contract!ContractNext

\* A quiet step is a step of the contract, or none.
LEMMA QuietRefines ==
  ASSUME ContractInv, NEW r \in Runs, NEW next \in Phases, NEW types \in Seq(EventTypes),
         Quiet(r, next, types)
  PROVE  [Contract!ContractNext]_(Contract!contractVars)
<1>1. \A q \in Runs : Succeeded(q)' = Succeeded(q) /\ Said(q)' = Said(q)
  BY QuietKeeps
<1>2. phase' = [phase EXCEPT ![r] = next] /\ phase[r] \notin Ended /\ phase \in [Runs -> Phases]
  BY DEF Quiet, Go, ContractInv, RunsTypeOK, PhasesTypeOK
<1>3. phase'[r] = next /\ \A q \in Runs \ {r} : phase'[q] = phase[q]
  BY <1>2
<1>4. CASE next \notin Ended
  <2>1. \A q \in Runs : HasEnded(q)' = HasEnded(q)
    BY <1>2, <1>3, <1>4 DEF HasEnded
  <2> QED BY <1>1, <2>1, ContractStutters
<1>5. CASE next = "returned"
  <2>1. Said(r) # "nothing"
    BY <1>5 DEF Quiet, ContractInv, StoryOK, RunOK, Speaking
  <2>2. Contract!Return(r)
    BY <1>1, <1>2, <1>3, <1>5, <2>1 DEF Contract!Return, Ended
  <2> QED BY <2>2 DEF Contract!ContractNext
<1>6. CASE next \in Ended \ {"returned"}
  <2>1. \A q \in Runs : (HasEnded(q)' <=> HasEnded(q) \/ q \in {r}) /\ (q \in {r} => ~HasEnded(q))
    BY <1>2, <1>3, <1>6 DEF HasEnded
  <2> QED BY <1>1, <2>1, ContractEnds
<1> QED BY <1>4, <1>5, <1>6

\* A successful act proves one step of the plan.
LEMMA ActRefines ==
  ASSUME ContractInv, NEW r \in Runs, Acts(r)
  PROVE  Contract!ContractNext
<1>1. /\ \A q \in Runs : Said(q)' = Said(q)
      /\ \A q \in Runs \ {r} : Succeeded(q)' = Succeeded(q)
      /\ Succeeded(r)' = Succeeded(r) \cup {StepOf(r)}
      /\ StepOf(r) \in 1..Len(Job[r].plan) \ Succeeded(r)
      /\ Said(r) = "nothing"
      /\ phase' = [phase EXCEPT ![r] = "acted"]
  BY ActKeeps
<1>2. phase[r] = "acting" /\ phase \in [Runs -> Phases]
  BY DEF Acts, ContractInv, RunsTypeOK, PhasesTypeOK
<1>3. phase'[r] = "acted" /\ \A q \in Runs \ {r} : phase'[q] = phase[q]
  BY <1>1, <1>2
<1> DEFINE proven == [q \in Runs |-> Succeeded(q)]
<1>4. [q \in Runs |-> Succeeded(q)'] = [proven EXCEPT ![r] = @ \cup {StepOf(r)}]
  BY <1>1
<1>5. Contract!Prove(r)
  <2>1. [q \in Runs |-> Said(q)]' = [q \in Runs |-> Said(q)]
    BY <1>1
  <2>2. [q \in Runs |-> phase[q] \in {"returned", "rejected", "lost"}]'
          = [q \in Runs |-> phase[q] \in {"returned", "rejected", "lost"}]
    BY <1>2, <1>3
  <2>3. \E i \in 1..Len(Job[r].plan) \ Succeeded(r) :
          [q \in Runs |-> Succeeded(q)'] = [proven EXCEPT ![r] = @ \cup {i}]
    BY <1>1, <1>4
  <2> QED BY <1>1, <1>2, <2>1, <2>2, <2>3 DEF Contract!Prove
<1> QED BY <1>5 DEF Contract!ContractNext

\* A conclusion says how the task ended, and completed only of a proven plan.
LEMMA SpeechRefines ==
  ASSUME ContractInv, NEW r \in Runs, NEW type \in {"TaskCompleted", "TaskFailed"}, Speaks(r, type)
  PROVE  Contract!ContractNext
<1> DEFINE what == IF type = "TaskCompleted" THEN "completed" ELSE "failed"
<1>1. /\ \A q \in Runs : Succeeded(q)' = Succeeded(q)
      /\ \A q \in Runs \ {r} : Said(q)' = Said(q)
      /\ Said(r) = "nothing" /\ Said(r)' = what
      /\ phase' = [phase EXCEPT ![r] = "billing"]
  BY SpeechKeeps
<1>2. phase[r] \in {"loop", "closing", "checking"} /\ phase \in [Runs -> Phases]
  BY DEF Speaks, ContractInv, RunsTypeOK, PhasesTypeOK
<1>3. phase'[r] = "billing" /\ \A q \in Runs \ {r} : phase'[q] = phase[q]
  BY <1>1, <1>2
<1>4. what = "completed" /\ ~Job[r].ownChecks => Succeeded(r) = 1..Len(Job[r].plan)
  BY DEF Speaks
<1>5. what \in {"completed", "failed"}
  OBVIOUS
<1> HIDE DEF what
<1>6. Contract!Say(r, what)
  <2>1. [q \in Runs |-> Succeeded(q)]' = [q \in Runs |-> Succeeded(q)]
    BY <1>1
  <2>2. [q \in Runs |-> phase[q] \in {"returned", "rejected", "lost"}]'
          = [q \in Runs |-> phase[q] \in {"returned", "rejected", "lost"}]
    BY <1>2, <1>3
  <2>3. [q \in Runs |-> Said(q)'] = [[q \in Runs |-> Said(q)] EXCEPT ![r] = what]
    BY <1>1
  <2> QED BY <1>1, <1>2, <1>4, <2>1, <2>2, <2>3 DEF Contract!Say
<1> QED BY <1>5, <1>6 DEF Contract!ContractNext

\* A crash ends the runs under way together.
LEMMA CrashRefines ==
  ASSUME ContractInv, Crash
  PROVE  Contract!ContractNext
<1> DEFINE S == {q \in Runs : phase[q] \notin {"idle", "returned", "rejected", "lost"}}
<1>1. phase' = [q \in Runs |-> IF phase[q] \in {"idle", "returned", "rejected"}
                               THEN phase[q] ELSE "lost"]
  BY DEF Crash
<1>2. \A q \in Runs : (HasEnded(q)' <=> HasEnded(q) \/ q \in S) /\ (q \in S => ~HasEnded(q))
  BY <1>1 DEF HasEnded, Ended
<1>3. S \in SUBSET Runs
  OBVIOUS
<1> HIDE DEF S
<1> QED BY <1>2, <1>3, CrashKeeps, ContractEnds

\* Every step of the runner is a step of the contract, or none.
LEMMA ContractSteps ==
  ContractInv /\ [RunnerNext]_<<runnerVars, immuneVars>>
    => [Contract!ContractNext]_(Contract!contractVars)
<1> SUFFICES ASSUME ContractInv, [RunnerNext]_<<runnerVars, immuneVars>>
             PROVE  [Contract!ContractNext]_(Contract!contractVars)
  OBVIOUS
<1>1. ASSUME NEW r \in Runs, Segment(r) PROVE [Contract!ContractNext]_(Contract!contractVars)
  BY <1>1, Kinds, QuietRefines, ActRefines, SpeechRefines
<1>2. CASE Crash
  BY <1>2, CrashRefines
<1>3. CASE UNCHANGED <<phase, log, results>>
  <2>1. \A q \in Runs : HasEnded(q)' = HasEnded(q)
    BY <1>3 DEF HasEnded
  <2> QED BY <1>3, <2>1, StillKeeps, ContractStutters
<1>4. (\E r \in Runs : Segment(r)) \/ Crash \/ UNCHANGED <<phase, log, results>>
  BY DEF RunnerNext, Deny, runnerVars
<1> QED BY <1>1, <1>2, <1>3, <1>4

\* The runner implements its contract: whatever runs interleave, throw and die,
\* a task is said to be completed only after every step of its plan was
\* executed with success, once, and before the caller has its answer.
THEOREM RunnerKeepsContract == RunnerSpec => KeepsContract
<1>1. RunnerInit => QuotaInv /\ ContractInv
  BY QuotaStarts, RunsStart, StoryStarts DEF ContractInv
<1>2. QuotaInv /\ ContractInv /\ [RunnerNext]_<<runnerVars, immuneVars>> => (QuotaInv /\ ContractInv)'
  BY QuotaSteps, RunsSteps, StorySteps DEF ContractInv
<1> QED
  BY <1>1, <1>2, ContractStarts, ContractSteps, PTL
     DEF RunnerSpec, KeepsContract, Contract!ContractSpec

-----------------------------------------------------------------------------
\* The read models: what is folded from the ledger is what the runs have written.

\* The places of the events that a reducer counts under a name.
Under(reducer, events, name) ==
  {i \in 1..Len(events) : events[i].type \in DOMAIN reducer /\ reducer[events[i].type] = name}

\* A fold counts, under each name, the events that the reducer gives it.
LEMMA FoldCounts ==
  ASSUME NEW reducer, NEW events, Len(events) \in Nat, NEW name,
         \E t \in DOMAIN reducer : reducer[t] = name
  PROVE  Fold(reducer, events)[name] = Cardinality(Under(reducer, events, name))
<1> DEFINE n == Len(events)
           Names == {reducer[t] : t \in DOMAIN reducer}
           P(m) == {i \in 1..n : events[i].type \in DOMAIN reducer /\ reducer[events[i].type] = m}
           N(k, m) == Cardinality(1..k \cap P(m))
           f == [k \in 0..n |-> [m \in Names |-> N(k, m)]]
           state[k \in 0..n] == IF k = 0 THEN Zero(reducer) ELSE Reduce(reducer, state[k - 1], events[k])
<1>1. f[0] = Zero(reducer)
  <2>1. \A m \in Names : Cardinality(1..0 \cap P(m)) = 0
    <3>1. \A m \in Names : 1..0 \cap P(m) = {}
      OBVIOUS
    <3> QED BY ONLY <3>1, FS_EmptySet
  <2> HIDE DEF P, N
  <2>2. f[0] = [m \in Names |-> N(0, m)]
    OBVIOUS
  <2>3. f[0] = [m \in Names |-> 0]
    BY <2>1, <2>2 DEF N
  <2> QED BY <2>3 DEF Zero
<1>2. ASSUME NEW k \in 1..n PROVE f[k] = Reduce(reducer, f[k - 1], events[k])
  <2>0. n \in Nat /\ k \in Nat \ {0} /\ k \in 0..n /\ k - 1 \in 0..n /\ k - 1 \in Nat
    OBVIOUS
  <2>1. f[k] = [m \in Names |-> N(k, m)] /\ f[k - 1] = [m \in Names |-> N(k - 1, m)]
    <3> HIDE DEF N, n, Names
    <3> QED BY <2>0
  <2>2. ASSUME NEW m \in Names
        PROVE  /\ N(k, m) = N(k - 1, m) + (IF k \in P(m) THEN 1 ELSE 0)
               /\ N(k - 1, m) \in Nat
    <3> HIDE DEF P, n
    <3>1. IsFiniteSet(1..(k - 1)) /\ 1..(k - 1) \cap P(m) \in SUBSET (1..(k - 1))
      BY <2>0, FS_Interval
    <3>2. Cardinality(1..(k - 1) \cap P(m)) \in Nat
      BY ONLY <3>1, FS_Subset, FS_CardinalityType
    <3>3. k \in Nat \ {0}
      BY <2>0
    <3> QED BY ONLY <3>2, <3>3, OneMore
  <2>4. CASE events[k].type \in DOMAIN reducer
    <3> DEFINE m0 == reducer[events[k].type]
               g == [m \in Names |-> N(k - 1, m)]
    <3>1. m0 \in Names /\ k \in P(m0) /\ \A m \in Names : m # m0 => k \notin P(m)
      BY <2>4
    <3>2. Reduce(reducer, f[k - 1], events[k]) = [g EXCEPT ![m0] = @ + 1]
      <4> HIDE DEF f, N
      <4> QED BY <2>1, <2>4 DEF Reduce
    <3>3. [m \in Names |-> N(k, m)] = [g EXCEPT ![m0] = @ + 1]
      <4> HIDE DEF m0, P, N, n, Names
      <4>1. \A m \in Names : N(k, m) = IF m = m0 THEN N(k - 1, m) + 1 ELSE N(k - 1, m)
        BY <2>2, <3>1
      <4>2. [g EXCEPT ![m0] = @ + 1] = [m \in Names |-> IF m = m0 THEN N(k - 1, m) + 1 ELSE N(k - 1, m)]
        BY <3>1
      <4> HIDE DEF g
      <4> QED BY <4>1, <4>2
    <3> HIDE DEF f, N
    <3> QED BY <2>1, <3>2, <3>3
  <2>5. CASE events[k].type \notin DOMAIN reducer
    <3>1. \A m \in Names : k \notin P(m)
      BY <2>5
    <3>2. [m \in Names |-> N(k, m)] = [m \in Names |-> N(k - 1, m)]
      <4> HIDE DEF P, N, n, Names
      <4> QED BY <2>2, <3>1
    <3> HIDE DEF f, N
    <3> QED BY <2>1, <3>2, <2>5 DEF Reduce
  <2> QED BY <2>4, <2>5
<1>3. f = [k \in 0..n |-> IF k = 0 THEN Zero(reducer) ELSE Reduce(reducer, f[k - 1], events[k])]
  <2>1. \A k \in 0..n : f[k] = IF k = 0 THEN Zero(reducer) ELSE Reduce(reducer, f[k - 1], events[k])
    <3> HIDE DEF f
    <3> QED BY <1>1, <1>2
  <2>2. f = [k \in 0..n |-> f[k]]
    <3> HIDE DEF N, n
    <3> QED OBVIOUS
  <2> HIDE DEF f
  <2> QED BY <2>1, <2>2
<1>4. state = [k \in 0..n |-> IF k = 0 THEN Zero(reducer) ELSE Reduce(reducer, state[k - 1], events[k])]
  <2> HIDE DEF f
  <2> QED BY <1>3, Zenon
<1>5. Fold(reducer, events) = state[n]
  BY DEF Fold
<1>6. \A k \in 0..n : state[k] = f[k]
  <2> DEFINE S == {k \in 0..n : state[k] = f[k]}
  <2> HIDE DEF n, state, f
  <2>0. \A k \in 0..n : state[k] = IF k = 0 THEN Zero(reducer) ELSE Reduce(reducer, state[k - 1], events[k])
    BY <1>4
  <2>a. n \in Nat
    BY DEF n
  <2>1. 0 \in S
    BY <2>a, <1>1, <2>0
  <2>2. ASSUME NEW k \in 0..(n - 1), k \in S PROVE k + 1 \in S
    <3>0. k + 1 \in 1..n /\ k + 1 \in 0..n /\ (k + 1) - 1 = k /\ k + 1 # 0
      BY <2>a
    <3>1. state[k + 1] = Reduce(reducer, state[k], events[k + 1])
      BY <2>0, <3>0
    <3>2. f[k + 1] = Reduce(reducer, f[k], events[k + 1])
      BY <1>2, <3>0
    <3> QED BY <3>0, <3>1, <3>2, <2>2
  <2>3. 0..n \subseteq S
    <3> HIDE DEF S
    <3> QED BY <2>1, <2>2, <2>a, Climb
  <2> QED BY <2>3
<1>7. Fold(reducer, events)[name] = Cardinality(1..n \cap P(name))
  <2>1. Fold(reducer, events) = f[n]
    <3> HIDE DEF state, f
    <3> QED BY <1>5, <1>6
  <2>2. name \in Names /\ n \in 0..n
    OBVIOUS
  <2>3. f[n] = [m \in Names |-> N(n, m)]
    <3> HIDE DEF N, n
    <3> QED BY <2>2
  <2> HIDE DEF P, n, f, Names
  <2> QED BY <2>1, <2>2, <2>3
<1>8. 1..n \cap P(name) = Under(reducer, events, name)
  BY DEF Under
<1> QED BY <1>7, <1>8

\* The places of a sequence at which there is an event of one of these types.
Places(events, T) == {i \in 1..Len(events) : events[i].type \in T}

\* The events of these types that the runs have written, one pair for each.
Written(events, T) ==
  {p \in Runs \X Nat : p[2] \in 1..Len(events[p[1]]) /\ events[p[1]][p[2]].type \in T}

\* They are finitely many.
LEMMA PlacesFinite ==
  ASSUME NEW events, Len(events) \in Nat, NEW T
  PROVE  IsFiniteSet(Places(events, T)) /\ Cardinality(Places(events, T)) \in Nat
<1>1. IsFiniteSet(1..Len(events)) /\ Places(events, T) \in SUBSET (1..Len(events))
  BY FS_Interval DEF Places
<1> QED BY ONLY <1>1, FS_Subset, FS_CardinalityType

\* A sequence continued by another has the places of both.
LEMMA PlacesContinued ==
  ASSUME NEW S, NEW a \in Seq(S), NEW b \in Seq(S), NEW T
  PROVE  Cardinality(Places(a \o b, T))
           = Cardinality(Places(a, T)) + Cardinality(Places(b, T))
<1> DEFINE n == Len(a)
           m == Len(b)
           c == a \o b
           B == Places(b, T)
           Later == {j \in (n + 1)..(n + m) : c[j].type \in T}
<1>1. /\ n \in Nat /\ m \in Nat /\ Len(c) = n + m
      /\ \A i \in 1..n : c[i] = a[i]
      /\ \A i \in 1..m : c[n + i] = b[i]
  OBVIOUS
<1> HIDE DEF n, m, c
<1>2. Places(c, T) = Places(a, T) \cup Later /\ Places(a, T) \cap Later = {}
  <2>1. \A i : i \in 1..(n + m) <=> i \in 1..n \/ i \in (n + 1)..(n + m)
    BY <1>1
  <2>2. \A i : ~(i \in 1..n /\ i \in (n + 1)..(n + m))
    BY <1>1
  <2>3. Places(c, T) = {i \in 1..(n + m) : c[i].type \in T}
    BY <1>1 DEF Places
  <2>4. Places(a, T) = {i \in 1..n : c[i].type \in T}
    BY <1>1 DEF Places, n
  <2> QED BY <2>1, <2>2, <2>3, <2>4
<1>3. IsFiniteSet(B) /\ IsFiniteSet(Places(a, T))
  BY <1>1, PlacesFinite DEF n, m
<1>4. IsFiniteSet(Later) /\ Cardinality(Later) = Cardinality(B)
  <2> DEFINE f == [i \in B |-> n + i]
  <2>1. B = {i \in 1..m : c[n + i].type \in T}
    BY <1>1 DEF Places, m
  <2>2. B \subseteq Nat
    BY <2>1
  <2> HIDE DEF B
  <2>3. f \in [B -> Later]
    <3>1. \A i \in B : n + i \in Later
      BY <1>1, <2>1
    <3> QED BY <3>1
  <2>4. \A i, j \in B : f[i] = f[j] => i = j
    <3>1. ASSUME NEW i \in B, NEW j \in B, f[i] = f[j] PROVE i = j
      <4>1. n + i = n + j /\ i \in Nat /\ j \in Nat /\ n \in Nat
        BY <2>2, <1>1, <3>1
      <4> QED BY ONLY <4>1
    <3> QED BY <3>1
  <2>5. ASSUME NEW j \in Later PROVE \E i \in B : f[i] = j
    <3>1. j - n \in 1..m /\ n + (j - n) = j
      BY <1>1
    <3>2. j - n \in B /\ f[j - n] = j
      BY <3>1, <2>1
    <3> QED BY <3>2
  <2> HIDE DEF f, Later
  <2> QED BY ONLY <1>3, <2>3, <2>4, <2>5, SameSize
<1> HIDE DEF B, Later
<1>5. Cardinality(Places(c, T)) = Cardinality(Places(a, T)) + Cardinality(Later)
  BY ONLY <1>2, <1>3, <1>4, Apart
<1> QED BY <1>4, <1>5 DEF B, c

\* The order the runs are taken in has each of them, once.
LEMMA RunOrder ==
  ASSUME NEW order, order = SetToSeq(Runs)
  PROVE  /\ Cardinality(Runs) \in Nat /\ Len(order) = Cardinality(Runs)
         /\ order \in [1..Cardinality(Runs) -> Runs]
         /\ \A i, j \in 1..Cardinality(Runs) : order[i] = order[j] => i = j
         /\ \A r \in Runs : \E i \in 1..Cardinality(Runs) : order[i] = r
  BY InSequence, RunnerAssumption

\* The ledger has the events of every run.
LEMMA LedgerCounts ==
  ASSUME NEW S, NEW E \in [Runs -> Seq(S)], NEW T
  PROVE  /\ Ledger(E) \in Seq(S)
         /\ IsFiniteSet(Written(E, T))
         /\ Cardinality(Places(Ledger(E), T)) = Cardinality(Written(E, T))
<1> DEFINE order == SetToSeq(Runs)
           n == Len(order)
           first[k \in 0..n] == IF k = 0 THEN << >> ELSE first[k - 1] \o E[order[k]]
           X == Seq(S)
           step == [k \in 1..n |-> [x \in X |-> x \o E[order[k]]]]
           By(k) == {p \in Written(E, T) : \E i \in 1..k : order[i] = p[1]}
           Good(k) == /\ first[k] \in X
                      /\ IsFiniteSet(By(k))
                      /\ Cardinality(Places(first[k], T)) = Cardinality(By(k))
<1>1. /\ n \in Nat /\ order \in [1..n -> Runs]
      /\ \A i, j \in 1..n : order[i] = order[j] => i = j
      /\ \A r \in Runs : \E i \in 1..n : order[i] = r
  <2> HIDE DEF order
  <2> QED BY RunOrder DEF order
<1>2. Ledger(E) = first[n]
  BY DEF Ledger
<1> HIDE DEF order, n
<1>3. \A k \in 1..n : E[order[k]] \in X
  BY <1>1
<1>4. step \in [1..n -> [X -> X]] /\ << >> \in X
  <2>1. \A k \in 1..n : \A x \in X : x \o E[order[k]] \in X
    <3>1. ASSUME NEW x \in X, NEW y \in X PROVE x \o y \in X
      OBVIOUS
    <3> HIDE DEF X
    <3> QED BY <3>1, <1>3
  <2> QED BY <2>1
<1>5. \A k \in 0..n : first[k] = IF k = 0 THEN << >> ELSE first[k - 1] \o E[order[k]]
  <2>1. PICK f : Recursive(f, n, X, << >>, step)
    <3> HIDE DEF step, X
    <3> QED BY <1>1, <1>4, Recursion
  <2>2. f \in [0..n -> X] /\ f[0] = << >> /\ \A k \in 1..n : f[k] = step[k][f[k - 1]]
    <3> HIDE DEF step, X
    <3> QED BY <2>1 DEF Recursive
  <2>3. ASSUME NEW k \in 1..n PROVE f[k] = f[k - 1] \o E[order[k]]
    <3>1. f[k - 1] \in X
      <4> HIDE DEF X, step
      <4> QED BY <1>1, <2>2
    <3>2. step[k][f[k - 1]] = f[k - 1] \o E[order[k]]
      <4> HIDE DEF X
      <4> QED BY <3>1
    <3> HIDE DEF step
    <3> QED BY <2>2, <3>2
  <2>4. f = [k \in 0..n |-> IF k = 0 THEN << >> ELSE f[k - 1] \o E[order[k]]]
    <3> HIDE DEF X, step
    <3>1. \A k \in 0..n : f[k] = IF k = 0 THEN << >> ELSE f[k - 1] \o E[order[k]]
      <4>1. \A k \in 0..n : k # 0 => k \in 1..n
        BY <1>1
      <4> QED BY <2>2, <2>3, <4>1
    <3>2. f = [k \in 0..n |-> f[k]]
      BY <2>2
    <3> QED BY <3>1, <3>2
  <2>5. first = [k \in 0..n |-> IF k = 0 THEN << >> ELSE first[k - 1] \o E[order[k]]]
    BY <2>4, Zenon
  <2> HIDE DEF first
  <2> QED BY <2>5
<1> HIDE DEF first, step
<1>6. Good(0)
  <2>1. first[0] = << >>
    BY <1>1, <1>5
  <2>2. Places(<< >>, T) = {} /\ By(0) = {}
    BY DEF Places
  <2> QED BY <1>4, <2>1, <2>2, FS_EmptySet
<1>7. ASSUME NEW k \in 0..(n - 1), Good(k) PROVE Good(k + 1)
  <2> DEFINE r == order[k + 1]
             New == {p \in Written(E, T) : p[1] = r}
  <2>1. k + 1 \in 1..n /\ r \in Runs /\ E[r] \in X /\ k \in Nat
    BY <1>1
  <2>2. first[k + 1] = first[k] \o E[r]
    <3>1. k + 1 \in 0..n /\ k + 1 # 0 /\ (k + 1) - 1 = k
      BY <1>1, <2>1
    <3>2. first[k + 1] = IF k + 1 = 0 THEN << >> ELSE first[(k + 1) - 1] \o E[order[k + 1]]
      BY <1>5, <3>1
    <3> QED BY <3>1, <3>2
  <2>3. first[k + 1] \in X
    BY <1>7, <2>1, <2>2
  <2>4. Cardinality(Places(first[k + 1], T)) = Cardinality(Places(first[k], T)) + Cardinality(Places(E[r], T))
    <3>1. first[k] \in Seq(S) /\ E[r] \in Seq(S)
      BY <1>7, <2>1
    <3> HIDE DEF r
    <3> QED BY <2>2, <3>1, PlacesContinued
  <2>5. By(k + 1) = By(k) \cup New /\ By(k) \cap New = {}
    <3>1. \A i : i \in 1..(k + 1) <=> i \in 1..k \/ i = k + 1
      BY <2>1
    <3>2. \A i \in 1..k : order[i] # r
      BY <1>1, <2>1
    <3> QED BY <3>1, <3>2
  <2>6. IsFiniteSet(New) /\ Cardinality(New) = Cardinality(Places(E[r], T))
    <3> DEFINE P == Places(E[r], T)
               f == [i \in P |-> <<r, i>>]
    <3>1. IsFiniteSet(P)
      BY <2>1, PlacesFinite
    <3>2. P = {i \in 1..Len(E[r]) : E[r][i].type \in T} /\ P \subseteq Nat
      BY DEF Places
    <3>3. New = {p \in {r} \X Nat : p[2] \in P}
      BY <2>1, <3>2 DEF Written
    <3> HIDE DEF P, New
    <3>4. f \in [P -> New]
      BY <3>2, <3>3
    <3>5. \A i, j \in P : f[i] = f[j] => i = j
      OBVIOUS
    <3>6. \A p \in New : \E i \in P : f[i] = p
      BY <3>3
    <3> HIDE DEF f
    <3>7. IsFiniteSet(New) /\ Cardinality(New) = Cardinality(P)
      BY ONLY <3>1, <3>4, <3>5, <3>6, SameSize
    <3> QED BY <3>7 DEF P
  <2> HIDE DEF r, New, By
  <2>7. IsFiniteSet(By(k)) /\ Cardinality(Places(first[k], T)) = Cardinality(By(k))
    BY <1>7
  <2>8. IsFiniteSet(By(k + 1)) /\ Cardinality(By(k + 1)) = Cardinality(By(k)) + Cardinality(New)
    BY ONLY <2>5, <2>6, <2>7, Apart
  <2> QED BY <2>3, <2>4, <2>6, <2>7, <2>8
<1>8. Good(n)
  <2> DEFINE G == {k \in 0..n : Good(k)}
  <2>1. 0 \in G
    <3> HIDE DEF Good
    <3> QED BY <1>1, <1>6
  <2>2. \A k \in 0..(n - 1) : k \in G => k + 1 \in G
    <3> HIDE DEF Good
    <3>1. \A k \in 0..(n - 1) : k + 1 \in 0..n
      BY <1>1
    <3> QED BY <1>7, <3>1
  <2>3. 0..n \subseteq G
    <3> HIDE DEF G
    <3> QED BY <1>1, <2>1, <2>2, Climb
  <2>4. n \in 0..n
    BY <1>1
  <2> HIDE DEF Good
  <2> QED BY <2>3, <2>4
<1>9. By(n) = Written(E, T)
  BY <1>1 DEF Written
<1> QED BY <1>2, <1>8, <1>9

\* How many events of these types a step writes.
Tally(types, T) == Cardinality({i \in 1..Len(types) : types[i] \in T})

\* One more.
LEMMA TallyMore ==
  ASSUME NEW types \in Seq(EventTypes), NEW t \in EventTypes, NEW T
  PROVE  /\ Tally(types, T) \in Nat
         /\ t \in T => Tally(types \o <<t>>, T) = Tally(types, T) + 1
         /\ t \notin T => Tally(types \o <<t>>, T) = Tally(types, T)
<1> DEFINE n == Len(types)
           c == types \o <<t>>
           P == {i \in 1..(n + 1) : c[i] \in T}
<1>1. n \in Nat /\ Len(c) = n + 1 /\ c[n + 1] = t /\ \A i \in 1..n : c[i] = types[i]
  OBVIOUS
<1> HIDE DEF c, n
<1>2. \A i \in 1..n : i \in 1..(n + 1)
  BY <1>1
<1>3. 1..n \cap P = {i \in 1..n : types[i] \in T}
  BY <1>1, <1>2
<1>4. 1..(n + 1) \cap P = {i \in 1..Len(c) : c[i] \in T}
  BY <1>1
<1>5. n + 1 \in P <=> t \in T
  BY <1>1
<1>6. n + 1 \in Nat \ {0} /\ (n + 1) - 1 = n
  BY <1>1
<1> HIDE DEF P
<1>7. /\ Cardinality(1..(n + 1) \cap P) \in Nat
      /\ Cardinality(1..(n + 1) \cap P)
           = Cardinality(1..((n + 1) - 1) \cap P) + (IF n + 1 \in P THEN 1 ELSE 0)
  BY ONLY <1>6, OneMore
<1>8. IsFiniteSet(1..n) /\ 1..n \cap P \in SUBSET (1..n)
  BY <1>1, FS_Interval
<1>9. Cardinality(1..n \cap P) \in Nat
  BY ONLY <1>8, FS_Subset, FS_CardinalityType
<1>10. /\ n + 1 \in P => Cardinality(1..(n + 1) \cap P) = Cardinality(1..n \cap P) + 1
       /\ n + 1 \notin P => Cardinality(1..(n + 1) \cap P) = Cardinality(1..n \cap P)
  <2>1. 1..((n + 1) - 1) = 1..n
    BY <1>6
  <2>2. Cardinality(1..(n + 1) \cap P)
          = Cardinality(1..n \cap P) + (IF n + 1 \in P THEN 1 ELSE 0)
    BY <1>7, <2>1
  <2>3. CASE n + 1 \in P
    BY <2>2, <2>3
  <2>4. CASE n + 1 \notin P
    <3>1. Cardinality(1..(n + 1) \cap P) = Cardinality(1..n \cap P) + 0
      BY <2>2, <2>4
    <3> QED BY <1>9, <2>4, <3>1
  <2> QED BY <2>3, <2>4
<1> QED BY <1>3, <1>4, <1>5, <1>9, <1>10 DEF Tally, c, n

\* What short lists of types come to.
LEMMA Tallies ==
  ASSUME NEW R \in EventTypes, NEW S \in EventTypes, NEW U \in EventTypes, NEW T
  PROVE  /\ Tally(<< >>, T) = 0
         /\ U \notin T => Tally(<<U>>, T) = 0
         /\ U \in T => Tally(<<U>>, T) = 1
         /\ S \notin T /\ U \notin T => Tally(<<S, U>>, T) = 0
         /\ S \notin T /\ U \in T => Tally(<<S, U>>, T) = 1
         /\ S \in T /\ U \notin T => Tally(<<S, U>>, T) = 1
         /\ R \notin T /\ S \notin T /\ U \notin T => Tally(<<R, S, U>>, T) = 0
         /\ R \in T /\ S \notin T /\ U \notin T => Tally(<<R, S, U>>, T) = 1
         /\ R \notin T /\ S \notin T /\ U \in T => Tally(<<R, S, U>>, T) = 1
<1> DEFINE In(types) == {i \in 1..Len(types) : types[i] \in T}
<1>1. In(<< >>) = {}
  OBVIOUS
<1>2. U \notin T => In(<<U>>) = {}
  OBVIOUS
<1>3. U \in T => In(<<U>>) = {1}
  OBVIOUS
<1>4. DOMAIN <<S, U>> = {1, 2} /\ 1..Len(<<S, U>>) = {1, 2} /\ <<S, U>>[1] = S /\ <<S, U>>[2] = U
  OBVIOUS
<1>5. /\ S \notin T /\ U \notin T => In(<<S, U>>) = {}
      /\ S \notin T /\ U \in T => In(<<S, U>>) = {2}
      /\ S \in T /\ U \notin T => In(<<S, U>>) = {1}
  BY ONLY <1>4
<1>6. /\ 1..Len(<<R, S, U>>) = {1, 2, 3}
      /\ <<R, S, U>>[1] = R /\ <<R, S, U>>[2] = S /\ <<R, S, U>>[3] = U
  OBVIOUS
<1>7. /\ R \notin T /\ S \notin T /\ U \notin T => In(<<R, S, U>>) = {}
      /\ R \in T /\ S \notin T /\ U \notin T => In(<<R, S, U>>) = {1}
      /\ R \notin T /\ S \notin T /\ U \in T => In(<<R, S, U>>) = {3}
  BY ONLY <1>6
<1>8. \A types : In(types) = {} => Tally(types, T) = 0
  BY FS_EmptySet, Zenon DEF Tally
<1>9. \A types : \A i : In(types) = {i} => Tally(types, T) = 1
  <2>1. \A i : Cardinality({i}) = 1
    BY FS_Singleton
  <2> QED BY <2>1, Zenon DEF Tally
<1> HIDE DEF In
<1>10. /\ Tally(<< >>, T) = 0
       /\ U \notin T => Tally(<<U>>, T) = 0
       /\ U \in T => Tally(<<U>>, T) = 1
  BY <1>1, <1>2, <1>3, <1>8, <1>9, Zenon
<1>11. /\ S \notin T /\ U \notin T => Tally(<<S, U>>, T) = 0
       /\ S \notin T /\ U \in T => Tally(<<S, U>>, T) = 1
       /\ S \in T /\ U \notin T => Tally(<<S, U>>, T) = 1
  BY <1>5, <1>8, <1>9, Zenon
<1>12. /\ R \notin T /\ S \notin T /\ U \notin T => Tally(<<R, S, U>>, T) = 0
       /\ R \in T /\ S \notin T /\ U \notin T => Tally(<<R, S, U>>, T) = 1
       /\ R \notin T /\ S \notin T /\ U \in T => Tally(<<R, S, U>>, T) = 1
  BY <1>7, <1>8, <1>9, Zenon
<1> QED BY <1>10, <1>11, <1>12, Zenon

\* The runs' events of these types grow by those that one run writes.
LEMMA WrittenGrows ==
  ASSUME LogsTypeOK, NEW r \in Runs, NEW next, NEW types \in Seq(EventTypes), Go(r, next, types),
         NEW T
  PROVE  /\ Cardinality(Written(log, T)) \in Nat /\ Tally(types, T) \in Nat
         /\ Cardinality(Written(log', T)) = Cardinality(Written(log, T)) + Tally(types, T)
<1> DEFINE n == Len(log[r])
           m == Len(types)
           P == {i \in 1..m : types[i] \in T}
           New == {p \in {r} \X Nat : p[2] \in (n + 1)..(n + m) /\ log'[r][p[2]].type \in T}
           W == Written(log, T)
<1>1. /\ log' \in [Runs -> Seq(Event)]
      /\ \A q \in Runs \ {r} : log'[q] = log[q]
      /\ n \in Nat /\ Len(log'[r]) = n + m
      /\ \A i \in 1..n : log'[r][i] = log[r][i]
      /\ \A i \in 1..m : log'[r][n + i] = [type |-> types[i], step |-> StepOf(r)]
  BY Appending
<1>2. m \in Nat
  OBVIOUS
<1>3. IsFiniteSet(W)
  BY LedgerCounts DEF LogsTypeOK
<1>4. IsFiniteSet(P)
  <2>1. IsFiniteSet(1..m) /\ P \in SUBSET (1..m)
    BY <1>2, FS_Interval
  <2> QED BY ONLY <2>1, FS_Subset
<1> HIDE DEF m
<1>5. Written(log', T) = W \cup New /\ W \cap New = {}
  <2>1. \A i : i \in 1..(n + m) <=> i \in 1..n \/ i \in (n + 1)..(n + m)
    BY <1>1, <1>2
  <2>2. \A i : ~(i \in 1..n /\ i \in (n + 1)..(n + m))
    BY <1>1, <1>2
  <2>3. W \cap New = {}
    <3> HIDE DEF n
    <3> QED BY <2>2 DEF Written, n
  <2>4. ASSUME NEW q \in Runs, NEW i \in Nat
        PROVE  <<q, i>> \in Written(log', T) <=> <<q, i>> \in W \cup New
    <3>1. CASE q # r
      <4>1. log'[q] = log[q]
        BY <1>1, <3>1
      <4> QED BY <3>1, <4>1 DEF Written
    <3>2. CASE q = r
      <4>1. <<r, i>> \in Written(log', T) <=> i \in 1..(n + m) /\ log'[r][i].type \in T
        BY <1>1, <3>2 DEF Written
      <4>2. <<r, i>> \in W <=> i \in 1..n /\ log[r][i].type \in T
        BY <3>2 DEF Written
      <4>3. <<r, i>> \in New <=> i \in (n + 1)..(n + m) /\ log'[r][i].type \in T
        BY <3>2
      <4> HIDE DEF n, W, New
      <4> QED BY <1>1, <2>1, <2>2, <3>2, <4>1, <4>2, <4>3
    <3> QED BY <3>1, <3>2
  <2>5. Written(log', T) \subseteq Runs \X Nat /\ W \cup New \subseteq Runs \X Nat
    BY DEF Written
  <2>6. \A p \in Runs \X Nat : p \in Written(log', T) <=> p \in W \cup New
    <3>1. \A p \in Runs \X Nat : p = <<p[1], p[2]>> /\ p[1] \in Runs /\ p[2] \in Nat
      OBVIOUS
    <3> HIDE DEF W, New
    <3> QED BY <2>4, <3>1
  <2> HIDE DEF W, New
  <2> QED BY <2>3, <2>5, <2>6
<1>6. IsFiniteSet(New) /\ Cardinality(New) = Cardinality(P)
  <2> DEFINE f == [i \in P |-> <<r, n + i>>]
  <2>0. P \subseteq Nat
    BY <1>2
  <2>1. f \in [P -> New]
    <3>1. ASSUME NEW i \in P PROVE <<r, n + i>> \in New
      <4>1. i \in 1..m /\ types[i] \in T /\ n + i \in (n + 1)..(n + m) /\ n + i \in Nat
        BY <1>1, <1>2
      <4>2. log'[r][n + i].type = types[i]
        <5>1. log'[r][n + i] = [type |-> types[i], step |-> StepOf(r)]
          BY <1>1, <4>1
        <5> HIDE DEF n
        <5> QED BY <5>1
      <4> DEFINE j == n + i
      <4>3. j \in (n + 1)..(n + m) /\ j \in Nat /\ log'[r][j].type \in T
        BY <4>1, <4>2
      <4> HIDE DEF j
      <4> QED BY <4>3 DEF j
    <3> HIDE DEF P, New
    <3> QED BY <3>1
  <2>2. \A i, j \in P : f[i] = f[j] => i = j
    <3>1. ASSUME NEW i \in P, NEW j \in P, f[i] = f[j] PROVE i = j
      <4> HIDE DEF P, n
      <4>1. n + i = n + j
        BY <3>1
      <4>2. i \in Nat /\ j \in Nat /\ n \in Nat
        BY <1>1, <2>0
      <4> QED BY ONLY <4>1, <4>2
    <3> QED BY <3>1
  <2>3. ASSUME NEW p \in New PROVE \E i \in P : f[i] = p
    <3>1. p = <<r, p[2]>> /\ p[2] \in (n + 1)..(n + m) /\ log'[r][p[2]].type \in T
      OBVIOUS
    <3> DEFINE i == p[2] - n
    <3>2. i \in 1..m /\ p[2] = n + i
      BY <1>1, <1>2, <3>1
    <3>3. log'[r][p[2]].type = types[i]
      <4> HIDE DEF i
      <4>1. log'[r][n + i] = [type |-> types[i], step |-> StepOf(r)]
        BY <1>1, <3>2
      <4> HIDE DEF n
      <4> QED BY <3>2, <4>1
    <3>4. i \in P
      BY <3>1, <3>2, <3>3
    <3>5. f[i] = p
      <4> HIDE DEF i, P
      <4> QED BY <3>1, <3>2, <3>4
    <3> HIDE DEF i, f
    <3> QED BY <3>4, <3>5
  <2> HIDE DEF f, New, P
  <2> QED BY ONLY <1>4, <2>1, <2>2, <2>3, SameSize
<1>7. Cardinality(P) = Tally(types, T)
  BY DEF Tally, m
<1> HIDE DEF P, New, W
<1>8. Cardinality(Written(log', T)) = Cardinality(W) + Cardinality(New)
  BY ONLY <1>3, <1>5, <1>6, Apart
<1>9. Cardinality(W) \in Nat /\ Cardinality(P) \in Nat
  BY ONLY <1>3, <1>4, FS_CardinalityType
<1> QED BY <1>6, <1>7, <1>8, <1>9 DEF W

-----------------------------------------------------------------------------
\* The meter against the ledger.
\* The types that tell what came of a call, and those the meter ignores.
Outcomes == {"Succeeded", "Unsuccessful", "Rejected", "Denied"}
Unmetered == EventTypes \ ({"RunCreated", "PlanGenerated"} \cup Outcomes)

\* A call that has ended and is still to be metered.
Unpaid(p) == IF p = "acted" THEN 1 ELSE 0

\* A step of a run adds as much to the meter as its events to the ledger.
Metering(r, next, types) ==
  /\ Go(r, next, types)
  /\ usage'.runs = usage.runs + Tally(types, {"RunCreated"})
  /\ usage'.model_calls = usage.model_calls + Tally(types, {"PlanGenerated"})
  /\ usage'.tool_calls + Unpaid(next)
       = usage.tool_calls + Unpaid(phase[r]) + Tally(types, Outcomes)

\* Each part of a run meters what it writes.
LEMMA SegmentMeters ==
  ASSUME MeterTypeOK, NEW r \in Runs, Segment(r)
  PROVE  \E next \in Phases, types \in Seq(EventTypes) : Metering(r, next, types)
<1> DEFINE Goal == \E next \in Phases, types \in Seq(EventTypes) : Metering(r, next, types)
<1> SUFFICES Goal
  OBVIOUS
<1>0. usage.runs \in Nat /\ usage.model_calls \in Nat /\ usage.tool_calls \in Nat
  BY DEF MeterTypeOK, EmptyUsage
<1>0a. ASSUME NEW before \in {<< >>, <<"ApprovalGranted">>}
       PROVE  /\ before \in Seq(EventTypes)
              /\ \A S : S \in {{"RunCreated"}, {"PlanGenerated"}, Outcomes} => Tally(before, S) = 0
  <2>1. /\ "ApprovalGranted" \in EventTypes /\ "ApprovalGranted" \notin {"RunCreated"}
        /\ "ApprovalGranted" \notin {"PlanGenerated"} /\ "ApprovalGranted" \notin Outcomes
    BY DEF EventTypes, Outcomes
  <2>2. << >> \in Seq(EventTypes) /\ <<"ApprovalGranted">> \in Seq(EventTypes)
    BY <2>1
  <2>3. \A S : Tally(<< >>, S) = 0
    BY ONLY <2>1, Tallies
  <2>4. \A S : "ApprovalGranted" \notin S => Tally(<<"ApprovalGranted">>, S) = 0
    BY ONLY <2>1, Tallies
  <2> QED BY <2>1, <2>2, <2>3, <2>4
<1>1. ASSUME NEW next \in Phases, NEW types \in Seq(EventTypes), Metering(r, next, types) PROVE Goal
  BY <1>1
<1> HIDE DEF Goal
\* Nothing metered.
<1>2. ASSUME NEW next \in Phases \ {"acted"}, NEW types \in Seq(EventTypes), Go(r, next, types),
             UNCHANGED usage, phase[r] # "acted",
             Tally(types, {"RunCreated"}) = 0, Tally(types, {"PlanGenerated"}) = 0,
             Tally(types, Outcomes) = 0
      PROVE  Goal
  <2>1. Unpaid(next) = 0 /\ Unpaid(phase[r]) = 0
    BY <1>2 DEF Unpaid
  <2>2. Metering(r, next, types)
    BY <1>0, <1>2, <2>1 DEF Metering
  <2> QED BY <1>1, <2>2
<1>3. ASSUME NEW next \in Phases \ {"acted"}, Go(r, next, << >>), UNCHANGED usage, phase[r] # "acted"
      PROVE  Goal
  <2>1. \A T : Tally(<< >>, T) = 0
    <3>1. "Denied" \in EventTypes
      BY DEF EventTypes
    <3> QED BY <3>1, Tallies
  <2> DEFINE types == << >>
  <2>2. types \in Seq(EventTypes) /\ Go(r, next, types) /\ \A T : Tally(types, T) = 0
    BY <1>3, <2>1
  <2> HIDE DEF types
  <2> QED BY <1>2, <1>3, <2>2
<1>4. ASSUME NEW next \in Phases \ {"acted"}, NEW T \in Unmetered, Go(r, next, <<T>>),
             UNCHANGED usage, phase[r] # "acted"
      PROVE  Goal
  <2>1. T \in EventTypes /\ T \notin {"RunCreated"} /\ T \notin {"PlanGenerated"} /\ T \notin Outcomes
    BY DEF Unmetered
  <2>2. /\ Tally(<<T>>, {"RunCreated"}) = 0 /\ Tally(<<T>>, {"PlanGenerated"}) = 0
        /\ Tally(<<T>>, Outcomes) = 0
    BY ONLY <2>1, Tallies
  <2>3. <<T>> \in Seq(EventTypes)
    BY <2>1
  <2> QED BY <1>2, <1>4, <2>2, <2>3
<1>5. ASSUME NEW next \in Phases \ {"acted"}, NEW S \in Unmetered, NEW T \in Unmetered,
             Go(r, next, <<S, T>>), UNCHANGED usage, phase[r] # "acted"
      PROVE  Goal
  <2>1. /\ T \in EventTypes /\ T \notin {"RunCreated"} /\ T \notin {"PlanGenerated"} /\ T \notin Outcomes
        /\ S \in EventTypes /\ S \notin {"RunCreated"} /\ S \notin {"PlanGenerated"} /\ S \notin Outcomes
    BY DEF Unmetered
  <2>2. /\ Tally(<<S, T>>, {"RunCreated"}) = 0 /\ Tally(<<S, T>>, {"PlanGenerated"}) = 0
        /\ Tally(<<S, T>>, Outcomes) = 0
    BY ONLY <2>1, Tallies
  <2>3. <<S, T>> \in Seq(EventTypes)
    BY <2>1
  <2> QED BY <1>2, <1>5, <2>2, <2>3
\* A call has ended, and is not metered yet.
<1>6. ASSUME NEW before \in {<< >>, <<"ApprovalGranted">>}, NEW T \in Outcomes,
             Go(r, "acted", before \o <<T>>), UNCHANGED usage, phase[r] # "acted"
      PROVE  Goal
  <2> DEFINE types == before \o <<T>>
  <2>1. T \in EventTypes /\ T \notin {"RunCreated"} /\ T \notin {"PlanGenerated"} /\ T \in Outcomes
    BY DEF EventTypes, Outcomes
  <2>2. before \in Seq(EventTypes) /\ \A S : S \in {{"RunCreated"}, {"PlanGenerated"}, Outcomes} => Tally(before, S) = 0
    BY <1>0a
  <2>3. /\ Tally(types, {"RunCreated"}) = 0 /\ Tally(types, {"PlanGenerated"}) = 0
        /\ Tally(types, Outcomes) = 1
    BY <2>1, <2>2, TallyMore
  <2>4. types \in Seq(EventTypes) /\ "acted" \in Phases
    BY <2>1, <2>2, Longer DEF Phases
  <2>5. Unpaid("acted") = 1 /\ Unpaid(phase[r]) = 0
    BY <1>6 DEF Unpaid
  <2>6. Go(r, "acted", types)
    BY <1>6
  <2> HIDE DEF types
  <2>7. Metering(r, "acted", types)
    BY <1>0, <1>6, <2>3, <2>5, <2>6 DEF Metering
  <2> QED BY <1>1, <2>4, <2>7
<1>7. CASE Start(r)
  <2>0. \E R, S, U \in EventTypes : R = "RunCreated" /\ S = "TaskCreated" /\ U = "PlanGenerated"
    BY DEF EventTypes
  <2> PICK R \in EventTypes, S \in EventTypes, U \in EventTypes :
             R = "RunCreated" /\ S = "TaskCreated" /\ U = "PlanGenerated"
    BY <2>0
  <2>00. /\ R \in EventTypes /\ S \in EventTypes /\ U \in EventTypes
         /\ R \notin Outcomes /\ S \notin Outcomes /\ U \notin Outcomes
         /\ R \in {"RunCreated"} /\ S \notin {"RunCreated"} /\ U \notin {"RunCreated"}
         /\ R \notin {"PlanGenerated"} /\ S \notin {"PlanGenerated"} /\ U \in {"PlanGenerated"}
    BY DEF Outcomes
  <2>01. /\ Tally(<<R, S, U>>, {"RunCreated"}) = 1 /\ Tally(<<R, S, U>>, {"PlanGenerated"}) = 1
         /\ Tally(<<R, S, U>>, Outcomes) = 0
         /\ Tally(<<R, S>>, {"RunCreated"}) = 1 /\ Tally(<<R, S>>, {"PlanGenerated"}) = 0
         /\ Tally(<<R, S>>, Outcomes) = 0
    <3>1. ASSUME NEW A, NEW B, NEW C, R \in A, S \notin A, U \notin A,
                 R \notin B, S \notin B, U \in B, R \notin C, S \notin C, U \notin C
          PROVE  /\ Tally(<<R, S, U>>, A) = 1 /\ Tally(<<R, S, U>>, B) = 1 /\ Tally(<<R, S, U>>, C) = 0
                 /\ Tally(<<R, S>>, A) = 1 /\ Tally(<<R, S>>, B) = 0 /\ Tally(<<R, S>>, C) = 0
      <4>1. Tally(<<R, S, U>>, A) = 1
        BY ONLY <3>1, R \in EventTypes, S \in EventTypes, U \in EventTypes, Tallies
      <4>2. Tally(<<R, S, U>>, B) = 1
        BY ONLY <3>1, R \in EventTypes, S \in EventTypes, U \in EventTypes, Tallies
      <4>3. Tally(<<R, S, U>>, C) = 0
        BY ONLY <3>1, R \in EventTypes, S \in EventTypes, U \in EventTypes, Tallies
      <4>4. Tally(<<R, S>>, A) = 1
        BY ONLY <3>1, R \in EventTypes, S \in EventTypes, Tallies
      <4>5. Tally(<<R, S>>, B) = 0
        BY ONLY <3>1, R \in EventTypes, S \in EventTypes, Tallies
      <4>6. Tally(<<R, S>>, C) = 0
        BY ONLY <3>1, R \in EventTypes, S \in EventTypes, Tallies
      <4> QED BY <4>1, <4>2, <4>3, <4>4, <4>5, <4>6
    <3> DEFINE A == {"RunCreated"}
               B == {"PlanGenerated"}
    <3>2. /\ R \in A /\ S \notin A /\ U \notin A
          /\ R \notin B /\ S \notin B /\ U \in B
          /\ R \notin Outcomes /\ S \notin Outcomes /\ U \notin Outcomes
      BY <2>00
    <3> HIDE DEF A, B
    <3>3. /\ Tally(<<R, S, U>>, A) = 1 /\ Tally(<<R, S, U>>, B) = 1 /\ Tally(<<R, S, U>>, Outcomes) = 0
          /\ Tally(<<R, S>>, A) = 1 /\ Tally(<<R, S>>, B) = 0 /\ Tally(<<R, S>>, Outcomes) = 0
      BY ONLY <3>1, <3>2
    <3> QED BY <3>3 DEF A, B
  <2>1. CASE Job[r].planned
    <3> DEFINE types == <<R, S, U>>
    <3>1. /\ Tally(types, {"RunCreated"}) = 1 /\ Tally(types, {"PlanGenerated"}) = 1
          /\ Tally(types, Outcomes) = 0
      BY <2>01
    <3>2. types \in Seq(EventTypes) /\ "loop" \in Phases
      BY <2>00 DEF Phases
    <3>3. Go(r, "loop", types) /\ phase[r] = "idle"
      BY <1>7, <2>1 DEF Start
    <3>4. usage' = [usage EXCEPT !.runs = @ + 1, !.model_calls = @ + 1]
      BY <1>7, <2>1 DEF Start
    <3>5. /\ usage'.runs = usage.runs + 1 /\ usage'.model_calls = usage.model_calls + 1
          /\ usage'.tool_calls = usage.tool_calls
      BY <3>4 DEF MeterTypeOK, EmptyUsage
    <3>6. Unpaid("loop") = 0 /\ Unpaid(phase[r]) = 0
      BY <3>3 DEF Unpaid
    <3> HIDE DEF types
    <3>7. Metering(r, "loop", types)
      BY <1>0, <3>1, <3>3, <3>5, <3>6 DEF Metering
    <3> QED BY <1>1, <3>2, <3>7
  <2>2. CASE ~Job[r].planned
    <3> DEFINE types == <<R, S>>
    <3>1. /\ Tally(types, {"RunCreated"}) = 1 /\ Tally(types, {"PlanGenerated"}) = 0
          /\ Tally(types, Outcomes) = 0
      BY <2>01
    <3>2. types \in Seq(EventTypes) /\ "planning" \in Phases
      BY <2>00 DEF Phases
    <3>3. Go(r, "planning", types) /\ phase[r] = "idle"
      BY <1>7, <2>2 DEF Start
    <3>4. usage' = [usage EXCEPT !.runs = @ + 1, !.model_calls = @ + 0]
      BY <1>7, <2>2 DEF Start
    <3>5. /\ usage'.runs = usage.runs + 1 /\ usage'.model_calls = usage.model_calls
          /\ usage'.tool_calls = usage.tool_calls
      BY <1>0, <3>4 DEF MeterTypeOK, EmptyUsage
    <3>6. Unpaid("planning") = 0 /\ Unpaid(phase[r]) = 0
      BY <3>3 DEF Unpaid
    <3> HIDE DEF types
    <3>7. Metering(r, "planning", types)
      BY <1>0, <3>1, <3>3, <3>5, <3>6 DEF Metering
    <3> QED BY <1>1, <3>2, <3>7
  <2> QED BY <2>1, <2>2
<1>8. CASE Planned(r)
  <2> DEFINE types == <<"PlanGenerated">>
  <2>0. /\ "PlanGenerated" \in EventTypes /\ "PlanGenerated" \notin Outcomes
        /\ "PlanGenerated" \notin {"RunCreated"} /\ "PlanGenerated" \in {"PlanGenerated"}
    BY DEF EventTypes, Outcomes
  <2>1. /\ Tally(types, {"RunCreated"}) = 0 /\ Tally(types, {"PlanGenerated"}) = 1
        /\ Tally(types, Outcomes) = 0
    BY ONLY <2>0, Tallies
  <2>2. types \in Seq(EventTypes) /\ "loop" \in Phases
    BY <2>0 DEF Phases
  <2>3. Go(r, "loop", types) /\ phase[r] = "planning"
    BY <1>8 DEF Planned
  <2>5. /\ usage'.runs = usage.runs /\ usage'.model_calls = usage.model_calls + 1
        /\ usage'.tool_calls = usage.tool_calls
    BY <1>8 DEF MeterTypeOK, EmptyUsage, Planned
  <2>6. Unpaid("loop") = 0 /\ Unpaid(phase[r]) = 0
    BY <2>3 DEF Unpaid
  <2> HIDE DEF types
  <2>7. Metering(r, "loop", types)
    BY <1>0, <2>1, <2>3, <2>5, <2>6 DEF Metering
  <2> QED BY <1>1, <2>2, <2>7
<1>9. CASE Account(r)
  <2>1. \A T : Tally(<< >>, T) = 0
    <3>1. "Denied" \in EventTypes
      BY DEF EventTypes
    <3> QED BY <3>1, Tallies
  <2>2. << >> \in Seq(EventTypes) /\ "loop" \in Phases
    BY DEF Phases
  <2>3. Go(r, "loop", << >>) /\ phase[r] = "acted"
    BY <1>9 DEF Account
  <2>4. /\ usage'.runs = usage.runs /\ usage'.model_calls = usage.model_calls
        /\ usage'.tool_calls = usage.tool_calls + 1
    BY <1>9 DEF MeterTypeOK, EmptyUsage, Account
  <2>5. Unpaid("loop") = 0 /\ Unpaid(phase[r]) = 1
    BY <2>3 DEF Unpaid
  <2>6. Metering(r, "loop", << >>)
    BY <1>0, <2>1, <2>3, <2>4, <2>5 DEF Metering
  <2> QED BY <1>1, <2>2, <2>6
<1>10. CASE Reject(r) \/ Ask(r) \/ Disapprove(r)
  <2>1. PICK next \in {"loop", "approving"}, T \in {"ApprovalDenied", "CapabilityRejected", "ApprovalRequired"} :
          Go(r, next, <<T>>)
    <3>1. CASE Reject(r)
      <4>1. \E T \in {"ApprovalDenied", "CapabilityRejected"} : Go(r, "loop", <<T>>)
        BY <3>1 DEF Reject
      <4> QED BY <4>1
    <3>2. CASE Ask(r) \/ Disapprove(r)
      BY <3>2 DEF Ask, Disapprove
    <3> QED BY <1>10, <3>1, <3>2
  <2>2. phase[r] # "acted" /\ UNCHANGED usage
    BY <1>10 DEF Reject, Ask, Disapprove, InLoop
  <2>3. next \in Phases \ {"acted"} /\ T \in Unmetered
    BY DEF Phases, Unmetered, EventTypes, Outcomes
  <2> QED BY <1>4, <2>1, <2>2, <2>3
<1>11. ASSUME NEW before \in {<< >>, <<"ApprovalGranted">>}, Proceed(r, before), phase[r] # "acted"
       PROVE  Goal
  <2>1. UNCHANGED usage
    BY <1>11 DEF Proceed
  <2>2. "ApprovalGranted" \in Unmetered
    BY DEF Unmetered, EventTypes, Outcomes
  <2>3. ASSUME NEW next \in Phases \ {"acted"}, NEW T \in Unmetered, Go(r, next, before \o <<T>>)
        PROVE  Goal
    <3> DEFINE types == before \o <<T>>
    <3>1. T \in EventTypes /\ T \notin {"RunCreated"} /\ T \notin {"PlanGenerated"} /\ T \notin Outcomes
      BY DEF Unmetered
    <3>2. before \in Seq(EventTypes) /\ \A S : S \in {{"RunCreated"}, {"PlanGenerated"}, Outcomes} => Tally(before, S) = 0
      BY <1>0a
    <3>3. /\ Tally(types, {"RunCreated"}) = 0 /\ Tally(types, {"PlanGenerated"}) = 0
          /\ Tally(types, Outcomes) = 0
      BY <3>1, <3>2, TallyMore
    <3>4. types \in Seq(EventTypes) /\ Go(r, next, types)
      BY <2>3, <3>1, <3>2, Longer
    <3> HIDE DEF types
    <3> QED BY <1>2, <1>11, <2>1, <3>3, <3>4
  <2>4. ASSUME Go(r, "acted", before \o <<"Denied">>) PROVE Goal
    <3>1. "Denied" \in Outcomes
      BY DEF Outcomes
    <3> QED BY <1>6, <1>11, <2>1, <2>4, <3>1
  <2>5. ASSUME Go(r, "rejected", before) PROVE Goal
    <3>1. "rejected" \in Phases \ {"acted"}
      BY DEF Phases
    <3> QED BY <1>3, <1>4, <1>11, <2>1, <2>2, <2>5, <3>1
  <2>6. \/ \E next \in {"closing", "loop", "requested"},
              T \in {"QuotaExceeded", "ImmuneBlocked", "Requested"} : Go(r, next, before \o <<T>>)
        \/ Go(r, "rejected", before)
        \/ Go(r, "acted", before \o <<"Denied">>)
    BY <1>11 DEF Proceed, Begin
  <2>7. /\ \A next \in {"closing", "loop", "requested"} : next \in Phases \ {"acted"}
        /\ \A T \in {"QuotaExceeded", "ImmuneBlocked", "Requested"} : T \in Unmetered
    BY DEF Phases, Unmetered, EventTypes, Outcomes
  <2> QED BY <2>3, <2>4, <2>5, <2>6, <2>7
<1>12. CASE Execute(r) \/ Approve(r)
  <2>1. phase[r] # "acted" /\ (Proceed(r, << >>) \/ Proceed(r, <<"ApprovalGranted">>))
    BY <1>12 DEF Execute, Approve, InLoop
  <2> QED BY <1>11, <2>1
<1>13a. ASSUME NEW T PROVE << >> \o <<T>> = <<T>>
  OBVIOUS
<1>13. CASE CanExecute(r)
  <2>1. UNCHANGED usage /\ phase[r] # "acted"
        /\ (Go(r, "acting", << >>) \/ Go(r, "acted", <<"Rejected">>))
    BY <1>13 DEF CanExecute
  <2>2. "acting" \in Phases \ {"acted"} /\ "Rejected" \in Outcomes
    BY DEF Phases, Outcomes
  <2> QED BY <1>3, <1>6, <1>13a, <2>1, <2>2
<1>14. CASE Act(r)
  <2>1. \E T \in {"Succeeded", "Unsuccessful"} : Go(r, "acted", <<T>>)
    BY <1>14 DEF Act
  <2>2. UNCHANGED usage /\ phase[r] # "acted" /\ {"Succeeded", "Unsuccessful"} \subseteq Outcomes
    BY <1>14 DEF Act, Outcomes
  <2> QED BY <1>6, <1>13a, <2>1, <2>2
<1>15. CASE Throw(r) \/ Bill(r) \/ Flush(r) \/ FlushFails(r)
  <2>1. UNCHANGED usage /\ phase[r] # "acted"
        /\ \E next \in {"rejected", "flushing", "returned"} : Go(r, next, << >>)
    BY <1>15 DEF Throw, Bill, Flush, FlushFails
  <2>2. \A next \in {"rejected", "flushing", "returned"} : next \in Phases \ {"acted"}
    BY DEF Phases
  <2> QED BY <1>3, <2>1, <2>2
<1>16. CASE Close(r) \/ Check(r)
  <2>1. /\ UNCHANGED usage /\ phase[r] # "acted"
        /\ \/ Go(r, "checking", << >>)
           \/ \E T \in {"TaskCompleted", "TaskFailed"} : Go(r, "billing", <<"VerificationCompleted", T>>)
    BY <1>16 DEF Close, Check, Conclude
  <2>2. /\ "checking" \in Phases \ {"acted"} /\ "billing" \in Phases \ {"acted"}
        /\ "VerificationCompleted" \in Unmetered
        /\ \A T \in {"TaskCompleted", "TaskFailed"} : T \in Unmetered
    BY DEF Phases, Unmetered, EventTypes, Outcomes
  <2> QED BY <1>3, <1>5, <2>1, <2>2
<1> QED
  BY <1>7, <1>8, <1>9, <1>10, <1>12, <1>13, <1>14, <1>15, <1>16 DEF Segment

\* The runs whose call has ended and is still to be metered.
Waiting == {r \in Runs : phase[r] = "acted"}

\* What the meter holds is what the ledger tells.
MeterTold ==
  /\ usage.runs = Cardinality(Written(log, {"RunCreated"}))
  /\ usage.model_calls = Cardinality(Written(log, {"PlanGenerated"}))
  /\ usage.tool_calls + Cardinality(Waiting) = Cardinality(Written(log, Outcomes))

MeterInv == RunsTypeOK /\ (crashed \in BOOLEAN) /\ (~crashed => MeterTold)

\* The calls to be metered once one run has moved on.
LEMMA WaitingMoves ==
  ASSUME PhasesTypeOK, NEW r \in Runs, NEW next \in Phases, phase' = [phase EXCEPT ![r] = next]
  PROVE  /\ Cardinality(Waiting) \in Nat /\ Cardinality(Waiting') \in Nat
         /\ Unpaid(next) \in Nat /\ Unpaid(phase[r]) \in Nat
         /\ Cardinality(Waiting') + Unpaid(phase[r]) = Cardinality(Waiting) + Unpaid(next)
<1>1. Waiting \in SUBSET Runs /\ Waiting' \in SUBSET Runs
  BY DEF Waiting
<1>2. IsFiniteSet(Waiting) /\ IsFiniteSet(Waiting')
  BY <1>1, RunnerAssumption, FS_Subset
<1>3. Cardinality(Waiting) \in Nat /\ Cardinality(Waiting') \in Nat
  BY <1>2, FS_CardinalityType
<1>4. Unpaid(next) \in Nat /\ Unpaid(phase[r]) \in Nat
  BY DEF Unpaid
<1>5. Waiting' = IF next = "acted" THEN Waiting \cup {r} ELSE Waiting \ {r}
  BY DEF Waiting, PhasesTypeOK
<1>6. r \in Waiting <=> phase[r] = "acted"
  BY DEF Waiting
<1>7. CASE next = "acted"
  <2>1. Cardinality(Waiting') = IF r \in Waiting THEN Cardinality(Waiting) ELSE Cardinality(Waiting) + 1
    BY <1>2, <1>5, <1>7, FS_AddElement
  <2> QED BY <1>3, <1>4, <1>6, <1>7, <2>1 DEF Unpaid
<1>8. CASE next # "acted"
  <2>1. Cardinality(Waiting') = IF r \in Waiting THEN Cardinality(Waiting) - 1 ELSE Cardinality(Waiting)
    BY <1>2, <1>5, <1>8, FS_RemoveElement
  <2> QED BY <1>3, <1>4, <1>6, <1>8, <2>1 DEF Unpaid
<1> QED BY <1>3, <1>4, <1>7, <1>8

\* Nothing is metered or written at first.
LEMMA MeterStarts == RunnerInit => MeterInv
<1> SUFFICES ASSUME RunnerInit PROVE MeterInv
  OBVIOUS
<1>1. RunsTypeOK /\ crashed \in BOOLEAN
  BY RunsStart DEF RunnerInit
<1>2. usage.runs = 0 /\ usage.model_calls = 0 /\ usage.tool_calls = 0
  BY DEF RunnerInit, EmptyUsage
<1>3. \A T : Written(log, T) = {}
  <2>1. \A r \in Runs : Len(log[r]) = 0
    BY DEF RunnerInit
  <2>2. ASSUME NEW T, NEW p \in Written(log, T) PROVE FALSE
    <3>1. p[1] \in Runs /\ p[2] \in 1..Len(log[p[1]])
      BY DEF Written
    <3>2. Len(log[p[1]]) = 0
      BY <2>1, <3>1
    <3> QED BY <3>1, <3>2
  <2> QED BY <2>2
<1>4. Waiting = {}
  BY DEF RunnerInit, Waiting
<1>5. Cardinality({}) = 0
  BY FS_EmptySet
<1>6. MeterTold
  BY <1>2, <1>3, <1>4, <1>5 DEF MeterTold
<1> QED BY <1>1, <1>6 DEF MeterInv

\* A step of a run meters what it writes.
LEMMA MeterSegment ==
  ASSUME MeterInv, RunsTypeOK', NEW r \in Runs, Segment(r)
  PROVE  MeterInv'
<1>0. MeterTypeOK /\ PhasesTypeOK /\ LogsTypeOK /\ UNCHANGED crashed
  BY DEF MeterInv, RunsTypeOK, Segment, Start, Planned, Reject, Ask, Execute, Approve, Disapprove,
         Proceed, CanExecute, Act, Account, Throw, Close, Check, Conclude, Bill, Flush,
         FlushFails, Keep
<1> SUFFICES ASSUME ~crashed PROVE MeterTold'
  BY <1>0 DEF MeterInv
<1>1. PICK next \in Phases, types \in Seq(EventTypes) : Metering(r, next, types)
  BY <1>0, SegmentMeters
<1>2. Go(r, next, types) /\ phase' = [phase EXCEPT ![r] = next]
  BY <1>1 DEF Metering, Go
<1>3. \A T : /\ Cardinality(Written(log, T)) \in Nat /\ Tally(types, T) \in Nat
             /\ Cardinality(Written(log', T)) = Cardinality(Written(log, T)) + Tally(types, T)
  BY <1>0, <1>2, WrittenGrows
<1>4. /\ Cardinality(Waiting) \in Nat /\ Cardinality(Waiting') \in Nat
      /\ Unpaid(next) \in Nat /\ Unpaid(phase[r]) \in Nat
      /\ Cardinality(Waiting') + Unpaid(phase[r]) = Cardinality(Waiting) + Unpaid(next)
  BY <1>0, <1>2, WaitingMoves
<1>5. /\ usage.runs \in Nat /\ usage.model_calls \in Nat /\ usage.tool_calls \in Nat
      /\ usage'.tool_calls \in Nat
  BY <1>0 DEF MeterTypeOK, EmptyUsage, RunsTypeOK
<1>6. MeterTold
  BY DEF MeterInv
<1>7. usage'.runs = Cardinality(Written(log', {"RunCreated"}))
  BY <1>1, <1>3, <1>6 DEF MeterTold, Metering
<1>8. usage'.model_calls = Cardinality(Written(log', {"PlanGenerated"}))
  BY <1>1, <1>3, <1>6 DEF MeterTold, Metering
<1>9. usage'.tool_calls + Cardinality(Waiting') = Cardinality(Written(log', Outcomes))
  <2> DEFINE a == Cardinality(Written(log, Outcomes))
             b == Tally(types, Outcomes)
             c == Cardinality(Written(log', Outcomes))
  <2>1. a \in Nat /\ b \in Nat /\ c = a + b
    BY <1>3
  <2>2. usage.tool_calls + Cardinality(Waiting) = a
    BY <1>6 DEF MeterTold
  <2>3. usage'.tool_calls + Unpaid(next) = usage.tool_calls + Unpaid(phase[r]) + b
    BY <1>1 DEF Metering
  <2> DEFINE t == usage.tool_calls
             t1 == usage'.tool_calls
             w == Cardinality(Waiting)
             w1 == Cardinality(Waiting')
             u == Unpaid(phase[r])
             u1 == Unpaid(next)
  <2>4. /\ t \in Nat /\ t1 \in Nat /\ w \in Nat /\ w1 \in Nat /\ u \in Nat /\ u1 \in Nat
        /\ w1 + u = w + u1 /\ t + w = a /\ t1 + u1 = t + u + b
    BY <1>4, <1>5, <2>2, <2>3
  <2> HIDE DEF a, b, c, t, t1, w, w1, u, u1
  <2>5. t1 + w1 = c
    BY ONLY <2>1, <2>4
  <2> QED BY <2>5 DEF c, t1, w1
<1> QED BY <1>7, <1>8, <1>9 DEF MeterTold

\* Every step keeps the meter and the ledger together, until a crash empties
\* the meter.
LEMMA MeterSteps ==
  MeterInv /\ [RunnerNext]_<<runnerVars, immuneVars>> /\ RunsTypeOK' => MeterInv'
<1> SUFFICES ASSUME MeterInv, [RunnerNext]_<<runnerVars, immuneVars>>, RunsTypeOK' PROVE MeterInv'
  OBVIOUS
<1>1. ASSUME NEW r \in Runs, Segment(r) PROVE MeterInv'
  BY <1>1, MeterSegment
<1>2. ASSUME UNCHANGED <<usage, phase, log, crashed>> PROVE MeterInv'
  <2>1. MeterTold => MeterTold'
    BY <1>2 DEF MeterTold, Waiting
  <2> QED BY <1>2, <2>1 DEF MeterInv
<1>3. ASSUME NEW g \in MayDeny, Deny(g) PROVE MeterInv'
  BY <1>2, <1>3 DEF Deny
<1>4. CASE Crash
  BY <1>4 DEF Crash, MeterInv
<1>5. CASE UNCHANGED <<runnerVars, immuneVars>>
  BY <1>2, <1>5 DEF runnerVars
<1> QED BY <1>1, <1>3, <1>4, <1>5 DEF RunnerNext

\* The usage that the read model folds from the ledger.
LEMMA ProjectedUsage ==
  ASSUME LogsTypeOK
  PROVE  /\ ProjectSystem(Ledger(log)).usage.runs = Cardinality(Written(log, {"RunCreated"}))
         /\ ProjectSystem(Ledger(log)).usage.modelCalls = Cardinality(Written(log, {"PlanGenerated"}))
         /\ ProjectSystem(Ledger(log)).usage.toolCalls + Counted("Rejected") + Counted("Denied")
              = Cardinality(Written(log, Outcomes))
<1> DEFINE events == Ledger(log)
           Names == {UsageReducer[t] : t \in DOMAIN UsageReducer}
<1>1. events \in Seq(Event)
  BY LedgerCounts DEF LogsTypeOK
<1>2. \A T : Cardinality(Places(events, T)) = Cardinality(Written(log, T))
  BY LedgerCounts DEF LogsTypeOK
<1>3. ProjectSystem(Ledger(log)).usage = Fold(UsageReducer, events)
  BY DEF ProjectSystem
<1> HIDE DEF events
<1>4. Len(events) \in Nat /\ DOMAIN events = 1..Len(events)
  BY <1>1
<1>5. \A name \in {"runs", "modelCalls", "toolCalls"} :
        \E t \in DOMAIN UsageReducer : UsageReducer[t] = name
  BY DEF UsageReducer
<1>6. \A name \in {"runs", "modelCalls", "toolCalls"} :
        Fold(UsageReducer, events)[name] = Cardinality(Under(UsageReducer, events, name))
  BY ONLY <1>4, <1>5, FoldCounts
<1>7. /\ Under(UsageReducer, events, "runs") = Places(events, {"RunCreated"})
      /\ Under(UsageReducer, events, "modelCalls") = Places(events, {"PlanGenerated"})
      /\ Under(UsageReducer, events, "toolCalls") = Places(events, {"Succeeded", "Unsuccessful"})
  BY DEF UsageReducer, Places, Under
<1>8. ASSUME NEW type PROVE Counted(type) = Cardinality(Places(events, {type}))
  <2>1. {i \in DOMAIN events : events[i].type = type} = Places(events, {type})
    BY <1>4 DEF Places
  <2> QED BY <2>1 DEF Counted, events
<1>9. Cardinality(Places(events, Outcomes))
        = Cardinality(Places(events, {"Succeeded", "Unsuccessful"}))
            + Cardinality(Places(events, {"Rejected"})) + Cardinality(Places(events, {"Denied"}))
  <2> DEFINE A == Places(events, {"Succeeded", "Unsuccessful"})
             B == Places(events, {"Rejected"})
             C == Places(events, {"Denied"})
  <2>1. IsFiniteSet(A) /\ IsFiniteSet(B) /\ IsFiniteSet(C)
    BY <1>4, PlacesFinite
  <2>2. Places(events, Outcomes) = (A \cup B) \cup C /\ A \cap B = {} /\ (A \cup B) \cap C = {}
    BY DEF Places, Outcomes
  <2> HIDE DEF A, B, C
  <2>3. IsFiniteSet(A \cup B) /\ Cardinality(A \cup B) = Cardinality(A) + Cardinality(B)
    BY <2>1, <2>2, Apart
  <2>4. Cardinality((A \cup B) \cup C) = Cardinality(A \cup B) + Cardinality(C)
    BY <2>1, <2>2, <2>3, Apart
  <2> QED BY <2>2, <2>3, <2>4 DEF A, B, C
<1> QED
  BY <1>2, <1>3, <1>5, <1>6, <1>7, <1>8, <1>9

\* The meter and the read model folded from the ledger tell the same usage at
\* every moment before a crash, however many runs write beside each other.
THEOREM MeterAgreesHolds == RunnerSpec => []MeterAgrees
<1>1. MeterInv => MeterAgrees
  <2> SUFFICES ASSUME MeterInv, ~crashed PROVE MeterAgrees
    BY DEF MeterAgrees
  <2>1. MeterTold /\ LogsTypeOK
    BY DEF MeterInv, RunsTypeOK
  <2> QED BY <2>1, ProjectedUsage DEF MeterTold, MeterAgrees, Waiting
<1>2. RunnerInit => QuotaInv /\ MeterInv
  BY QuotaStarts, MeterStarts
<1>3. QuotaInv /\ MeterInv /\ [RunnerNext]_<<runnerVars, immuneVars>> => (QuotaInv /\ MeterInv)'
  BY QuotaSteps, RunsSteps, MeterSteps DEF MeterInv
<1> QED
  BY <1>1, <1>2, <1>3, PTL DEF RunnerSpec

-----------------------------------------------------------------------------
\* What a crash leaves of what a run returned.
\* What a read model of every run's events counts under a name.
LEMMA ProjectedCount ==
  ASSUME NEW E \in [Runs -> Seq(Event)], NEW reducer, NEW name, NEW type,
         type \in DOMAIN reducer /\ reducer[type] = name,
         \A t \in DOMAIN reducer : reducer[t] = name => t = type
  PROVE  Fold(reducer, Ledger(E))[name] = Cardinality(Written(E, {type}))
<1> DEFINE events == Ledger(E)
           T == {type}
<1>1. events \in Seq(Event) /\ Cardinality(Places(events, T)) = Cardinality(Written(E, T))
  BY LedgerCounts
<1> HIDE DEF events
<1>2. Len(events) \in Nat
  BY <1>1
<1>3. Fold(reducer, events)[name] = Cardinality(Under(reducer, events, name))
  BY <1>2, FoldCounts
<1>4. Under(reducer, events, name) = Places(events, T)
  BY DEF Under, Places
<1> QED BY <1>1, <1>3, <1>4 DEF events

-----------------------------------------------------------------------------
\* What tells how a task ended, and what a run says with its verdict.
Ending == {"TaskCompleted", "TaskFailed"}
Word(v) == IF v = "PASSED" THEN "TaskCompleted" ELSE "TaskFailed"
Says(l, v) == \E i \in 1..Len(l) : l[i].type = Word(v)

\* A run's events begin with its creation, tell at most once how the task
\* ended, and have no approval that was not asked for just before.
TaleOK(l) ==
  /\ Len(l) > 0 => l[1].type = "RunCreated"
  /\ \A i, j \in 1..Len(l) : l[i].type \in Ending /\ l[j].type \in Ending => i = j
  /\ \A i \in 1..Len(l) :
       l[i].type = "ApprovalGranted" => i > 1 /\ l[i - 1].type = "ApprovalRequired"

SavedOK(r) ==
  /\ TaleOK(log[r])
  /\ phase[r] = "idle" <=> Len(log[r]) = 0
  /\ phase[r] = "approving" => Len(log[r]) > 0 /\ log[r][Len(log[r])].type = "ApprovalRequired"
  /\ (\E i \in 1..Len(log[r]) : log[r][i].type \in Ending)
       => phase[r] \in {"billing", "flushing", "returned", "rejected", "lost"}
  /\ phase[r] \in {"billing", "flushing", "returned"} => Says(log[r], verdict[r])

\* What arrives of a run is the part of its log that the flushes have taken; a
\* crash takes the rest of a run that has ended from memory alone.
Level(r) == Kept(r) = 1..taken[r]
Sealed(r) ==
  /\ phase[r] \in Ended /\ taken[r] = Len(log[r])
  /\ \E k \in 0..Len(log[r]) : Kept(r) = 1..k

ArrivesOK(r) ==
  /\ \A i : <<r, i>> \in Arriving => i \in 1..taken[r]
  /\ Level(r) \/ Sealed(r)
  /\ phase[r] \in {"flushing", "returned"} => Kept(r) = 1..Len(log[r])

StoreOK(r) ==
  /\ taken[r] \in 0..Len(log[r])
  /\ phase[r] # "flushing" => batch[r] = {}
  /\ ~dropped => ArrivesOK(r)

Verdicts == {None, "PASSED", "FAILED", "UNKNOWN"}
SavedTypeOK ==
  /\ taken \in [Runs -> Nat] /\ batch \in [Runs -> SUBSET (Runs \X Nat)]
  /\ saved \in SUBSET (Runs \X Nat) /\ dropped \in BOOLEAN
  /\ verdict \in [Runs -> Verdicts]

SavedInv == RunsTypeOK /\ SavedTypeOK /\ \A r \in Runs : SavedOK(r) /\ StoreOK(r)

\* What a step of a run does to the ledger's batches: its flush takes what is
\* pending, and the store has it, or refuses it.
Takes(r) ==
  /\ batch' = [batch EXCEPT ![r] = Pending] /\ taken' = [q \in Runs |-> Len(log[q])]
  /\ UNCHANGED <<saved, dropped>>
Stores(r) ==
  /\ saved' = saved \cup batch[r] /\ batch' = [batch EXCEPT ![r] = {}]
  /\ UNCHANGED <<taken, dropped>>
Loses(r) ==
  /\ dropped' = TRUE /\ batch' = [batch EXCEPT ![r] = {}] /\ UNCHANGED <<taken, saved>>

\* What a step of a run writes, and what it stores.
Writes(r, next, types) ==
  /\ Go(r, next, types) /\ next # "idle"
  /\ phase[r] \notin {"returned", "rejected", "lost"}
  /\ phase[r] = "idle" => Len(types) > 0 /\ types[1] = "RunCreated"
  /\ \A i \in 1..Len(types) : types[i] = "ApprovalGranted" => i = 1 /\ phase[r] = "approving"
  /\ next = "approving" => Len(types) = 1 /\ types[1] = "ApprovalRequired"
  /\ (\E i \in 1..Len(types) : types[i] \in Ending) => next = "billing"
  /\ \A i, j \in 1..Len(types) : types[i] \in Ending /\ types[j] \in Ending => i = j
  /\ next = "billing" => /\ phase[r] \in {"loop", "closing", "checking"}
                         /\ \E v \in Verdicts :
                              /\ verdict' = [verdict EXCEPT ![r] = v]
                              /\ \E i \in 1..Len(types) : types[i] = Word(v)
  /\ next # "billing" => UNCHANGED verdict
  /\ phase[r] \in {"billing", "flushing"} => next \in {"flushing", "returned", "rejected"}
  /\ next = "flushing" => phase[r] = "billing" /\ Takes(r) /\ types = << >>
  /\ next = "returned" => phase[r] = "flushing" /\ Stores(r) /\ types = << >>
  /\ next \notin {"flushing", "returned"} =>
       \/ UNCHANGED storeVars /\ phase[r] # "flushing"
       \/ next = "rejected" /\ phase[r] = "flushing" /\ Loses(r)

\* Each part of a run writes what its phase allows.
LEMMA SegmentWrites ==
  ASSUME MeterTypeOK, NEW r \in Runs, Segment(r)
  PROVE  \E next \in Phases, types \in Seq(EventTypes) : Writes(r, next, types)
<1> DEFINE Goal == \E next \in Phases, types \in Seq(EventTypes) : Writes(r, next, types)
<1> SUFFICES Goal
  OBVIOUS
<1>1. ASSUME NEW next \in Phases, NEW types \in Seq(EventTypes), Writes(r, next, types) PROVE Goal
  BY <1>1
<1> HIDE DEF Goal
\* Steps that tell nothing of an approval or of the end.
<1> DEFINE Silent == EventTypes \ ({"ApprovalGranted"} \cup Ending)
           Late == {"approving", "billing", "flushing", "returned"}
<1>2. ASSUME NEW next \in Phases \ (Late \cup {"idle"}), Go(r, next, << >>),
             UNCHANGED <<verdict, storeVars>>, phase[r] \notin {"idle", "returned", "rejected", "lost"},
             phase[r] = "billing" => next = "rejected", phase[r] # "flushing"
      PROVE  Goal
  <2> DEFINE types == << >>
  <2>1. types \in Seq(EventTypes) /\ 1..Len(types) = {} /\ Go(r, next, types)
    BY <1>2
  <2> HIDE DEF types
  <2>2. Writes(r, next, types)
    BY <1>2, <2>1 DEF Writes
  <2> QED BY <1>1, <2>1, <2>2
<1>3. ASSUME NEW next \in Phases \ (Late \cup {"idle"}), NEW T \in Silent, Go(r, next, <<T>>),
             UNCHANGED <<verdict, storeVars>>,
             phase[r] \notin {"idle", "returned", "rejected", "lost", "billing", "flushing"}
      PROVE  Goal
  <2> DEFINE types == <<T>>
  <2>1. types \in Seq(EventTypes) /\ \A i \in 1..Len(types) : types[i] \in Silent
    OBVIOUS
  <2>2. Go(r, next, types)
    BY <1>3
  <2> HIDE DEF types
  <2>3. Writes(r, next, types)
    BY <1>3, <2>1, <2>2 DEF Writes
  <2> QED BY <1>1, <2>1, <2>3
<1>4. ASSUME NEW next \in Phases \ (Late \cup {"idle"}), NEW T \in Silent,
             Go(r, next, <<"ApprovalGranted">> \o <<T>>),
             UNCHANGED <<verdict, storeVars>>, phase[r] = "approving"
      PROVE  Goal
  <2> DEFINE types == <<"ApprovalGranted">> \o <<T>>
  <2>0. "ApprovalGranted" \in EventTypes
    BY DEF EventTypes
  <2>1. /\ types \in Seq(EventTypes) /\ Len(types) = 2
        /\ types[1] = "ApprovalGranted" /\ types[2] = T
    <3>1. <<"ApprovalGranted">> \in Seq(EventTypes) /\ <<T>> \in Seq(EventTypes)
      BY <2>0
    <3> DEFINE a == <<"ApprovalGranted">>
               b == <<T>>
    <3>2. a \in Seq(EventTypes) /\ b \in Seq(EventTypes) /\ Len(a) = 1 /\ Len(b) = 1
          /\ a[1] = "ApprovalGranted" /\ b[1] = T
      BY <3>1
    <3> HIDE DEF a, b
    <3>3. /\ a \o b \in Seq(EventTypes) /\ Len(a \o b) = Len(a) + Len(b)
          /\ \A i \in 1..Len(a) : (a \o b)[i] = a[i]
          /\ \A i \in 1..Len(b) : (a \o b)[Len(a) + i] = b[i]
      BY ONLY <3>2, Continued
    <3>4. (a \o b)[1] = "ApprovalGranted" /\ (a \o b)[2] = T
      BY <3>2, <3>3
    <3> QED BY <3>2, <3>3, <3>4 DEF a, b
  <2>2. Go(r, next, types)
    BY <1>4
  <2>3. "ApprovalGranted" \notin Ending
    BY DEF Ending
  <2>4. \A i \in 1..Len(types) : i = 1 \/ (i = 2 /\ types[i] \in Silent)
    BY <2>1
  <2> HIDE DEF types
  <2>5. Writes(r, next, types)
    BY <1>4, <2>1, <2>2, <2>3, <2>4 DEF Writes
  <2> QED BY <1>1, <2>1, <2>5
<1>5. ASSUME Go(r, "rejected", <<"ApprovalGranted">>), UNCHANGED <<verdict, storeVars>>,
             phase[r] = "approving"
      PROVE  Goal
  <2> DEFINE types == <<"ApprovalGranted">>
  <2>1. /\ types \in Seq(EventTypes) /\ Len(types) = 1 /\ types[1] = "ApprovalGranted"
        /\ "rejected" \in Phases
    BY DEF EventTypes, Phases
  <2>2. Go(r, "rejected", types)
    BY <1>5
  <2>3. "ApprovalGranted" \notin Ending
    BY DEF Ending
  <2> HIDE DEF types
  <2>4. \A i \in 1..Len(types) : i = 1
    BY <2>1
  <2>5. Writes(r, "rejected", types)
    BY <1>5, <2>1, <2>2, <2>3, <2>4 DEF Writes
  <2> QED BY <1>1, <2>1, <2>5
<1>6. CASE Start(r)
  <2>0. \E R, S, U \in EventTypes : R = "RunCreated" /\ S = "TaskCreated" /\ U = "PlanGenerated"
    BY DEF EventTypes
  <2> PICK R \in EventTypes, S \in EventTypes, U \in EventTypes :
             R = "RunCreated" /\ S = "TaskCreated" /\ U = "PlanGenerated"
    BY <2>0
  <2>1. ASSUME NEW types \in Seq(EventTypes), NEW next \in {"loop", "planning"}, Go(r, next, types),
               Len(types) > 0, types[1] = "RunCreated",
               \A i \in 1..Len(types) : types[i] \in {R, S, U}
        PROVE  Goal
    <3>1. phase[r] = "idle" /\ UNCHANGED <<verdict, storeVars>>
      BY <1>6 DEF Start, Keep
    <3>2. next \in Phases
      BY DEF Phases
    <3>3. \A i \in 1..Len(types) : types[i] # "ApprovalGranted" /\ types[i] \notin Ending
      BY <2>1 DEF Ending
    <3>4. Writes(r, next, types)
      BY <2>1, <3>1, <3>3 DEF Writes
    <3> QED BY <1>1, <3>2, <3>4
  <2>2. CASE Job[r].planned
    <3> DEFINE types == <<R, S, U>>
    <3>1. /\ types \in Seq(EventTypes) /\ Len(types) > 0 /\ types[1] = R
          /\ \A i \in 1..Len(types) : types[i] \in {R, S, U}
      OBVIOUS
    <3>2. Go(r, "loop", types)
      BY <1>6, <2>2 DEF Start
    <3> HIDE DEF types
    <3> QED BY <2>1, <3>1, <3>2
  <2>3. CASE ~Job[r].planned
    <3> DEFINE types == <<R, S>>
    <3>1. /\ types \in Seq(EventTypes) /\ Len(types) > 0 /\ types[1] = R
          /\ \A i \in 1..Len(types) : types[i] \in {R, S, U}
      OBVIOUS
    <3>2. Go(r, "planning", types)
      BY <1>6, <2>3 DEF Start
    <3> HIDE DEF types
    <3> QED BY <2>1, <3>1, <3>2
  <2> QED BY <2>2, <2>3
<1>7. CASE Planned(r)
  <2>1. Go(r, "loop", <<"PlanGenerated">>) /\ phase[r] = "planning" /\ UNCHANGED <<verdict, storeVars>>
    BY <1>7 DEF Planned, Keep
  <2>2. "loop" \in Phases \ (Late \cup {"idle"}) /\ "PlanGenerated" \in Silent
    BY DEF Phases, EventTypes, Ending
  <2> QED BY <1>3, <2>1, <2>2
<1>8. CASE Reject(r) \/ Disapprove(r)
  <2>1. /\ \E T \in {"ApprovalDenied", "CapabilityRejected"} : Go(r, "loop", <<T>>)
        /\ phase[r] \in {"loop", "approving"} /\ UNCHANGED <<verdict, storeVars>>
    <3>1. CASE Reject(r)
      BY <3>1 DEF Reject, InLoop, Keep
    <3>2. CASE Disapprove(r)
      BY <3>2 DEF Disapprove, Keep
    <3> QED BY <1>8, <3>1, <3>2
  <2>2. /\ "loop" \in Phases \ (Late \cup {"idle"})
        /\ \A T \in {"ApprovalDenied", "CapabilityRejected"} : T \in Silent
    BY DEF Phases, EventTypes, Ending
  <2> QED BY <1>3, <2>1, <2>2
<1>9. CASE Ask(r)
  <2> DEFINE types == <<"ApprovalRequired">>
  <2>1. Go(r, "approving", types) /\ phase[r] = "loop" /\ UNCHANGED <<verdict, storeVars>>
    BY <1>9 DEF Ask, InLoop, Keep
  <2>2. /\ types \in Seq(EventTypes) /\ Len(types) = 1 /\ types[1] = "ApprovalRequired"
        /\ "approving" \in Phases /\ "ApprovalRequired" \notin Ending
    BY DEF EventTypes, Phases, Ending
  <2> HIDE DEF types
  <2>3. \A i \in 1..Len(types) : i = 1
    BY <2>2
  <2>4. Writes(r, "approving", types)
    BY <2>1, <2>2, <2>3 DEF Writes
  <2> QED BY <1>1, <2>2, <2>4
<1>10. ASSUME NEW before \in {<< >>, <<"ApprovalGranted">>}, Proceed(r, before),
              IF before = << >> THEN phase[r] = "loop" ELSE phase[r] = "approving"
       PROVE  Goal
  <2>1. UNCHANGED <<verdict, storeVars>>
    BY <1>10 DEF Proceed
  <2>2. ASSUME NEW next \in Phases \ (Late \cup {"idle"}), NEW T \in Silent,
               Go(r, next, before \o <<T>>)
        PROVE  Goal
    <3>1. CASE before = << >>
      <4>1. << >> \o <<T>> = <<T>>
        OBVIOUS
      <4> QED BY <1>3, <1>10, <2>1, <2>2, <3>1, <4>1
    <3>2. CASE before = <<"ApprovalGranted">>
      <4>1. phase[r] = "approving"
        BY <1>10, <3>2
      <4> QED BY <1>4, <2>1, <2>2, <3>2, <4>1
    <3> QED BY <3>1, <3>2
  <2>3. ASSUME Go(r, "rejected", before) PROVE Goal
    <3>1. CASE before = << >>
      <4>1. "rejected" \in Phases \ (Late \cup {"idle"})
        BY DEF Phases
      <4> QED BY <1>2, <1>10, <2>1, <2>3, <3>1, <4>1
    <3>2. CASE before = <<"ApprovalGranted">>
      <4>1. phase[r] = "approving"
        BY <1>10, <3>2
      <4> QED BY <1>5, <2>1, <2>3, <3>2, <4>1
    <3> QED BY <3>1, <3>2
  <2>4. \/ \E next \in {"closing", "loop", "requested", "acted"},
              T \in {"QuotaExceeded", "ImmuneBlocked", "Requested", "Denied"} :
             Go(r, next, before \o <<T>>)
        \/ Go(r, "rejected", before)
    BY <1>10 DEF Proceed, Begin
  <2>5. /\ \A next \in {"closing", "loop", "requested", "acted"} : next \in Phases \ (Late \cup {"idle"})
        /\ \A T \in {"QuotaExceeded", "ImmuneBlocked", "Requested", "Denied"} : T \in Silent
    BY DEF Phases, EventTypes, Ending
  <2> QED BY <2>2, <2>3, <2>4, <2>5
<1>11. CASE Execute(r) \/ Approve(r)
  <2>1. <<"ApprovalGranted">> # << >>
    OBVIOUS
  <2>2. \/ Proceed(r, << >>) /\ phase[r] = "loop"
        \/ Proceed(r, <<"ApprovalGranted">>) /\ phase[r] = "approving"
    BY <1>11 DEF Execute, Approve, InLoop
  <2> QED BY <1>10, <2>1, <2>2
<1>12. CASE CanExecute(r) \/ Act(r) \/ Account(r) \/ Throw(r)
  <2>1. UNCHANGED <<verdict, storeVars>>
    BY <1>12 DEF CanExecute, Act, Account, Throw, Keep
  <2>2. phase[r] \notin {"idle", "flushing", "returned", "rejected", "lost"}
    BY <1>12 DEF CanExecute, Act, Account, Throw
  <2>3. CASE CanExecute(r)
    <3>1. "acting" \in Phases \ (Late \cup {"idle"}) /\ "acted" \in Phases \ (Late \cup {"idle"})
          /\ "Rejected" \in Silent
      BY DEF Phases, EventTypes, Ending
    <3> QED BY <1>2, <1>3, <2>1, <2>3, <3>1 DEF CanExecute
  <2>4. CASE Act(r)
    <3>1. phase[r] = "acting" /\ \E T \in {"Succeeded", "Unsuccessful"} : Go(r, "acted", <<T>>)
      BY <2>4 DEF Act
    <3>2. "acted" \in Phases \ (Late \cup {"idle"}) /\ {"Succeeded", "Unsuccessful"} \subseteq Silent
      BY DEF Phases, EventTypes, Ending
    <3> QED BY <1>3, <2>1, <3>1, <3>2
  <2>5. CASE Account(r) \/ Throw(r)
    <3>1. "loop" \in Phases \ (Late \cup {"idle"}) /\ "rejected" \in Phases \ (Late \cup {"idle"})
      BY DEF Phases
    <3> QED BY <1>2, <2>1, <2>2, <2>5, <3>1 DEF Account, Throw
  <2> QED BY <1>12, <2>3, <2>4, <2>5
<1>13. ASSUME NEW checks, Conclude(r, checks), phase[r] \in {"loop", "closing", "checking"} PROVE Goal
  <2> DEFINE v == VerdictOf(checks)
             W == Word(v)
             types == <<"VerificationCompleted", W>>
  <2>1. /\ verdict' = [verdict EXCEPT ![r] = v] /\ UNCHANGED storeVars
        /\ Go(r, "billing", <<"VerificationCompleted", IF v = "PASSED" THEN "TaskCompleted" ELSE "TaskFailed">>)
    BY <1>13 DEF Conclude, Keep
  <2>2. Go(r, "billing", types)
    BY <2>1 DEF Word
  <2>3. W \in EventTypes /\ W # "ApprovalGranted" /\ "billing" \in Phases
        /\ "VerificationCompleted" \in EventTypes /\ "VerificationCompleted" \notin Ending
    BY DEF EventTypes, Ending, Word, Phases
  <2>0. v \in Verdicts
    BY DEF VerdictOf, Verdicts
  <2> HIDE DEF v, W
  <2>4. types \in Seq(EventTypes) /\ Len(types) = 2 /\ types[1] = "VerificationCompleted" /\ types[2] = W
    BY <2>3
  <2> HIDE DEF types
  <2>5. \A i \in 1..Len(types) : i = 1 \/ i = 2
    BY <2>4
  <2>6. \E i \in 1..Len(types) : types[i] = Word(v)
    BY <2>4 DEF W
  <2>7. Writes(r, "billing", types)
    BY <1>13, <2>0, <2>1, <2>2, <2>3, <2>4, <2>5, <2>6 DEF Writes
  <2> QED BY <1>1, <2>3, <2>4, <2>7
<1>14. CASE Close(r) \/ Check(r)
  <2>1. phase[r] \in {"loop", "closing", "checking"}
    BY <1>14 DEF Close, Check
  <2>2. \/ \E checks : Conclude(r, checks)
        \/ Go(r, "checking", << >>) /\ UNCHANGED <<verdict, storeVars>>
    BY <1>14 DEF Close, Check, Keep
  <2>3. "checking" \in Phases \ (Late \cup {"idle"})
    BY DEF Phases
  <2> QED BY <1>2, <1>13, <2>1, <2>2, <2>3
<1>15. CASE Bill(r) \/ Flush(r) \/ FlushFails(r)
  <2> DEFINE types == << >>
  <2>1. types \in Seq(EventTypes) /\ 1..Len(types) = {} /\ types = << >>
        /\ "flushing" \in Phases /\ "returned" \in Phases /\ "rejected" \in Phases
    BY DEF Phases
  <2>2. UNCHANGED verdict
    BY <1>15 DEF Bill, Flush, FlushFails
  <2>3. \/ phase[r] = "billing" /\ Go(r, "flushing", types) /\ Takes(r)
        \/ phase[r] = "flushing" /\ Go(r, "returned", types) /\ Stores(r)
        \/ phase[r] = "flushing" /\ Go(r, "rejected", types) /\ Loses(r)
    BY <1>15 DEF Bill, Flush, FlushFails, Takes, Stores, Loses
  <2> HIDE DEF types
  <2>4. Writes(r, "flushing", types) \/ Writes(r, "returned", types) \/ Writes(r, "rejected", types)
    BY <2>1, <2>2, <2>3 DEF Writes
  <2> QED BY <1>1, <2>1, <2>4
<1> QED
  BY <1>6, <1>7, <1>8, <1>9, <1>11, <1>12, <1>14, <1>15 DEF Segment

\* What a run's log says once it is continued.
LEMMA TaleGrows ==
  ASSUME LogsTypeOK, NEW r \in Runs, SavedOK(r), NEW next \in Phases,
         NEW types \in Seq(EventTypes), Writes(r, next, types)
  PROVE  /\ TaleOK(log'[r]) /\ Len(log'[r]) > 0
         /\ next = "approving" => log'[r][Len(log'[r])].type = "ApprovalRequired"
         /\ (\E i \in 1..Len(log'[r]) : log'[r][i].type \in Ending)
              => next \in {"billing", "flushing", "returned", "rejected"}
         /\ \A v : Says(log[r], v) => Says(log'[r], v)
         /\ \A v : (\E i \in 1..Len(types) : types[i] = Word(v)) => Says(log'[r], v)
<1> DEFINE n == Len(log[r])
           m == Len(types)
           l == log[r]
           k == log'[r]
<1>1. /\ n \in Nat /\ Len(k) = n + m
      /\ \A i \in 1..n : k[i] = l[i]
      /\ \A i \in 1..m : k[n + i] = [type |-> types[i], step |-> StepOf(r)]
  BY Appending DEF Writes
<1>2. m \in Nat
  OBVIOUS
<1>3. \A i \in 1..m : k[n + i].type = types[i]
  <2> SUFFICES ASSUME NEW i \in 1..m PROVE k[n + i].type = types[i]
    OBVIOUS
  <2>1. k[n + i] = [type |-> types[i], step |-> StepOf(r)]
    BY <1>1
  <2> HIDE DEF k, n, m
  <2> QED BY <2>1
<1>4. TaleOK(l) /\ (phase[r] = "idle" <=> n = 0)
  BY DEF SavedOK
<1>5. /\ n > 0 => l[1].type = "RunCreated"
      /\ \A i, j \in 1..n : l[i].type \in Ending /\ l[j].type \in Ending => i = j
      /\ \A i \in 1..n : l[i].type = "ApprovalGranted" => i > 1 /\ l[i - 1].type = "ApprovalRequired"
  BY <1>4 DEF TaleOK
<1>6. phase[r] = "approving" => n > 0 /\ l[n].type = "ApprovalRequired"
  BY DEF SavedOK
<1>7. (\E i \in 1..n : l[i].type \in Ending)
        => phase[r] \in {"billing", "flushing", "returned", "rejected", "lost"}
  BY DEF SavedOK
<1>8. n = 0 => m > 0 /\ types[1] = "RunCreated"
  BY <1>4 DEF Writes
<1>9. \A i \in 1..m : types[i] = "ApprovalGranted" => i = 1 /\ phase[r] = "approving"
  BY DEF Writes
<1>10. (\E i \in 1..m : types[i] \in Ending) => ~(\E i \in 1..n : l[i].type \in Ending)
  <2>1. (\E i \in 1..m : types[i] \in Ending) => phase[r] \in {"loop", "closing", "checking"}
    BY DEF Writes
  <2> QED BY <1>7, <2>1
<1>11. \A i, j \in 1..m : types[i] \in Ending /\ types[j] \in Ending => i = j
  BY DEF Writes
<1> HIDE DEF n, m, l, k
<1>12. \A i \in 1..Len(k) : i \in 1..n \/ (i - n \in 1..m /\ i = n + (i - n))
  BY <1>1, <1>2
<1>13. \A i \in 1..Len(k) : i \in 1..n \/ (i - n \in 1..m /\ k[i].type = types[i - n])
  <2> SUFFICES ASSUME NEW i \in 1..Len(k), i \notin 1..n
               PROVE  i - n \in 1..m /\ k[i].type = types[i - n]
    OBVIOUS
  <2> DEFINE j == i - n
  <2>1. j \in 1..m /\ i = n + j
    BY <1>12
  <2> HIDE DEF j
  <2>2. k[i].type = types[j]
    BY <1>3, <2>1
  <2> QED BY <2>1, <2>2 DEF j
<1>14. Len(k) > 0 /\ k[1].type = "RunCreated"
  <2>1. CASE n = 0
    <3>1. m > 0 /\ 1 \in 1..m /\ types[1] = "RunCreated" /\ n + 1 = 1
      BY <1>2, <1>8, <2>1
    <3> QED BY <1>1, <1>2, <1>3, <2>1, <3>1
  <2>2. CASE n # 0
    <3>1. n > 0 /\ 1 \in 1..n
      BY <1>1, <2>2
    <3> QED BY <1>1, <1>2, <1>5, <3>1
  <2> QED BY <2>1, <2>2
<1>15. ASSUME NEW i \in 1..Len(k), NEW j \in 1..Len(k), k[i].type \in Ending, k[j].type \in Ending
       PROVE  i = j
  <2>1. CASE i \in 1..n /\ j \in 1..n
    BY <1>1, <1>5, <1>15, <2>1
  <2>2. CASE i \in 1..n /\ j \notin 1..n
    <3>1. l[i].type \in Ending /\ j - n \in 1..m /\ types[j - n] \in Ending
      BY <1>1, <1>13, <1>15, <2>2
    <3> QED BY <1>10, <2>2, <3>1
  <2>3. CASE i \notin 1..n /\ j \in 1..n
    <3>1. l[j].type \in Ending /\ i - n \in 1..m /\ types[i - n] \in Ending
      BY <1>1, <1>13, <1>15, <2>3
    <3> QED BY <1>10, <2>3, <3>1
  <2>4. CASE i \notin 1..n /\ j \notin 1..n
    <3>1. /\ i - n \in 1..m /\ types[i - n] \in Ending
          /\ j - n \in 1..m /\ types[j - n] \in Ending
      BY <1>13, <1>15, <2>4
    <3>2. i - n = j - n
      BY <1>11, <3>1
    <3>3. i \in Int /\ j \in Int
      BY <1>1, <1>2
    <3> QED BY <1>1, <3>2, <3>3
  <2> QED BY <2>1, <2>2, <2>3, <2>4
<1>16. ASSUME NEW i \in 1..Len(k), k[i].type = "ApprovalGranted"
       PROVE  i > 1 /\ k[i - 1].type = "ApprovalRequired"
  <2>1. CASE i \in 1..n
    <3>1. i > 1 /\ l[i - 1].type = "ApprovalRequired"
      BY <1>1, <1>5, <1>16, <2>1
    <3>2. i - 1 \in 1..n
      BY <1>1, <2>1, <3>1
    <3> QED BY <1>1, <3>1, <3>2
  <2>2. CASE i \notin 1..n
    <3>1. i - n \in 1..m /\ types[i - n] = "ApprovalGranted"
      BY <1>13, <1>16, <2>2
    <3>2. i - n = 1 /\ n > 0 /\ l[n].type = "ApprovalRequired"
      BY <1>6, <1>9, <3>1
    <3>3. i - 1 = n /\ n \in 1..n /\ i > 1
      BY <1>1, <1>2, <3>2
    <3> QED BY <1>1, <3>2, <3>3
  <2> QED BY <2>1, <2>2
<1>17. TaleOK(k)
  BY <1>14, <1>15, <1>16 DEF TaleOK
<1>18. ASSUME next = "approving" PROVE k[Len(k)].type = "ApprovalRequired"
  <2>1. m = 1 /\ types[1] = "ApprovalRequired"
    BY <1>18 DEF Writes, m
  <2>2. Len(k) = n + 1 /\ 1 \in 1..m
    BY <1>1, <2>1
  <2> QED BY <1>3, <2>1, <2>2
<1>19. ASSUME NEW i \in 1..Len(k), k[i].type \in Ending
       PROVE  next \in {"billing", "flushing", "returned", "rejected"}
  <2>1. CASE i \in 1..n
    <3>1. l[i].type \in Ending
      BY <1>1, <1>19, <2>1
    <3>2. phase[r] \in {"billing", "flushing"}
      BY <1>7, <2>1, <3>1 DEF Writes
    <3> QED BY <3>2 DEF Writes
  <2>2. CASE i \notin 1..n
    <3>1. i - n \in 1..m /\ types[i - n] \in Ending
      BY <1>13, <1>19, <2>2
    <3> QED BY <3>1 DEF Writes, m
  <2> QED BY <2>1, <2>2
<1>20. ASSUME NEW v, Says(l, v) PROVE Says(k, v)
  <2>1. PICK i \in 1..n : l[i].type = Word(v)
    BY <1>20 DEF Says, n, l
  <2>2. i \in 1..Len(k) /\ k[i].type = Word(v)
    BY <1>1, <1>2, <2>1
  <2> QED BY <2>2 DEF Says
<1>21. ASSUME NEW v, NEW i \in 1..m, types[i] = Word(v) PROVE Says(k, v)
  <2> DEFINE j == n + i
  <2>1. j \in 1..Len(k) /\ k[j].type = Word(v)
    BY <1>1, <1>2, <1>3, <1>21
  <2> HIDE DEF j
  <2> QED BY <2>1 DEF Says
<1> QED
  BY <1>14, <1>17, <1>18, <1>19, <1>20, <1>21 DEF k, l, m

\* A part of a run leaves the store in order.
LEMMA StoreSegment ==
  ASSUME SavedInv, NEW r \in Runs, NEW next \in Phases, NEW types \in Seq(EventTypes),
         Writes(r, next, types), verdict' \in [Runs -> Verdicts]
  PROVE  SavedTypeOK' /\ \A q \in Runs : StoreOK(q)'
<1>1. /\ PhasesTypeOK /\ LogsTypeOK /\ SavedTypeOK
      /\ \A q \in Runs : StoreOK(q)
  BY DEF SavedInv, RunsTypeOK
<1>2. Go(r, next, types) /\ phase'[r] = next /\ \A q \in Runs \ {r} : phase'[q] = phase[q]
  BY <1>1 DEF Writes, Go, PhasesTypeOK
<1>3. \A q \in Runs : /\ log[q] \in Seq(Event) /\ Len(log[q]) \in Nat
                      /\ DOMAIN log[q] = 1..Len(log[q])
  BY <1>1 DEF LogsTypeOK
<1>4. \A q \in Runs : /\ log'[q] \in Seq(Event) /\ Len(log'[q]) \in Nat
                      /\ DOMAIN log'[q] = 1..Len(log'[q])
                      /\ Len(log'[q]) >= Len(log[q])
                      /\ q # r => Len(log'[q]) = Len(log[q])
                      /\ types = << >> => Len(log'[q]) = Len(log[q])
  <2>1. /\ log' \in [Runs -> Seq(Event)] /\ \A q \in Runs \ {r} : log'[q] = log[q]
        /\ Len(log'[r]) = Len(log[r]) + Len(types)
    BY <1>1, <1>2, Appending
  <2>2. Len(types) \in Nat /\ (types = << >> => Len(types) = 0)
    OBVIOUS
  <2> QED BY <1>3, <2>1, <2>2
<1>5. phase[r] \notin Ended
  BY DEF Writes, Ended
<1>6. \A q \in Runs : taken[q] \in Nat /\ taken[q] <= Len(log[q]) /\ taken[q] <= Len(log'[q])
  BY <1>1, <1>3, <1>4 DEF SavedTypeOK, StoreOK
\* What arrives of a run stays the same when nothing more is taken.
<1>7. ASSUME Arriving' = Arriving, ~dropped, NEW q \in Runs PROVE Kept(q)' = Kept(q)
  <2>1. \A i : <<q, i>> \in Arriving => i \in 1..taken[q]
    BY <1>1, <1>7 DEF StoreOK, ArrivesOK
  <2>2. \A i \in 1..taken[q] : i \in DOMAIN log[q] /\ i \in DOMAIN log'[q]
    BY <1>3, <1>4, <1>6
  <2> QED BY <1>7, <2>1, <2>2 DEF Kept
<1>8. CASE UNCHANGED storeVars /\ phase[r] # "flushing" /\ next \notin {"flushing", "returned"}
  <2>1. SavedTypeOK'
    BY <1>1, <1>8 DEF SavedTypeOK, storeVars
  <2>2. Arriving' = Arriving /\ UNCHANGED <<taken, batch, saved, dropped>>
    BY <1>8 DEF Arriving, storeVars
  <2>3. ASSUME NEW q \in Runs PROVE StoreOK(q)'
    <3>1. StoreOK(q) /\ (~dropped => Kept(q)' = Kept(q))
      BY <1>1, <1>7, <2>2
    <3>2. taken'[q] \in 0..Len(log'[q]) /\ (phase'[q] # "flushing" => batch'[q] = {})
      BY <1>2, <1>4, <1>6, <1>8, <2>2, <3>1 DEF StoreOK
    <3>3. CASE q = r
      <4>1. ~dropped => Level(r)
        BY <1>5, <3>1, <3>3 DEF StoreOK, ArrivesOK, Sealed
      <4> QED BY <1>2, <1>8, <2>2, <3>1, <3>2, <3>3, <4>1 DEF StoreOK, ArrivesOK, Level
    <3>4. CASE q # r
      <4>1. Len(log'[q]) = Len(log[q]) /\ phase'[q] = phase[q]
        BY <1>2, <1>4, <3>4
      <4> QED BY <2>2, <3>1, <3>2, <4>1 DEF StoreOK, ArrivesOK, Level, Sealed
    <3> QED BY <3>3, <3>4
  <2> QED BY <2>1, <2>3
<1>9. CASE next = "flushing"
  <2>1. phase[r] = "billing" /\ Takes(r) /\ types = << >>
    BY <1>9 DEF Writes
  <2>2. Pending \subseteq Runs \X Nat
    BY <1>3, <1>6 DEF Pending
  <2>3. SavedTypeOK'
    BY <1>1, <1>3, <2>1, <2>2 DEF SavedTypeOK, Takes
  <2>4. batch[r] = {}
    BY <1>1, <2>1 DEF StoreOK
  <2>5. /\ batch'[r] = Pending /\ \A q \in Runs \ {r} : batch'[q] = batch[q]
        /\ UNCHANGED <<saved, dropped>> /\ \A q \in Runs : taken'[q] = Len(log[q])
    BY <1>1, <2>1 DEF SavedTypeOK, Takes
  <2>6. Arriving' = Arriving \cup Pending
    BY <2>4, <2>5 DEF Arriving
  <2>7. \A q \in Runs : \A i : <<q, i>> \in Pending <=> i \in (taken[q] + 1)..Len(log[q])
    BY DEF Pending
  <2>8. ASSUME NEW q \in Runs PROVE StoreOK(q)'
    <3>1. StoreOK(q) /\ Len(log'[q]) = Len(log[q])
      BY <1>1, <1>4, <2>1
    <3>2. taken'[q] \in 0..Len(log'[q]) /\ (phase'[q] # "flushing" => batch'[q] = {})
      BY <1>2, <1>3, <1>9, <2>5, <3>1 DEF StoreOK
    <3> SUFFICES ASSUME ~dropped PROVE ArrivesOK(q)'
      BY <2>5, <3>2 DEF StoreOK
    <3>3. ArrivesOK(q)
      BY <3>1 DEF StoreOK
    <3>4. \A i : <<q, i>> \in Arriving' => i \in 1..taken'[q]
      <4> SUFFICES ASSUME NEW i, <<q, i>> \in Arriving' PROVE i \in 1..Len(log[q])
        BY <2>5
      <4>1. CASE <<q, i>> \in Arriving
        BY <1>3, <1>6, <3>3, <4>1 DEF ArrivesOK
      <4>2. CASE <<q, i>> \in Pending
        BY <1>3, <1>6, <2>7, <4>2
      <4> QED BY <2>6, <4>1, <4>2
    <3>5. Kept(q)' = Kept(q) \cup ((taken[q] + 1)..Len(log[q]))
      <4>1. DOMAIN log'[q] = 1..Len(log[q]) /\ DOMAIN log[q] = 1..Len(log[q])
        BY <1>3, <1>4, <3>1
      <4>2. (taken[q] + 1)..Len(log[q]) \subseteq 1..Len(log[q])
        BY <1>3, <1>6
      <4> QED BY <2>6, <2>7, <4>1, <4>2 DEF Kept
    <3>6. CASE Level(q)
      <4>1. Kept(q)' = 1..Len(log[q])
        BY <1>3, <1>6, <3>5, <3>6 DEF Level
      <4> QED BY <2>5, <3>1, <3>4, <4>1 DEF ArrivesOK, Level
    <3>7. CASE Sealed(q)
      <4>1. q # r /\ phase'[q] = phase[q]
        BY <1>2, <1>5, <3>7 DEF Sealed
      <4>2. (taken[q] + 1)..Len(log[q]) = {}
        BY <1>3, <3>7 DEF Sealed
      <4>3. Kept(q)' = Kept(q)
        BY <3>5, <4>2
      <4> QED BY <2>5, <3>1, <3>3, <3>4, <3>7, <4>1, <4>3 DEF ArrivesOK, Sealed
    <3> QED BY <3>3, <3>6, <3>7 DEF ArrivesOK
  <2> QED BY <2>3, <2>8
<1>10. CASE next = "returned"
  <2>1. phase[r] = "flushing" /\ Stores(r) /\ types = << >>
    BY <1>10 DEF Writes
  <2>2. batch[r] \subseteq Runs \X Nat
    BY <1>1 DEF SavedTypeOK
  <2>3. SavedTypeOK'
    BY <1>1, <2>1, <2>2 DEF SavedTypeOK, Stores
  <2>4. /\ batch'[r] = {} /\ \A q \in Runs \ {r} : batch'[q] = batch[q]
        /\ saved' = saved \cup batch[r] /\ UNCHANGED <<taken, dropped>>
    BY <1>1, <2>1 DEF SavedTypeOK, Stores
  <2>5. Arriving' = Arriving
    BY <2>4 DEF Arriving
  <2>6. ASSUME NEW q \in Runs PROVE StoreOK(q)'
    <3>1. StoreOK(q) /\ Len(log'[q]) = Len(log[q]) /\ (~dropped => Kept(q)' = Kept(q))
      BY <1>1, <1>4, <1>7, <2>1, <2>5
    <3>2. taken'[q] \in 0..Len(log'[q]) /\ (phase'[q] # "flushing" => batch'[q] = {})
      BY <1>2, <1>4, <1>6, <2>4, <3>1 DEF StoreOK
    <3>3. CASE q = r
      <4>1. ~dropped => Level(r) /\ Kept(r) = 1..Len(log[r])
        BY <1>5, <2>1, <3>1, <3>3 DEF StoreOK, ArrivesOK, Sealed
      <4> QED BY <2>4, <2>5, <3>1, <3>2, <3>3, <4>1 DEF StoreOK, ArrivesOK, Level
    <3>4. CASE q # r
      <4>1. phase'[q] = phase[q]
        BY <1>2, <3>4
      <4> QED BY <2>4, <2>5, <3>1, <3>2, <4>1 DEF StoreOK, ArrivesOK, Level, Sealed
    <3> QED BY <3>3, <3>4
  <2> QED BY <2>3, <2>6
<1>11. CASE next = "rejected" /\ phase[r] = "flushing" /\ Loses(r)
  <2>1. SavedTypeOK'
    BY <1>1, <1>11 DEF SavedTypeOK, Loses
  <2>2. /\ batch'[r] = {} /\ \A q \in Runs \ {r} : batch'[q] = batch[q]
        /\ dropped' /\ UNCHANGED taken
    BY <1>1, <1>11 DEF SavedTypeOK, Loses
  <2>3. \A q \in Runs : StoreOK(q)'
    BY <1>1, <1>2, <1>4, <1>6, <2>2 DEF StoreOK
  <2> QED BY <2>1, <2>3
<1> QED BY <1>8, <1>9, <1>10, <1>11 DEF Writes

\* A crash empties memory; if every batch on its way lands, nothing was dropped.
LEMMA StoreCrash ==
  ASSUME SavedInv, Crash
  PROVE  SavedTypeOK' /\ \A r \in Runs : StoreOK(r)'
<1>1. /\ PhasesTypeOK /\ LogsTypeOK /\ SavedTypeOK
      /\ \A q \in Runs : SavedOK(q) /\ StoreOK(q)
  BY DEF SavedInv, RunsTypeOK
<1>2. /\ UNCHANGED <<log, verdict>>
      /\ batch' = [r \in Runs |-> {}] /\ taken' = [r \in Runs |-> Len(log[r])]
      /\ \A r \in Runs : phase'[r] = IF phase[r] \in {"idle", "returned", "rejected"}
                                     THEN phase[r] ELSE "lost"
  BY DEF Crash
<1>3. PICK landed \in SUBSET {r \in Runs : batch[r] # {}} :
        /\ saved' = saved \cup UNION {batch[r] : r \in landed}
        /\ dropped' = (dropped \/ \E r \in Runs \ landed : batch[r] # {})
  BY DEF Crash
<1>4. \A r \in Runs : Len(log[r]) \in Nat /\ DOMAIN log[r] = 1..Len(log[r])
  BY <1>1 DEF LogsTypeOK
<1>5. SavedTypeOK'
  <2>1. UNION {batch[r] : r \in landed} \subseteq Runs \X Nat
    BY <1>1 DEF SavedTypeOK
  <2>2. dropped' \in BOOLEAN
    BY <1>1, <1>3 DEF SavedTypeOK
  <2> QED BY <1>1, <1>2, <1>3, <1>4, <2>1, <2>2 DEF SavedTypeOK
<1>6. ASSUME ~dropped' PROVE ~dropped /\ Arriving' = Arriving
  <2>1. ~dropped /\ \A r \in Runs \ landed : batch[r] = {}
    BY <1>3, <1>6
  <2>2. UNION {batch[r] : r \in landed} = UNION {batch[r] : r \in Runs}
    BY <2>1
  <2>3. Arriving' = saved'
    BY <1>2 DEF Arriving
  <2> QED BY <1>3, <2>1, <2>2, <2>3 DEF Arriving
<1>7. ASSUME NEW r \in Runs PROVE StoreOK(r)'
  <2>1. taken'[r] = Len(log'[r]) /\ taken'[r] \in 0..Len(log'[r]) /\ batch'[r] = {}
    BY <1>2, <1>4
  <2> SUFFICES ASSUME ~dropped' PROVE ArrivesOK(r)'
    BY <2>1 DEF StoreOK
  <2>2. Arriving' = Arriving /\ ArrivesOK(r) /\ taken[r] \in 0..Len(log[r])
    BY <1>1, <1>6 DEF StoreOK
  <2>3. Kept(r)' = Kept(r)
    BY <1>2, <2>2 DEF Kept
  <2>4. \E k \in 0..Len(log[r]) : Kept(r) = 1..k
    BY <2>2 DEF ArrivesOK, Level, Sealed
  <2>5. \A i : <<r, i>> \in Arriving' => i \in 1..taken'[r]
    BY <1>2, <1>4, <2>1, <2>2 DEF ArrivesOK
  <2>6. phase'[r] \in {"flushing", "returned"} => Kept(r)' = 1..Len(log'[r])
    BY <1>2, <2>2, <2>3 DEF ArrivesOK
  <2>7. CASE phase[r] = "idle"
    <3>1. Len(log[r]) = 0
      BY <1>1, <2>7 DEF SavedOK
    <3>2. Kept(r)' = 1..taken'[r]
      BY <1>2, <2>1, <2>3, <2>4, <3>1
    <3> QED BY <2>5, <2>6, <3>2 DEF ArrivesOK, Level
  <2>8. CASE phase[r] # "idle"
    <3>1. phase'[r] \in Ended
      BY <1>2, <2>8 DEF Ended
    <3>2. Sealed(r)'
      BY <1>2, <2>1, <2>3, <2>4, <3>1 DEF Sealed
    <3> QED BY <2>5, <2>6, <3>2 DEF ArrivesOK
  <2> QED BY <2>7, <2>8
<1> QED BY <1>5, <1>7

\* A part of one run leaves every run's tale well told.
LEMMA SavedSegment ==
  ASSUME SavedInv, RunsTypeOK', NEW r \in Runs, Segment(r)
  PROVE  SavedInv'
<1>1. PICK next \in Phases, types \in Seq(EventTypes) : Writes(r, next, types)
  BY SegmentWrites DEF SavedInv, RunsTypeOK
<1>2. /\ PhasesTypeOK /\ LogsTypeOK /\ SavedTypeOK /\ \A q \in Runs : SavedOK(q)
  BY DEF SavedInv, RunsTypeOK
<1>3. Go(r, next, types) /\ phase'[r] = next /\ \A q \in Runs \ {r} : phase'[q] = phase[q]
  BY <1>1, <1>2 DEF Writes, Go, PhasesTypeOK
<1>4. log' \in [Runs -> Seq(Event)] /\ \A q \in Runs \ {r} : log'[q] = log[q]
  BY <1>2, <1>3, Appending
<1>5. /\ verdict' \in [Runs -> Verdicts]
      /\ \A q \in Runs \ {r} : verdict'[q] = verdict[q]
      /\ next # "billing" => verdict'[r] = verdict[r]
      /\ next = "billing" => \E i \in 1..Len(types) : types[i] = Word(verdict'[r])
  <2>1. CASE next = "billing"
    <3>1. PICK v \in Verdicts : /\ verdict' = [verdict EXCEPT ![r] = v]
                                /\ \E i \in 1..Len(types) : types[i] = Word(v)
      BY <1>1, <2>1 DEF Writes
    <3>2. verdict'[r] = v
      BY <1>2, <3>1 DEF SavedTypeOK
    <3> QED BY <1>2, <2>1, <3>1, <3>2 DEF SavedTypeOK
  <2>2. CASE next # "billing"
    <3>1. UNCHANGED verdict
      BY <1>1, <2>2 DEF Writes
    <3> QED BY <1>2, <2>2, <3>1 DEF SavedTypeOK
  <2> QED BY <2>1, <2>2
<1>6. /\ TaleOK(log'[r]) /\ Len(log'[r]) > 0
      /\ next = "approving" => log'[r][Len(log'[r])].type = "ApprovalRequired"
      /\ (\E i \in 1..Len(log'[r]) : log'[r][i].type \in Ending)
           => next \in {"billing", "flushing", "returned", "rejected"}
      /\ \A v : Says(log[r], v) => Says(log'[r], v)
      /\ \A v : (\E i \in 1..Len(types) : types[i] = Word(v)) => Says(log'[r], v)
  BY <1>1, <1>2, TaleGrows
<1>7. SavedTypeOK' /\ \A q \in Runs : StoreOK(q)'
  BY <1>1, <1>2, <1>5, StoreSegment DEF SavedInv
<1>10. ASSUME NEW q \in Runs \ {r} PROVE SavedOK(q)'
  <2>1. SavedOK(q)
    BY <1>2
  <2>2. log'[q] = log[q] /\ phase'[q] = phase[q] /\ verdict'[q] = verdict[q]
    BY <1>3, <1>4, <1>5
  <2> QED BY <2>1, <2>2 DEF SavedOK
<1>11. SavedOK(r)'
  <2>0. SavedOK(r)
    BY <1>2
  <2>1. next # "idle"
    BY <1>1 DEF Writes
  <2>2. next \in {"billing", "flushing", "returned"} => Says(log'[r], verdict'[r])
    <3>1. CASE next = "billing"
      BY <1>5, <1>6, <3>1
    <3>2. CASE next \in {"flushing", "returned"}
      <4>1. phase[r] \in {"billing", "flushing"} /\ verdict'[r] = verdict[r]
        BY <1>1, <1>5, <3>2 DEF Writes
      <4> QED BY <1>6, <2>0, <4>1 DEF SavedOK
    <3> QED BY <3>1, <3>2
  <2> QED BY <1>3, <1>6, <2>1, <2>2 DEF SavedOK
<1> QED BY <1>7, <1>10, <1>11 DEF SavedInv

\* Nothing is told at first.
LEMMA SavedStarts == RunnerInit => SavedInv
<1> SUFFICES ASSUME RunnerInit PROVE SavedInv
  OBVIOUS
<1>1. RunsTypeOK
  BY RunsStart
<1>2. SavedTypeOK
  <2>1. None \in Verdicts
    BY DEF Verdicts
  <2> QED BY <2>1 DEF RunnerInit, SavedTypeOK
<1>3. TaleOK(<< >>)
  BY DEF TaleOK
<1>4. ASSUME NEW r \in Runs PROVE SavedOK(r)
  <2>1. log[r] = << >> /\ phase[r] = "idle" /\ Len(<< >>) = 0
    BY DEF RunnerInit
  <2> QED BY <1>3, <2>1 DEF SavedOK
<1>5. ASSUME NEW r \in Runs PROVE StoreOK(r)
  <2>1. /\ log[r] = << >> /\ Len(log[r]) = 0 /\ DOMAIN log[r] = {}
        /\ taken[r] = 0 /\ batch[r] = {} /\ phase[r] = "idle"
    BY DEF RunnerInit
  <2>2. Arriving = {}
    BY DEF RunnerInit, Arriving
  <2>3. Kept(r) = {} /\ 1..0 = {}
    BY <2>1 DEF Kept
  <2> QED BY <2>1, <2>2, <2>3 DEF StoreOK, ArrivesOK, Level
<1> QED BY <1>1, <1>2, <1>4, <1>5 DEF SavedInv

\* Neither the runs nor a crash spoil what is told.
LEMMA SavedSteps ==
  SavedInv /\ [RunnerNext]_<<runnerVars, immuneVars>> /\ RunsTypeOK' => SavedInv'
<1> SUFFICES ASSUME SavedInv, [RunnerNext]_<<runnerVars, immuneVars>>, RunsTypeOK' PROVE SavedInv'
  OBVIOUS
<1>1. ASSUME NEW r \in Runs, Segment(r) PROVE SavedInv'
  BY <1>1, SavedSegment
<1>2. ASSUME UNCHANGED <<phase, log, storeVars, verdict>> PROVE SavedInv'
  <2>1. \A r \in Runs : SavedOK(r)' /\ StoreOK(r)'
    BY <1>2 DEF SavedInv, SavedOK, StoreOK, ArrivesOK, Level, Sealed, Kept, Arriving, storeVars
  <2> QED BY <1>2, <2>1 DEF SavedInv, SavedTypeOK, storeVars
<1>3. ASSUME NEW g \in MayDeny, Deny(g) PROVE SavedInv'
  BY <1>2, <1>3 DEF Deny
<1>4. CASE Crash
  <2>1. /\ UNCHANGED <<log, verdict>>
        /\ \A r \in Runs : phase'[r] = IF phase[r] \in {"idle", "returned", "rejected"}
                                       THEN phase[r] ELSE "lost"
    BY <1>4 DEF Crash
  <2>2. ASSUME NEW r \in Runs PROVE SavedOK(r)'
    <3>1. SavedOK(r)
      BY DEF SavedInv
    <3>2. phase'[r] = phase[r] \/ (phase'[r] = "lost" /\ phase[r] # "idle")
      BY <2>1
    <3>3. (\E i \in 1..Len(log[r]) : log[r][i].type \in Ending)
            => phase'[r] \in {"billing", "flushing", "returned", "rejected", "lost"}
      BY <3>1, <3>2 DEF SavedOK
    <3> QED BY <2>1, <3>1, <3>2, <3>3 DEF SavedOK
  <2>3. SavedTypeOK' /\ \A r \in Runs : StoreOK(r)'
    BY <1>4, StoreCrash
  <2> QED BY <2>2, <2>3 DEF SavedInv
<1>5. CASE UNCHANGED <<runnerVars, immuneVars>>
  BY <1>2, <1>5 DEF runnerVars
<1> QED BY <1>1, <1>3, <1>4, <1>5 DEF RunnerNext

\* A beginning of a sequence of events.
LEMMA Beginning ==
  ASSUME NEW l \in Seq(Event), NEW k \in 0..Len(l)
  PROVE  /\ SubSeq(l, 1, k) \in Seq(Event) /\ Len(SubSeq(l, 1, k)) = k
         /\ \A i \in 1..k : SubSeq(l, 1, k)[i] = l[i]
OBVIOUS

\* What arrives of a run begins as its log does, and is well told; it is the
\* whole log of a run that returned.
LEMMA StoredTale ==
  ASSUME SavedInv, ~dropped
  PROVE  /\ Stored \in [Runs -> Seq(Event)]
         /\ \A r \in Runs : TaleOK(Stored[r])
         /\ \A r \in Runs : phase[r] = "returned" => Says(Stored[r], verdict[r])
         /\ \A r \in Runs : Kept(r) = 1..Cardinality(Kept(r))
<1>1. LogsTypeOK /\ \A r \in Runs : SavedOK(r) /\ StoreOK(r)
  BY DEF SavedInv, RunsTypeOK
<1>2. ASSUME NEW r \in Runs
      PROVE  /\ Kept(r) = 1..Cardinality(Kept(r)) /\ Stored[r] \in Seq(Event)
             /\ TaleOK(Stored[r])
             /\ phase[r] = "returned" => Says(Stored[r], verdict[r])
  <2> DEFINE l == log[r]
             n == Cardinality(Kept(r))
             p == SubSeq(l, 1, n)
  <2>1. l \in Seq(Event) /\ Len(l) \in Nat /\ ArrivesOK(r) /\ taken[r] \in 0..Len(l)
    BY <1>1 DEF LogsTypeOK, StoreOK
  <2>2. \E k \in 0..Len(l) : Kept(r) = 1..k
    BY <2>1 DEF ArrivesOK, Level, Sealed
  <2>3. n \in 0..Len(l) /\ Kept(r) = 1..n
    <3>1. PICK k \in 0..Len(l) : Kept(r) = 1..k
      BY <2>2
    <3>2. Cardinality(1..k) = k
      BY <2>1, FS_Interval
    <3> QED BY <3>1, <3>2
  <2>4. Stored[r] = p
    BY DEF Stored
  <2>5. phase[r] = "returned" => n = Len(l)
    <3> SUFFICES ASSUME phase[r] = "returned" PROVE n = Len(l)
      OBVIOUS
    <3>1. Kept(r) = 1..Len(l)
      BY <2>1 DEF ArrivesOK
    <3>2. Cardinality(1..Len(l)) = Len(l)
      BY <2>1, FS_Interval
    <3> QED BY <3>1, <3>2
  <2>6. TaleOK(l) /\ (phase[r] = "returned" => Says(l, verdict[r]))
    BY <1>1 DEF SavedOK
  <2> HIDE DEF n, l
  <2>7. p \in Seq(Event) /\ Len(p) = n /\ \A i \in 1..n : p[i] = l[i]
    BY <2>1, <2>3, Beginning
  <2>8. \A i \in 1..n : i \in 1..Len(l)
    BY <2>1, <2>3
  <2> HIDE DEF p
  <2>9. TaleOK(p)
    <3>1. Len(p) > 0 => p[1].type = "RunCreated"
      <4>1. n > 0 => 1 \in 1..n /\ Len(l) > 0
        BY <2>1, <2>3
      <4> QED BY <2>6, <2>7, <4>1 DEF TaleOK
    <3>2. \A i, j \in 1..n : p[i].type \in Ending /\ p[j].type \in Ending => i = j
      BY <2>6, <2>7, <2>8 DEF TaleOK
    <3>3. ASSUME NEW i \in 1..n, p[i].type = "ApprovalGranted"
          PROVE  i > 1 /\ p[i - 1].type = "ApprovalRequired"
      <4>1. i > 1 /\ l[i - 1].type = "ApprovalRequired"
        BY <2>6, <2>7, <2>8, <3>3 DEF TaleOK
      <4>2. i - 1 \in 1..n
        BY <2>3, <4>1
      <4> QED BY <2>7, <4>1, <4>2
    <3> QED BY <2>7, <3>1, <3>2, <3>3 DEF TaleOK
  <2>10. phase[r] = "returned" => Says(p, verdict[r])
    <3> SUFFICES ASSUME phase[r] = "returned" PROVE Says(p, verdict[r])
      OBVIOUS
    <3>1. PICK i \in 1..Len(l) : l[i].type = Word(verdict[r])
      BY <2>6 DEF Says
    <3>2. i \in 1..Len(p) /\ p[i].type = Word(verdict[r])
      BY <2>5, <2>7, <3>1
    <3> QED BY <3>2 DEF Says
  <2> QED BY <2>3, <2>4, <2>7, <2>9, <2>10 DEF n
<1>3. Stored \in [Runs -> Seq(Event)]
  <2>1. Stored = [r \in Runs |-> Stored[r]]
    BY DEF Stored
  <2> QED BY <1>2, <2>1
<1> QED BY <1>2, <1>3

\* What is told of the store is told of every run that returned.
LEMMA SavedTells ==
  ASSUME SavedInv
  PROVE  ReturnedSurvives
<1> SUFFICES ASSUME ~dropped PROVE ReturnedSurvives
  BY DEF ReturnedSurvives
<1> DEFINE C == Written(Stored, {"TaskCompleted"})
           F == Written(Stored, {"TaskFailed"})
           R == Written(Stored, {"RunCreated"})
           G == Written(Stored, {"ApprovalGranted"})
           A == Written(Stored, {"ApprovalRequired"})
<1>1. /\ Stored \in [Runs -> Seq(Event)]
      /\ \A r \in Runs : TaleOK(Stored[r])
      /\ \A r \in Runs : phase[r] = "returned" => Says(Stored[r], verdict[r])
      /\ \A r \in Runs : Kept(r) = 1..Cardinality(Kept(r))
  BY StoredTale
<1>2. \A T : IsFiniteSet(Written(Stored, T))
  BY <1>1, LedgerCounts
<1>3. /\ ProjectSystem(Ledger(Stored)).runs = Fold(RunReducer, Ledger(Stored))
      /\ ProjectSystem(Ledger(Stored)).approvals = Fold(ApprovalReducer, Ledger(Stored))
  BY DEF ProjectSystem
<1>3a. ASSUME NEW red, NEW name, NEW type, type \in DOMAIN red, red[type] = name,
              \A t \in DOMAIN red : red[t] = name => t = type
       PROVE  Fold(red, Ledger(Stored))[name] = Cardinality(Written(Stored, {type}))
  BY <1>1, <1>3a, ProjectedCount
<1>4. Fold(RunReducer, Ledger(Stored))["completed"] = Cardinality(C)
  <2>1. "TaskCompleted" \in DOMAIN RunReducer /\ RunReducer["TaskCompleted"] = "completed"
    BY DEF RunReducer
  <2>2. \A t \in DOMAIN RunReducer : RunReducer[t] = "completed" => t = "TaskCompleted"
    BY DEF RunReducer
  <2> QED BY ONLY <2>1, <2>2, <1>3a
<1>5. Fold(RunReducer, Ledger(Stored))["failed"] = Cardinality(F)
  <2>1. "TaskFailed" \in DOMAIN RunReducer /\ RunReducer["TaskFailed"] = "failed"
    BY DEF RunReducer
  <2>2. \A t \in DOMAIN RunReducer : RunReducer[t] = "failed" => t = "TaskFailed"
    BY DEF RunReducer
  <2> QED BY ONLY <2>1, <2>2, <1>3a
<1>6. Fold(RunReducer, Ledger(Stored))["runs"] = Cardinality(R)
  <2>1. "RunCreated" \in DOMAIN RunReducer /\ RunReducer["RunCreated"] = "runs"
    BY DEF RunReducer
  <2>2. \A t \in DOMAIN RunReducer : RunReducer[t] = "runs" => t = "RunCreated"
    BY DEF RunReducer
  <2> QED BY ONLY <2>1, <2>2, <1>3a
<1>7. Fold(ApprovalReducer, Ledger(Stored))["granted"] = Cardinality(G)
  <2>1. "ApprovalGranted" \in DOMAIN ApprovalReducer /\ ApprovalReducer["ApprovalGranted"] = "granted"
    BY DEF ApprovalReducer
  <2>2. \A t \in DOMAIN ApprovalReducer : ApprovalReducer[t] = "granted" => t = "ApprovalGranted"
    BY DEF ApprovalReducer
  <2> QED BY ONLY <2>1, <2>2, <1>3a
<1>8. Fold(ApprovalReducer, Ledger(Stored))["required"] = Cardinality(A)
  <2>1. "ApprovalRequired" \in DOMAIN ApprovalReducer /\ ApprovalReducer["ApprovalRequired"] = "required"
    BY DEF ApprovalReducer
  <2>2. \A t \in DOMAIN ApprovalReducer : ApprovalReducer[t] = "required" => t = "ApprovalRequired"
    BY DEF ApprovalReducer
  <2> QED BY ONLY <2>1, <2>2, <1>3a
<1>9. ASSUME NEW v \in BOOLEAN, NEW W, W = Written(Stored, {IF v THEN "TaskCompleted" ELSE "TaskFailed"})
      PROVE  Cardinality(Answered(v)) <= Cardinality(W)
  <2>1. \A r \in Answered(v) : \E i \in Nat : <<r, i>> \in W
    <3> SUFFICES ASSUME NEW r \in Answered(v) PROVE \E i \in Nat : <<r, i>> \in W
      OBVIOUS
    <3>1. r \in Runs /\ phase[r] = "returned" /\ (verdict[r] = "PASSED") = v
      BY DEF Answered
    <3>2. PICK i \in 1..Len(Stored[r]) : Stored[r][i].type = Word(verdict[r])
      BY <1>1, <3>1 DEF Says
    <3>3. Word(verdict[r]) = IF v THEN "TaskCompleted" ELSE "TaskFailed"
      BY <3>1 DEF Word
    <3>4. i \in Nat /\ <<r, i>> \in W
      BY <1>9, <3>1, <3>2, <3>3 DEF Written
    <3> QED BY <3>4
  <2> DEFINE f == [r \in Answered(v) |-> <<r, CHOOSE i \in Nat : <<r, i>> \in W>>]
  <2>2. f \in [Answered(v) -> W]
    BY <2>1
  <2>3. \A a, b \in Answered(v) : f[a] = f[b] => a = b
    OBVIOUS
  <2>4. IsFiniteSet(W)
    BY <1>2, <1>9
  <2> HIDE DEF f
  <2> QED BY ONLY <2>2, <2>3, <2>4, NoLarger
<1>10. Cardinality(Answered(TRUE)) <= Cardinality(C)
  <2>1. C = Written(Stored, {IF TRUE THEN "TaskCompleted" ELSE "TaskFailed"})
    OBVIOUS
  <2> HIDE DEF C
  <2> QED BY <1>9, <2>1
<1>11. Cardinality(Answered(FALSE)) <= Cardinality(F)
  <2>1. F = Written(Stored, {IF FALSE THEN "TaskCompleted" ELSE "TaskFailed"})
    OBVIOUS
  <2> HIDE DEF F
  <2> QED BY <1>9, <2>1
<1>12. Cardinality(C) + Cardinality(F) <= Cardinality(R)
  <2> DEFINE f == [p \in C \cup F |-> <<p[1], 1>>]
  <2>0. \A p \in C \cup F : /\ p[1] \in Runs /\ p[2] \in 1..Len(Stored[p[1]]) /\ p = <<p[1], p[2]>>
                            /\ Stored[p[1]][p[2]].type \in Ending
    BY DEF Written, Ending
  <2>1. f \in [C \cup F -> R]
    <3>1. ASSUME NEW p \in C \cup F PROVE <<p[1], 1>> \in R
      <4>1. p[1] \in Runs /\ p[2] \in 1..Len(Stored[p[1]])
        BY <2>0
      <4>2. Len(Stored[p[1]]) \in Nat
        BY <1>1, <4>1
      <4>3. Len(Stored[p[1]]) > 0 /\ 1 \in 1..Len(Stored[p[1]])
        BY <4>1, <4>2
      <4>4. Stored[p[1]][1].type = "RunCreated"
        BY <1>1, <4>1, <4>3 DEF TaleOK
      <4> QED BY <4>1, <4>3, <4>4 DEF Written
    <3> HIDE DEF C, F, R
    <3> QED BY <3>1
  <2>2. \A p, q \in C \cup F : f[p] = f[q] => p = q
    <3> SUFFICES ASSUME NEW p \in C \cup F, NEW q \in C \cup F, f[p] = f[q] PROVE p = q
      OBVIOUS
    <3> HIDE DEF C, F
    <3>1. p[1] = q[1]
      OBVIOUS
    <3>2. TaleOK(Stored[p[1]])
      BY <1>1, <2>0
    <3>3. p[2] = q[2]
      BY <2>0, <3>1, <3>2 DEF TaleOK
    <3> QED BY <2>0, <3>1, <3>3
  <2>3. IsFiniteSet(C) /\ IsFiniteSet(F) /\ IsFiniteSet(R)
    BY <1>2
  <2>4. C \cap F = {}
    BY DEF Written
  <2> HIDE DEF C, F, R, f
  <2>5. Cardinality(C \cup F) <= Cardinality(R)
    BY ONLY <2>1, <2>2, <2>3, NoLarger
  <2>6. Cardinality(C \cup F) = Cardinality(C) + Cardinality(F)
    BY ONLY <2>3, <2>4, Apart
  <2> QED BY <2>5, <2>6
<1>13. Cardinality(G) <= Cardinality(A)
  <2> DEFINE f == [p \in G |-> <<p[1], p[2] - 1>>]
  <2>0. \A p \in G : /\ p[1] \in Runs /\ p[2] \in 1..Len(Stored[p[1]]) /\ p = <<p[1], p[2]>>
                     /\ Stored[p[1]][p[2]].type = "ApprovalGranted"
    BY DEF Written
  <2>1. f \in [G -> A]
    <3>1. ASSUME NEW p \in G PROVE <<p[1], p[2] - 1>> \in A
      <4>1. p[1] \in Runs /\ p[2] \in 1..Len(Stored[p[1]])
        BY <2>0
      <4>2. Len(Stored[p[1]]) \in Nat
        BY <1>1, <4>1
      <4>3. TaleOK(Stored[p[1]])
        BY <1>1, <4>1
      <4>4. p[2] > 1 /\ Stored[p[1]][p[2] - 1].type = "ApprovalRequired"
        BY <2>0, <4>1, <4>3 DEF TaleOK
      <4>5. p[2] - 1 \in 1..Len(Stored[p[1]]) /\ p[2] - 1 \in Nat
        BY <4>1, <4>2, <4>4
      <4> QED BY <4>1, <4>4, <4>5 DEF Written
    <3> HIDE DEF G, A
    <3> QED BY <3>1
  <2>2. \A p, q \in G : f[p] = f[q] => p = q
    <3> SUFFICES ASSUME NEW p \in G, NEW q \in G, f[p] = f[q] PROVE p = q
      OBVIOUS
    <3> HIDE DEF G
    <3>1. p[1] = q[1] /\ p[2] - 1 = q[2] - 1
      OBVIOUS
    <3>2. p[2] \in Int /\ q[2] \in Int
      BY <2>0
    <3>3. p[2] = q[2]
      BY ONLY <3>1, <3>2
    <3> QED BY <2>0, <3>1, <3>3
  <2>3. IsFiniteSet(A)
    BY <1>2
  <2> HIDE DEF G, A, f
  <2> QED BY ONLY <2>1, <2>2, <2>3, NoLarger
<1> HIDE DEF C, F, R, G, A
<1> QED
  <2>1. /\ Cardinality(Answered(TRUE)) \in Nat /\ Cardinality(Answered(FALSE)) \in Nat
        /\ Cardinality(C) \in Nat /\ Cardinality(F) \in Nat /\ Cardinality(R) \in Nat
        /\ Cardinality(G) \in Nat /\ Cardinality(A) \in Nat
    <3>1. /\ IsFiniteSet(C) /\ IsFiniteSet(F) /\ IsFiniteSet(R) /\ IsFiniteSet(G) /\ IsFiniteSet(A)
      BY <1>2 DEF C, F, R, G, A
    <3>2. \A v \in BOOLEAN : Answered(v) \in SUBSET Runs
      BY DEF Answered
    <3>3. IsFiniteSet(Answered(TRUE)) /\ IsFiniteSet(Answered(FALSE))
      BY <3>2, RunnerAssumption, FS_Subset
    <3> QED BY ONLY <3>1, <3>3, FS_CardinalityType
  <2> QED
    BY <1>1, <1>3, <1>4, <1>5, <1>6, <1>7, <1>8, <1>10, <1>11, <1>12, <1>13, <2>1
       DEF ReturnedSurvives

\* What a caller was told survives, unless a batch is dropped: the read models
\* rebuilt from what arrives count each run that returned under its verdict.
THEOREM ReturnedSurvivesHolds == RunnerSpec => []ReturnedSurvives
<1>1. RunnerInit => QuotaInv /\ SavedInv
  BY QuotaStarts, SavedStarts
<1>2. QuotaInv /\ SavedInv /\ [RunnerNext]_<<runnerVars, immuneVars>> => (QuotaInv /\ SavedInv)'
  BY QuotaSteps, RunsSteps, SavedSteps DEF SavedInv
<1> QED
  BY <1>1, <1>2, SavedTells, PTL DEF RunnerSpec
=============================================================================
