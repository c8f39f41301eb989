--------------------------- MODULE ImmuneRuntime ---------------------------
(***************************************************************************)
(* The immune runtime (kernel/immune/src/runtime.ts): what it does with the*)
(* gate's decisions, over the quarantine records, the kill switch, the     *)
(* incidents, the level and the metrics.  All of it is synchronous: one    *)
(* call is one step, and a call that throws keeps what it had assigned     *)
(* before.  The ledger entries of an incident, one for each of its states, *)
(* are left out.                                                           *)
(***************************************************************************)
EXTENDS ImmuneGate

CONSTANTS
  Entities,     \* the ids of principals that make requests and are killed
  Requests,     \* what they ask for: [principal, capability, observation, blastRadius]
  Configs,      \* the configurations of the gate to start with
  MaxIncidents, \* bound on incidents opened
  MaxKills      \* bound on kill requests

VARIABLES
  config,      \* ImmuneGate.config
  records,     \* Quarantine.records: id -> None or [state, full]
  killed,      \* KillSwitch.killed: pairs of target type and id
  incidents,   \* IncidentEngine.incidents, in the order they were opened
  immuneLevel, \* ImmuneRuntime.currentLevel
  counts       \* MetricsCollector, the counters that runtime.ts advances

immuneVars == <<config, records, killed, incidents, immuneLevel, counts>>

-----------------------------------------------------------------------------
(* quarantine.ts, incident.ts: table-driven, an event without entry throws *)

QuarantineMachine ==
  [ACTIVE      |-> [flag |-> "SUSPICIOUS"],
   SUSPICIOUS  |-> [quarantine |-> "QUARANTINED"],
   QUARANTINED |-> [analyze |-> "ANALYSIS"],
   ANALYSIS    |-> [recover |-> "RECOVERED", revoke |-> "REVOKED"],
   RECOVERED   |-> << >>,
   REVOKED     |-> << >>]

QuarantineState == DOMAIN QuarantineMachine

\* full: FULL_QUARANTINE, every restriction; otherwise NORMAL_RESTRICTIONS.
QuarantineRecord == [state : QuarantineState, full : BOOLEAN]

IncidentMachine ==
  [DETECTED   |-> [classify |-> "CLASSIFIED"],
   CLASSIFIED |-> [contain |-> "CONTAINED"],
   CONTAINED  |-> [recover |-> "RECOVERING"],
   RECOVERING |-> [verify |-> "VERIFIED"],
   VERIFIED   |-> [close |-> "CLOSED"],
   CLOSED     |-> << >>]

IncidentState == DOMAIN IncidentMachine

Can(machine, state, event) == event \in DOMAIN machine[state]

\* A variant that lifts the restrictions as soon as the analysis starts.
MovedEagerly(record, event) ==
  LET next == QuarantineMachine[record.state][event]
  IN [state |-> next, full |-> record.full /\ next = "QUARANTINED"]

\* Quarantine.transition: the record's restrictions stay, unless it recovers.
Moved(record, event) ==
  LET next == QuarantineMachine[record.state][event]
  IN [state |-> next, full |-> record.full /\ next # "RECOVERED"]

CanQuarantine(id) ==
  records[id] # None => Can(QuarantineMachine, records[id].state, "quarantine")

\* Quarantine.quarantine: a fresh record, or a transition of the one there is.
Quarantined(id) ==
  IF records[id] = None THEN [state |-> "QUARANTINED", full |-> TRUE]
  ELSE Moved(records[id], "quarantine")

IsQuarantined(id) ==
  records[id] # None /\ records[id].state \in {"QUARANTINED", "ANALYSIS"}

\* No record is None, principals are known by their id, and the level of a
\* configuration is one of types.ts.
ASSUME ImmuneAssumption ==
  /\ IsFiniteSet(Entities) /\ None \notin QuarantineRecord
  /\ \A r \in Requests : r.principal.id \in Entities
  /\ \A c \in Configs : c.level \in ImmunityLevels

-----------------------------------------------------------------------------
ImmuneInit ==
  /\ config \in Configs
  /\ records = [id \in Entities |-> None]
  /\ killed = {} /\ incidents = << >>
  /\ immuneLevel = config.level
  /\ counts = [quarantines |-> 0, kills |-> 0, incidents |-> 0, violations |-> 0]

\* A variant that passes the type of the principal on.
KillTargetForAny(type) == type

KillTargetFor(type) ==
  CASE type = "agent" -> "agent"
    [] type \in {"plugin", "tool"} -> "plugin"
    [] type = "runner" -> "runner"
    [] OTHER -> "run"

\* ImmuneRuntime.apply isolates for these decisions, and for no other.
Isolates(decision) ==
  /\ decision.action \notin {"allow", "monitor", "restrict"}
  /\ \/ decision.action \in {"quarantine", "kill"}
     \/ decision.level \in {"RED", "BLACK"}

\* A variant with the level of the latest incident.
OpenIncidentLatest(id, decision) ==
  /\ incidents' = Append(incidents, [entity |-> id, state |-> "CONTAINED",
                                     level |-> decision.level])
  /\ immuneLevel' = decision.level

\* openIncident: detect, classify and contain; and the level is raised.
OpenIncident(id, decision) ==
  /\ incidents' = Append(incidents, [entity |-> id, state |-> "CONTAINED",
                                     level |-> decision.level])
  /\ immuneLevel' = MaxLevel(immuneLevel, decision.level)

\* evaluateAndApply of a decision that isolates: quarantine, kill, incident.
\* Where the entity's record cannot be quarantined again it throws before any
\* of them: no step.
Isolate(request) ==
  LET decision == Evaluate(config, request)
      id == request.principal.id
      kills == decision.action = "kill"
  IN /\ Isolates(decision) /\ CanQuarantine(id)
     /\ Len(incidents) < MaxIncidents
     /\ records' = [records EXCEPT ![id] = Quarantined(id)]
     /\ killed' = killed \cup
          (IF kills THEN {<<KillTargetFor(request.principal.type), id>>} ELSE {})
     /\ counts' = [counts EXCEPT !.quarantines = @ + 1, !.incidents = @ + 1,
                                 !.kills = @ + (IF kills THEN 1 ELSE 0)]
     /\ OpenIncident(id, decision)
     /\ UNCHANGED config

\* safe mode or the level refuse the request: a policy violation is counted.
Refuse(request) ==
  /\ Evaluate(config, request).action = "restrict"
  /\ counts.violations < MaxIncidents
  /\ counts' = [counts EXCEPT !.violations = @ + 1]
  /\ UNCHANGED <<config, records, killed, incidents, immuneLevel>>

\* ImmuneRuntime.kill and requestKill: the switch first, then the quarantine.
\* An agent's request goes through the policy, which may refuse it or ask for
\* an approval nobody gives; the immune system's own is always applied.
PolicyAnswers == [allowed : BOOLEAN, approvalRequired : BOOLEAN]

Approves(requester, answer) ==
  \/ requester = "immune"
  \/ requester = "agent" /\ answer.allowed /\ ~answer.approvalRequired

\* A variant that counts before the quarantine, which may throw.
KillCountedFirst(requester, answer, type, id) ==
  /\ Cardinality(killed) < MaxKills
  /\ Approves(requester, answer)
  /\ killed' = killed \cup {<<type, id>>}
  /\ counts' = [counts EXCEPT !.quarantines = @ + 1, !.kills = @ + 1]
  /\ records' = IF CanQuarantine(id) THEN [records EXCEPT ![id] = Quarantined(id)] ELSE records
  /\ UNCHANGED <<config, incidents, immuneLevel>>

Kill(requester, answer, type, id) ==
  /\ Cardinality(killed) < MaxKills
  /\ Approves(requester, answer)
  /\ killed' = killed \cup {<<type, id>>}
  /\ IF CanQuarantine(id)
     THEN /\ records' = [records EXCEPT ![id] = Quarantined(id)]
          /\ counts' = [counts EXCEPT !.quarantines = @ + 1, !.kills = @ + 1]
     ELSE UNCHANGED <<records, counts>> \* throws
  /\ UNCHANGED <<config, incidents, immuneLevel>>

\* Quarantine.flag
Flag(id) ==
  /\ records[id] = None
  /\ records' = [records EXCEPT ![id] = [state |-> "SUSPICIOUS", full |-> FALSE]]
  /\ UNCHANGED <<config, killed, incidents, immuneLevel, counts>>

\* Quarantine.analyze, recover and revoke, through must().
Handle(id, event) ==
  /\ records[id] # None /\ Can(QuarantineMachine, records[id].state, event)
  /\ records' = [records EXCEPT ![id] = Moved(@, event)]
  /\ UNCHANGED <<config, killed, incidents, immuneLevel, counts>>

\* IncidentEngine.recover, verify and close.
Advance(i, event) ==
  /\ Can(IncidentMachine, incidents[i].state, event)
  /\ incidents' = [incidents EXCEPT ![i].state = IncidentMachine[@][event]]
  /\ UNCHANGED <<config, records, killed, immuneLevel, counts>>

ImmuneNext ==
  \/ \E r \in Requests : Isolate(r) \/ Refuse(r)
  \/ \E who \in {"agent", "immune"}, answer \in PolicyAnswers,
        type \in {"agent", "run"}, id \in Entities : Kill(who, answer, type, id)
  \/ \E id \in Entities :
       Flag(id) \/ \E event \in {"analyze", "recover", "revoke"} : Handle(id, event)
  \/ \E i \in DOMAIN incidents, event \in {"recover", "verify", "close"} : Advance(i, event)

ImmuneSpec == ImmuneInit /\ [][ImmuneNext]_immuneVars

\* ImmuneRuntime.level
RuntimeLevel == MaxLevel(immuneLevel, GateLevel(config))

\* HealthModel.snapshot: the status an operator is shown.
HealthStatus(runnersQuarantined) ==
  LET order == ImmunityOrder[RuntimeLevel] IN
  IF order >= 4 THEN "locked"
  ELSE IF order = 3 THEN "critical"
  ELSE IF order >= 1 \/ runnersQuarantined > 0 \/ incidents # << >> THEN "degraded"
  ELSE "healthy"

-----------------------------------------------------------------------------
(* Properties                                                              *)

ImmuneTypeOK ==
  /\ records \in [Entities -> QuarantineRecord \cup {None}]
  /\ killed \subseteq {"run", "agent", "plugin", "runner"} \X Entities
  /\ \A i \in DOMAIN incidents : incidents[i].state \in IncidentState
  /\ immuneLevel \in ImmunityLevels

Isolated == {id \in Entities : records[id] # None /\ records[id].state # "SUSPICIOUS"}

\* Whatever throws half way through apply(), kill() and requestKill(): nothing
\* is on the kill list without having been quarantined, and the metrics an
\* operator reads count each entity's isolation once and no kill twice
\* (runtime.ts:101-120, 142-167).
IsolationCounted ==
  /\ \A k \in killed : k[2] \in Isolated
  /\ counts.quarantines = Cardinality(Isolated)
  /\ counts.kills <= Cardinality({k[2] : k \in killed})
  /\ counts.incidents = Len(incidents)

\* What health says never forgets an incident (runtime.ts:169-182, health.ts):
\* after one of level BLACK the status stays locked and after one of level RED
\* it is never better than critical, in whatever order milder incidents,
\* recoveries and closings follow.
HealthTells ==
  \A i \in DOMAIN incidents :
    /\ incidents[i].level = "BLACK" => HealthStatus(0) = "locked"
    /\ incidents[i].level = "RED" => HealthStatus(0) \in {"critical", "locked"}

\* Restrictions are lifted by recover() after an analysis, and by nothing else
\* that happens to the entity (quarantine.ts:78-83, 119).
OnlyRecoveryLifts ==
  [][\A id \in Entities :
       records[id] # None /\ records[id].full =>
         \/ records'[id].full
         \/ records[id].state = "ANALYSIS" /\ records'[id].state = "RECOVERED"]_immuneVars
=============================================================================
