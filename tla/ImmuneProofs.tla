---------------------------- MODULE ImmuneProofs ----------------------------
(***************************************************************************)
(* The immune runtime and its gate, for all entities, requests and         *)
(* configurations.  What the list of kills, the records and the metrics say*)
(* of each other is inductive with the types of the records: an isolation  *)
(* counts once because a record that was isolated cannot be quarantined    *)
(* again.  What health says of the incidents needs that the level of the   *)
(* runtime is at least the level of each of them.                          *)
(***************************************************************************)
EXTENDS ImmuneRuntime, GateProbe, Induction, TLAPS

-----------------------------------------------------------------------------
(* The tables                                                              *)

\* The quarantine's table: one state can be quarantined, and what analysis,
\* recovery and revocation lead to is never back to suspicion.
LEMMA QuarantineTable ==
  /\ "SUSPICIOUS" \in QuarantineState /\ "QUARANTINED" \in QuarantineState
  /\ \A state \in QuarantineState :
       Can(QuarantineMachine, state, "quarantine") <=> state = "SUSPICIOUS"
  /\ QuarantineMachine["SUSPICIOUS"]["quarantine"] = "QUARANTINED"
  /\ \A state \in QuarantineState, event \in {"analyze", "recover", "revoke"} :
       Can(QuarantineMachine, state, event) =>
         /\ state \notin {"ACTIVE", "SUSPICIOUS"}
         /\ QuarantineMachine[state][event] \in QuarantineState \ {"SUSPICIOUS"}
         /\ QuarantineMachine[state][event] = "RECOVERED" => state = "ANALYSIS"
<1>1. QuarantineState =
        {"ACTIVE", "SUSPICIOUS", "QUARANTINED", "ANALYSIS", "RECOVERED", "REVOKED"}
  BY DEF QuarantineState, QuarantineMachine
<1>2. /\ DOMAIN QuarantineMachine["ACTIVE"] = {"flag"}
      /\ DOMAIN QuarantineMachine["SUSPICIOUS"] = {"quarantine"}
      /\ DOMAIN QuarantineMachine["QUARANTINED"] = {"analyze"}
      /\ DOMAIN QuarantineMachine["ANALYSIS"] = {"recover", "revoke"}
      /\ DOMAIN QuarantineMachine["RECOVERED"] = {}
      /\ DOMAIN QuarantineMachine["REVOKED"] = {}
  BY DEF QuarantineMachine
<1>3. /\ QuarantineMachine["SUSPICIOUS"]["quarantine"] = "QUARANTINED"
      /\ QuarantineMachine["QUARANTINED"]["analyze"] = "ANALYSIS"
      /\ QuarantineMachine["ANALYSIS"]["recover"] = "RECOVERED"
      /\ QuarantineMachine["ANALYSIS"]["revoke"] = "REVOKED"
  BY DEF QuarantineMachine
<1> QED BY <1>1, <1>2, <1>3 DEF Can

\* The incidents' table leads from states to states.
LEMMA IncidentTable ==
  /\ "CONTAINED" \in IncidentState
  /\ \A state \in IncidentState, event \in {"recover", "verify", "close"} :
       Can(IncidentMachine, state, event) => IncidentMachine[state][event] \in IncidentState
<1>1. IncidentState =
        {"DETECTED", "CLASSIFIED", "CONTAINED", "RECOVERING", "VERIFIED", "CLOSED"}
  BY DEF IncidentState, IncidentMachine
<1>2. /\ DOMAIN IncidentMachine["DETECTED"] = {"classify"}
      /\ DOMAIN IncidentMachine["CLASSIFIED"] = {"contain"}
      /\ DOMAIN IncidentMachine["CONTAINED"] = {"recover"}
      /\ DOMAIN IncidentMachine["RECOVERING"] = {"verify"}
      /\ DOMAIN IncidentMachine["VERIFIED"] = {"close"}
      /\ DOMAIN IncidentMachine["CLOSED"] = {}
  BY DEF IncidentMachine
<1>3. /\ IncidentMachine["CONTAINED"]["recover"] = "RECOVERING"
      /\ IncidentMachine["RECOVERING"]["verify"] = "VERIFIED"
      /\ IncidentMachine["VERIFIED"]["close"] = "CLOSED"
  BY DEF IncidentMachine
<1> QED BY <1>1, <1>2, <1>3 DEF Can

\* The levels and their order.
LEMMA Levels ==
  /\ ImmunityLevels = {"GREEN", "YELLOW", "ORANGE", "RED", "BLACK"}
  /\ \A level \in ImmunityLevels : ImmunityOrder[level] \in 0..4
  /\ ImmunityOrder["GREEN"] = 0 /\ ImmunityOrder["YELLOW"] = 1 /\ ImmunityOrder["ORANGE"] = 2
  /\ ImmunityOrder["RED"] = 3 /\ ImmunityOrder["BLACK"] = 4
BY DEF ImmunityLevels, ImmunityOrder

\* The higher of two levels is one of them, and at least either.
LEMMA HigherLevel ==
  ASSUME NEW a \in ImmunityLevels, NEW b \in ImmunityLevels
  PROVE  /\ MaxLevel(a, b) \in ImmunityLevels
         /\ ImmunityOrder[a] <= ImmunityOrder[MaxLevel(a, b)]
         /\ ImmunityOrder[b] <= ImmunityOrder[MaxLevel(a, b)]
BY Levels DEF MaxLevel

\* Whatever the gate decides, it is of a level.
LEMMA DecisionLevel ==
  ASSUME NEW c, c.level \in ImmunityLevels, NEW request
  PROVE  Evaluate(c, request).level \in ImmunityLevels
<1>1. \A score : LevelForScore(score) \in ImmunityLevels
  BY Levels DEF LevelForScore
<1>2. \A score : MaxLevel(c.level, LevelForScore(score)) \in ImmunityLevels
  BY <1>1 DEF MaxLevel
<1>3. \A allowed, action, level, score, approval :
        Decision(allowed, action, level, score, approval).level = level
  BY DEF Decision
<1>4. {"RED", "YELLOW", "ORANGE", "BLACK"} \subseteq ImmunityLevels
  BY Levels
<1> DEFINE detections == Detect(request)
           score == RiskScore(detections)
           action == Firewall(detections)
           drifts == {i \in DOMAIN detections : detections[i].kind = "dependency_anomaly"}
           level == MaxLevel(c.level, LevelForScore(score))
           grave == \E i \in drifts : detections[i].severe
           locked == c.safeMode /\ request.capability \in WriteOrRisky
           e1 == Decision(FALSE, "block", "BLACK", 0, FALSE)
           e2 == Decision(FALSE, action, LevelForScore(score), score, FALSE)
           e3 == Decision(FALSE, "block", "RED", score, FALSE)
           e4 == Decision(TRUE, "monitor", "YELLOW", score, FALSE)
           e5 == Decision(FALSE, "restrict", "ORANGE", score, FALSE)
           e6 == Decision(level \in {"GREEN", "YELLOW"}, LevelAction[level], level, score,
                          level # "GREEN" /\ RequiresApproval(score, request.blastRadius))
<1>5. Evaluate(c, request) =
        IF c.emergencyLock THEN e1
        ELSE IF action # None THEN e2
        ELSE IF drifts # {} /\ grave THEN e3
        ELSE IF drifts # {} THEN e4
        ELSE IF locked THEN e5
        ELSE e6
  BY DEF Evaluate
<1>6. \A e \in {e1, e2, e3, e4, e5, e6} : e.level \in ImmunityLevels
  <2> HIDE DEF detections, score, action, level
  <2>1. LevelForScore(score) \in ImmunityLevels /\ level \in ImmunityLevels
    BY <1>1, <1>2 DEF level
  <2>2. e1.level = "BLACK" /\ e3.level = "RED" /\ e4.level = "YELLOW" /\ e5.level = "ORANGE"
    BY DEF Decision
  <2>3. e2.level = LevelForScore(score) /\ e6.level = level
    BY DEF Decision
  <2> QED BY <1>4, <2>1, <2>2, <2>3
<1> HIDE DEF e1, e2, e3, e4, e5, e6, action, drifts, grave, locked
<1>7. Evaluate(c, request) \in {e1, e2, e3, e4, e5, e6}
  BY <1>5
<1> QED BY <1>6, <1>7

-----------------------------------------------------------------------------
(* The inductive invariant                                                 *)

\* The counters, and the levels and entities the rest of the state names.
CountsTypeOK ==
  counts \in [{"quarantines", "kills", "incidents", "violations"} -> Nat]

\* The level of the runtime is at least that of every incident.
LevelKept ==
  \A i \in DOMAIN incidents :
    /\ incidents[i].level \in ImmunityLevels
    /\ ImmunityOrder[incidents[i].level] <= ImmunityOrder[immuneLevel]

IncidentRecord == [entity : Entities, state : IncidentState, level : ImmunityLevels]

ImmuneInv ==
  /\ ImmuneTypeOK /\ CountsTypeOK
  /\ incidents \in Seq(IncidentRecord) /\ config \in Configs
  /\ IsolationCounted /\ LevelKept

\* An entity can be quarantined exactly when it is not isolated yet.
LEMMA CanIsolate ==
  ASSUME ImmuneTypeOK, NEW id \in Entities
  PROVE  CanQuarantine(id) <=> id \notin Isolated
<1>1. records[id] = None \/ records[id] \in QuarantineRecord
  BY DEF ImmuneTypeOK
<1>2. CASE records[id] = None
  BY <1>2 DEF CanQuarantine, Isolated
<1>3. CASE records[id] \in QuarantineRecord
  <2>1. records[id].state \in QuarantineState /\ records[id] # None
    BY <1>3, ImmuneAssumption DEF QuarantineRecord
  <2> QED BY <2>1, QuarantineTable DEF CanQuarantine, Isolated
<1> QED BY <1>1, <1>2, <1>3

\* A fresh quarantine: the entity is isolated, and only it is new.
LEMMA Isolating ==
  ASSUME ImmuneTypeOK, NEW id \in Entities, CanQuarantine(id),
         records' = [records EXCEPT ![id] = Quarantined(id)]
  PROVE  /\ records' \in [Entities -> QuarantineRecord \cup {None}]
         /\ Isolated' = Isolated \cup {id} /\ id \notin Isolated
<1>1. records[id] = None \/ (records[id] \in QuarantineRecord /\ records[id].state = "SUSPICIOUS")
  <2>1. records[id] = None \/ records[id] \in QuarantineRecord
    BY DEF ImmuneTypeOK
  <2>2. CASE records[id] \in QuarantineRecord
    <3>1. records[id].state \in QuarantineState /\ records[id] # None
      BY <2>2, ImmuneAssumption DEF QuarantineRecord
    <3> QED BY <2>2, <3>1, QuarantineTable DEF CanQuarantine
  <2> QED BY <2>1, <2>2
<1>2. Quarantined(id) \in QuarantineRecord /\ Quarantined(id).state = "QUARANTINED"
  <2>1. CASE records[id] = None
    BY <2>1, QuarantineTable DEF Quarantined, QuarantineRecord
  <2>2. CASE records[id] # None
    <3>1. records[id] \in QuarantineRecord /\ records[id].state = "SUSPICIOUS"
      BY <1>1, <2>2
    <3>2. Quarantined(id) = [state |-> "QUARANTINED", full |-> records[id].full /\ "QUARANTINED" # "RECOVERED"]
      BY <2>2, <3>1, QuarantineTable DEF Quarantined, Moved
    <3> QED BY <3>1, <3>2, QuarantineTable DEF QuarantineRecord
  <2> QED BY <2>1, <2>2
<1>3. records \in [Entities -> QuarantineRecord \cup {None}]
  BY DEF ImmuneTypeOK
<1>4. records' \in [Entities -> QuarantineRecord \cup {None}]
  BY <1>2, <1>3
<1>5. records'[id] = Quarantined(id) /\ \A e \in Entities \ {id} : records'[e] = records[e]
  BY <1>3
<1>6. records'[id] # None
  BY <1>2, <1>5, ImmuneAssumption
<1>7. Isolated' = Isolated \cup {id}
  BY <1>2, <1>5, <1>6 DEF Isolated
<1>8. id \notin Isolated
  BY CanIsolate
<1> QED BY <1>4, <1>7, <1>8

\* Sets of entities are finite, and one more counts one more.
LEMMA Counting ==
  ASSUME NEW S \in SUBSET Entities
  PROVE  /\ IsFiniteSet(S) /\ Cardinality(S) \in Nat
         /\ \A id \in Entities \ S : Cardinality(S \cup {id}) = Cardinality(S) + 1
<1>1. IsFiniteSet(S)
  BY ImmuneAssumption, FS_Subset
<1> QED BY <1>1, FS_CardinalityType, FS_AddElement

Victims == {k[2] : k \in killed}

\* What the invariant says of the list of kills.
LEMMA VictimsIsolated ==
  ASSUME ImmuneInv
  PROVE  Victims \subseteq Isolated /\ Isolated \subseteq Entities
BY DEF ImmuneInv, IsolationCounted, Victims, Isolated

\* A step that isolates one entity more, with or without a kill of it, and
\* counts that, keeps what the counters say.
LEMMA IsolationCounts ==
  ASSUME ImmuneInv, NEW id \in Entities, CanQuarantine(id),
         records' = [records EXCEPT ![id] = Quarantined(id)],
         NEW kills \in 0..1, NEW new \in 0..1,
         \A k \in killed' : k \in killed \/ (kills = 1 /\ k[2] = id),
         killed \subseteq killed',
         kills = 1 => \E k \in killed' : k[2] = id,
         counts' = [counts EXCEPT !.quarantines = @ + 1, !.incidents = @ + new, !.kills = @ + kills],
         Len(incidents') = Len(incidents) + new
  PROVE  IsolationCounted' /\ CountsTypeOK'
<1>1. /\ counts \in [{"quarantines", "kills", "incidents", "violations"} -> Nat]
      /\ counts.quarantines = Cardinality(Isolated) /\ counts.kills <= Cardinality(Victims)
      /\ counts.incidents = Len(incidents)
  BY DEF ImmuneInv, CountsTypeOK, IsolationCounted, Victims
<1>2. /\ counts'.quarantines = counts.quarantines + 1 /\ counts'.kills = counts.kills + kills
      /\ counts'.incidents = counts.incidents + new
      /\ counts' \in [{"quarantines", "kills", "incidents", "violations"} -> Nat]
  <2>1. counts.quarantines + 1 \in Nat /\ counts.kills + kills \in Nat /\ counts.incidents + new \in Nat
    BY <1>1
  <2> QED BY <1>1, <2>1
<1>3. Isolated' = Isolated \cup {id} /\ id \notin Isolated
  BY Isolating DEF ImmuneInv
<1>4. Victims \subseteq Isolated /\ Isolated \subseteq Entities
  BY VictimsIsolated
<1>5. Cardinality(Isolated') = Cardinality(Isolated) + 1
  BY <1>3, <1>4, Counting
<1>6. /\ kills = 0 => Victims' = Victims
      /\ kills = 1 => Victims' = Victims \cup {id}
  <2>1. Victims \subseteq Victims'
    BY DEF Victims
  <2>2. \A v \in Victims' : v \in Victims \/ (kills = 1 /\ v = id)
    BY DEF Victims
  <2>3. kills = 1 => id \in Victims'
    BY DEF Victims
  <2> QED BY <2>1, <2>2, <2>3
<1>7. counts'.kills <= Cardinality(Victims')
  <2>1. Cardinality(Victims) \in Nat /\ Cardinality(Victims \cup {id}) = Cardinality(Victims) + 1
    BY <1>3, <1>4, Counting
  <2>2. counts.kills \in Nat /\ counts.kills <= Cardinality(Victims)
        /\ counts'.kills = counts.kills + kills
    BY <1>1, <1>2
  <2>3. CASE kills = 0
    BY <1>6, <2>1, <2>2, <2>3
  <2>4. CASE kills = 1
    <3>1. Victims' = Victims \cup {id}
      BY <1>6, <2>4
    <3>2. Cardinality(Victims') = Cardinality(Victims) + 1
      BY <2>1, <3>1
    <3> QED BY <2>1, <2>2, <2>4, <3>2
  <2> QED BY <2>3, <2>4
<1>8. \A k \in killed' : k[2] \in Isolated'
  BY <1>3, <1>4, <1>6 DEF Victims
<1> QED
  BY <1>1, <1>2, <1>5, <1>7, <1>8 DEF IsolationCounted, CountsTypeOK, Victims

\* Evaluated and applied: the entity is isolated, killed if the gate says so,
\* and an incident is opened.
LEMMA IsolateKeeps ==
  ASSUME ImmuneInv, NEW request \in Requests, Isolate(request)
  PROVE  ImmuneInv'
<1> DEFINE decision == Evaluate(config, request)
           id == request.principal.id
           target == KillTargetFor(request.principal.type)
           new == [entity |-> id, state |-> "CONTAINED", level |-> decision.level]
<1>1. id \in Entities /\ config \in Configs /\ config.level \in ImmunityLevels
  BY ImmuneAssumption DEF ImmuneInv
<1>2. decision.level \in ImmunityLevels
  BY <1>1, DecisionLevel
<1>3. target \in {"run", "agent", "plugin", "runner"}
  BY DEF KillTargetFor
<1>4. /\ CanQuarantine(id) /\ records' = [records EXCEPT ![id] = Quarantined(id)]
      /\ killed' = killed \cup (IF decision.action = "kill" THEN {<<target, id>>} ELSE {})
      /\ counts' = [counts EXCEPT !.quarantines = @ + 1, !.incidents = @ + 1,
                                  !.kills = @ + (IF decision.action = "kill" THEN 1 ELSE 0)]
      /\ incidents' = Append(incidents, new)
      /\ immuneLevel' = MaxLevel(immuneLevel, decision.level)
      /\ config' = config
  BY DEF Isolate, OpenIncident
<1> HIDE DEF decision, id, target
<1>5. /\ new \in IncidentRecord /\ incidents \in Seq(IncidentRecord)
      /\ incidents' \in Seq(IncidentRecord) /\ Len(incidents') = Len(incidents) + 1
      /\ \A i \in DOMAIN incidents' : (i \in DOMAIN incidents /\ incidents'[i] = incidents[i])
                                      \/ incidents'[i] = new
  <2>1. new \in IncidentRecord /\ incidents \in Seq(IncidentRecord)
    BY <1>1, <1>2, IncidentTable DEF IncidentRecord, ImmuneInv
  <2> HIDE DEF new
  <2>2. incidents' = Append(incidents, new)
    BY <1>4
  <2> QED BY ONLY <2>1, <2>2
<1>6. immuneLevel \in ImmunityLevels /\ immuneLevel' \in ImmunityLevels
      /\ ImmunityOrder[immuneLevel] <= ImmunityOrder[immuneLevel']
      /\ ImmunityOrder[decision.level] <= ImmunityOrder[immuneLevel']
  BY <1>2, <1>4, HigherLevel DEF ImmuneInv, ImmuneTypeOK
<1>7. LevelKept'
  <2> SUFFICES ASSUME NEW i \in DOMAIN incidents'
               PROVE  /\ incidents'[i].level \in ImmunityLevels
                      /\ ImmunityOrder[incidents'[i].level] <= ImmunityOrder[immuneLevel']
    BY DEF LevelKept
  <2>1. CASE i \in DOMAIN incidents /\ incidents'[i] = incidents[i]
    <3>1. incidents[i].level \in ImmunityLevels
          /\ ImmunityOrder[incidents[i].level] <= ImmunityOrder[immuneLevel]
      BY <2>1 DEF ImmuneInv, LevelKept
    <3>2. \A l \in ImmunityLevels : ImmunityOrder[l] \in Nat
      BY Levels
    <3> QED BY <1>6, <2>1, <3>1, <3>2
  <2>2. CASE incidents'[i] = new
    BY <1>2, <1>6, <2>2
  <2> QED BY <1>5, <2>1, <2>2
<1>8. IsolationCounted' /\ CountsTypeOK'
  <2> DEFINE kills == IF decision.action = "kill" THEN 1 ELSE 0
  <2>1. kills \in 0..1 /\ 1 \in 0..1
    OBVIOUS
  <2>2. /\ \A k \in killed' : k \in killed \/ (kills = 1 /\ k[2] = id)
        /\ killed \subseteq killed'
        /\ kills = 1 => \E k \in killed' : k[2] = id
    <3> DEFINE pair == <<target, id>>
    <3>1. pair[2] = id
      OBVIOUS
    <3>2. killed' = killed \cup (IF decision.action = "kill" THEN {pair} ELSE {})
      BY <1>4
    <3> HIDE DEF pair
    <3> QED BY <3>1, <3>2
  <2>3. counts' = [counts EXCEPT !.quarantines = @ + 1, !.incidents = @ + 1, !.kills = @ + kills]
    BY <1>4
  <2> HIDE DEF kills
  <2> QED BY <1>1, <1>4, <1>5, <2>1, <2>2, <2>3, IsolationCounts
<1>9. ImmuneTypeOK'
  <2>1. records' \in [Entities -> QuarantineRecord \cup {None}]
    BY <1>1, <1>4, Isolating DEF ImmuneInv
  <2>2. killed' \subseteq {"run", "agent", "plugin", "runner"} \X Entities
    BY <1>1, <1>3, <1>4 DEF ImmuneInv, ImmuneTypeOK
  <2>3. \A i \in DOMAIN incidents' : incidents'[i].state \in IncidentState
    <3> TAKE i \in DOMAIN incidents'
    <3>1. incidents'[i] \in IncidentRecord
      BY <1>5
    <3> QED BY <3>1 DEF IncidentRecord
  <2> QED BY <1>6, <2>1, <2>2, <2>3 DEF ImmuneTypeOK
<1> QED BY <1>1, <1>4, <1>5, <1>7, <1>8, <1>9 DEF ImmuneInv

\* An approved kill: on the list first, then isolated, unless that throws.
LEMMA KillKeeps ==
  ASSUME ImmuneInv, NEW who, NEW answer, NEW type \in {"agent", "run"}, NEW id \in Entities,
         Kill(who, answer, type, id)
  PROVE  ImmuneInv'
<1>1. killed' = killed \cup {<<type, id>>} /\ UNCHANGED <<config, incidents, immuneLevel>>
  BY DEF Kill
<1>2. killed' \subseteq {"run", "agent", "plugin", "runner"} \X Entities
  BY <1>1 DEF ImmuneInv, ImmuneTypeOK
<1>3. CASE CanQuarantine(id)
  <2>1. /\ records' = [records EXCEPT ![id] = Quarantined(id)]
        /\ counts' = [counts EXCEPT !.quarantines = @ + 1, !.kills = @ + 1]
    BY <1>3 DEF Kill
  <2>2. records' \in [Entities -> QuarantineRecord \cup {None}]
    BY <1>3, <2>1, Isolating DEF ImmuneInv
  <2>3. IsolationCounted' /\ CountsTypeOK'
    <3>1. counts \in [{"quarantines", "kills", "incidents", "violations"} -> Nat]
      BY DEF ImmuneInv, CountsTypeOK
    <3>2. counts' = [counts EXCEPT !.quarantines = @ + 1, !.incidents = @ + 0, !.kills = @ + 1]
      <4>1. counts.incidents + 0 = counts.incidents
        BY <3>1
      <4>2. counts' = [[counts EXCEPT !.quarantines = @ + 1, !.kills = @ + 1]
                          EXCEPT !.incidents = counts.incidents]
        BY <2>1, <3>1
      <4> QED BY <3>1, <4>1, <4>2
    <3>3. /\ \A k \in killed' : k \in killed \/ (1 = 1 /\ k[2] = id)
          /\ killed \subseteq killed'
          /\ \E k \in killed' : k[2] = id
      <4> DEFINE pair == <<type, id>>
      <4>1. pair[2] = id /\ killed' = killed \cup {pair}
        BY <1>1
      <4> HIDE DEF pair
      <4> QED BY <4>1
    <3>4. Len(incidents') = Len(incidents) + 0 /\ 0 \in 0..1 /\ 1 \in 0..1
      BY <1>1 DEF ImmuneInv
    <3> QED BY <1>3, <2>1, <3>2, <3>3, <3>4, IsolationCounts
  <2> QED BY <1>1, <1>2, <2>2, <2>3 DEF ImmuneInv, ImmuneTypeOK, LevelKept
<1>4. CASE ~CanQuarantine(id)
  <2>1. UNCHANGED <<records, counts>>
    BY <1>4 DEF Kill
  <2>2. id \in Isolated /\ Isolated' = Isolated
    BY <1>4, <2>1, CanIsolate DEF ImmuneInv, Isolated
  <2>3. Victims \subseteq Victims' /\ Victims' \subseteq Isolated /\ Isolated \subseteq Entities
    BY <1>1, <2>2, VictimsIsolated DEF Victims
  <2>4. Cardinality(Victims) <= Cardinality(Victims') /\ Cardinality(Victims) \in Nat
        /\ Cardinality(Victims') \in Nat
    <3>1. Victims' \in SUBSET Entities /\ Victims \in SUBSET Entities
      BY <2>3
    <3>2. IsFiniteSet(Victims') /\ Cardinality(Victims) \in Nat /\ Cardinality(Victims') \in Nat
      BY <3>1, Counting
    <3> QED BY <2>3, <3>2, FS_Subset
  <2>5. /\ counts.kills \in Nat /\ counts.kills <= Cardinality(Victims)
        /\ counts.quarantines = Cardinality(Isolated) /\ counts.incidents = Len(incidents)
    BY DEF ImmuneInv, CountsTypeOK, IsolationCounted, Victims
  <2>6. counts'.kills <= Cardinality(Victims')
    BY <2>1, <2>4, <2>5
  <2>7. \A k \in killed' : k[2] \in Isolated'
    BY <2>2, <2>3 DEF Victims
  <2>8. IsolationCounted'
    BY <1>1, <2>1, <2>2, <2>5, <2>6, <2>7 DEF IsolationCounted, Victims
  <2> QED BY <1>1, <1>2, <2>1, <2>8 DEF ImmuneInv, ImmuneTypeOK, CountsTypeOK, LevelKept
<1> QED BY <1>3, <1>4

\* A refusal is counted, and nothing else.
LEMMA RefuseKeeps ==
  ASSUME ImmuneInv, NEW request \in Requests, Refuse(request)
  PROVE  ImmuneInv'
<1>1. /\ counts' = [counts EXCEPT !.violations = @ + 1]
      /\ UNCHANGED <<config, records, killed, incidents, immuneLevel>>
  BY DEF Refuse
<1>2. counts \in [{"quarantines", "kills", "incidents", "violations"} -> Nat]
  BY DEF ImmuneInv, CountsTypeOK
<1>3. /\ CountsTypeOK' /\ counts'.quarantines = counts.quarantines
      /\ counts'.kills = counts.kills /\ counts'.incidents = counts.incidents
  <2>1. counts.violations + 1 \in Nat
    BY <1>2
  <2> QED BY <1>1, <1>2, <2>1 DEF CountsTypeOK
<1>4. ImmuneTypeOK' /\ LevelKept' /\ incidents' \in Seq(IncidentRecord) /\ config' \in Configs
  BY <1>1 DEF ImmuneInv, ImmuneTypeOK, LevelKept
<1>5. Isolated' = Isolated
  BY <1>1 DEF Isolated
<1>6. IsolationCounted'
  BY <1>1, <1>3, <1>5 DEF ImmuneInv, IsolationCounted
<1> QED BY <1>3, <1>4, <1>6 DEF ImmuneInv

\* A record that moves without being isolated or released from isolation.
LEMMA RecordMoves ==
  ASSUME ImmuneInv, NEW id \in Entities, NEW record \in QuarantineRecord,
         records' = [records EXCEPT ![id] = record],
         record.state = "SUSPICIOUS" <=> id \notin Isolated,
         UNCHANGED <<config, killed, incidents, immuneLevel, counts>>
  PROVE  ImmuneInv'
<1>1. records \in [Entities -> QuarantineRecord \cup {None}]
  BY DEF ImmuneInv, ImmuneTypeOK
<1>2. /\ records' \in [Entities -> QuarantineRecord \cup {None}]
      /\ records'[id] = record /\ \A e \in Entities \ {id} : records'[e] = records[e]
  BY <1>1
<1>3. Isolated' = Isolated
  <2>1. record # None
    BY ImmuneAssumption
  <2>2. \A e \in Entities : e \in Isolated' <=> e \in Isolated
    BY <1>2, <2>1 DEF Isolated
  <2> QED BY <2>2 DEF Isolated
<1>4. ImmuneTypeOK'
  BY <1>2 DEF ImmuneInv, ImmuneTypeOK
<1>5. IsolationCounted'
  BY <1>3 DEF ImmuneInv, IsolationCounted
<1> QED BY <1>4, <1>5 DEF ImmuneInv, CountsTypeOK, LevelKept

\* A flag makes a record that isolates nobody.
LEMMA FlagKeeps ==
  ASSUME ImmuneInv, NEW id \in Entities, Flag(id)
  PROVE  ImmuneInv'
<1> DEFINE record == [state |-> "SUSPICIOUS", full |-> FALSE]
<1>1. /\ records[id] = None /\ records' = [records EXCEPT ![id] = record]
      /\ UNCHANGED <<config, killed, incidents, immuneLevel, counts>>
  BY DEF Flag
<1>2. record \in QuarantineRecord /\ record.state = "SUSPICIOUS"
  BY QuarantineTable DEF QuarantineRecord
<1>3. id \notin Isolated
  BY <1>1 DEF Isolated
<1> HIDE DEF record
<1> QED BY <1>1, <1>2, <1>3, RecordMoves

\* An event the record's state has an entry for: it was isolated and stays so.
LEMMA HandleMoves ==
  ASSUME ImmuneTypeOK, NEW id \in Entities, NEW event \in {"analyze", "recover", "revoke"},
         Handle(id, event)
  PROVE  /\ id \in Isolated
         /\ Moved(records[id], event) \in QuarantineRecord
         /\ Moved(records[id], event).state # "SUSPICIOUS"
         /\ records[id].full => \/ Moved(records[id], event).full
                                \/ /\ records[id].state = "ANALYSIS"
                                   /\ Moved(records[id], event).state = "RECOVERED"
<1>1. records[id] \in QuarantineRecord
  BY DEF ImmuneTypeOK, Handle
<1> DEFINE state == records[id].state
           next == QuarantineMachine[state][event]
<1>2. state \in QuarantineState /\ records[id].full \in BOOLEAN
  BY <1>1 DEF QuarantineRecord
<1>3. Can(QuarantineMachine, state, event)
  BY DEF Handle
<1>4. /\ state \notin {"ACTIVE", "SUSPICIOUS"}
      /\ next \in QuarantineState /\ next # "SUSPICIOUS"
      /\ next = "RECOVERED" => state = "ANALYSIS"
  BY <1>2, <1>3, QuarantineTable
<1>5. Moved(records[id], event) = [state |-> next, full |-> records[id].full /\ next # "RECOVERED"]
  BY DEF Moved
<1> HIDE DEF next
<1>6. Moved(records[id], event) \in QuarantineRecord /\ Moved(records[id], event).state = next
  BY <1>2, <1>4, <1>5 DEF QuarantineRecord
<1>7. Moved(records[id], event).full <=> records[id].full /\ next # "RECOVERED"
  <2>1. Moved(records[id], event).full = (records[id].full /\ next # "RECOVERED")
    BY <1>5
  <2> QED BY <2>1
<1>8. id \in Isolated
  BY <1>4 DEF Isolated, Handle
<1> QED BY <1>4, <1>6, <1>7, <1>8

\* Analysis, recovery and revocation keep the invariant.
LEMMA HandleKeeps ==
  ASSUME ImmuneInv, NEW id \in Entities, NEW event \in {"analyze", "recover", "revoke"},
         Handle(id, event)
  PROVE  ImmuneInv'
<1>1. /\ records' = [records EXCEPT ![id] = Moved(records[id], event)]
      /\ UNCHANGED <<config, killed, incidents, immuneLevel, counts>>
  BY DEF Handle
<1>2. /\ id \in Isolated
      /\ Moved(records[id], event) \in QuarantineRecord
      /\ Moved(records[id], event).state # "SUSPICIOUS"
  BY HandleMoves DEF ImmuneInv
<1> QED BY <1>1, <1>2, RecordMoves

\* An incident that advances keeps its level.
LEMMA AdvanceKeeps ==
  ASSUME ImmuneInv, NEW i \in DOMAIN incidents, NEW event \in {"recover", "verify", "close"},
         Advance(i, event)
  PROVE  ImmuneInv'
<1> DEFINE state == IncidentMachine[incidents[i].state][event]
           moved == [incidents[i] EXCEPT !.state = state]
<1>1. /\ incidents' = [incidents EXCEPT ![i] = moved]
      /\ Can(IncidentMachine, incidents[i].state, event)
      /\ UNCHANGED <<config, records, killed, immuneLevel, counts>>
  BY DEF Advance
<1>2. incidents \in Seq(IncidentRecord) /\ incidents[i] \in IncidentRecord
  BY DEF ImmuneInv
<1>3. state \in IncidentState
  BY <1>1, <1>2, IncidentTable DEF IncidentRecord
<1> HIDE DEF state
<1>4. moved \in IncidentRecord /\ moved.level = incidents[i].level
  BY <1>2, <1>3 DEF IncidentRecord
<1> HIDE DEF moved
<1>5. /\ incidents' \in Seq(IncidentRecord) /\ Len(incidents') = Len(incidents)
      /\ DOMAIN incidents' = DOMAIN incidents /\ incidents'[i] = moved
      /\ \A j \in DOMAIN incidents \ {i} : incidents'[j] = incidents[j]
  <2>1. incidents' = [incidents EXCEPT ![i] = moved]
    BY <1>1
  <2> QED BY ONLY <1>2, <1>4, <2>1, i \in DOMAIN incidents
<1>6. \A j \in DOMAIN incidents' : incidents'[j].level = incidents[j].level
  BY <1>4, <1>5
<1>7. LevelKept'
  BY <1>1, <1>5, <1>6 DEF ImmuneInv, LevelKept
<1>8. ImmuneTypeOK'
  <2>1. \A j \in DOMAIN incidents' : incidents'[j].state \in IncidentState
    <3> TAKE j \in DOMAIN incidents'
    <3>1. incidents'[j] \in IncidentRecord
      BY <1>5
    <3> QED BY <3>1 DEF IncidentRecord
  <2> QED BY <1>1, <2>1 DEF ImmuneInv, ImmuneTypeOK
<1>9. IsolationCounted'
  <2>1. Isolated' = Isolated
    BY <1>1 DEF Isolated
  <2> QED BY <1>1, <1>5, <2>1 DEF ImmuneInv, IsolationCounted
<1> QED BY <1>1, <1>5, <1>7, <1>8, <1>9 DEF ImmuneInv, CountsTypeOK

\* Nothing is isolated, killed or counted at first.
LEMMA ImmuneStarts == ImmuneInit => ImmuneInv
<1> SUFFICES ASSUME ImmuneInit PROVE ImmuneInv
  OBVIOUS
<1>1. /\ config \in Configs /\ config.level \in ImmunityLevels
      /\ records = [id \in Entities |-> None] /\ killed = {} /\ incidents = << >>
      /\ immuneLevel = config.level
      /\ counts = [quarantines |-> 0, kills |-> 0, incidents |-> 0, violations |-> 0]
  BY ImmuneAssumption DEF ImmuneInit
<1>2. ImmuneTypeOK /\ CountsTypeOK /\ LevelKept
  BY <1>1 DEF ImmuneTypeOK, CountsTypeOK, LevelKept
<1>3. incidents \in Seq(IncidentRecord) /\ Len(incidents) = 0
  BY <1>1
<1>4. IsolationCounted
  <2>1. Isolated = {} /\ Victims = {}
    BY <1>1 DEF Isolated, Victims
  <2>2. Cardinality(Isolated) = 0 /\ Cardinality(Victims) = 0
    BY <2>1, FS_EmptySet
  <2>3. counts.quarantines = 0 /\ counts.kills = 0 /\ counts.incidents = 0
    BY <1>1
  <2> QED BY <1>1, <1>3, <2>2, <2>3 DEF IsolationCounted, Victims
<1> QED BY <1>1, <1>2, <1>3, <1>4 DEF ImmuneInv

\* Every step keeps the invariant.
LEMMA ImmuneSteps == ImmuneInv /\ [ImmuneNext]_immuneVars => ImmuneInv'
<1> SUFFICES ASSUME ImmuneInv, [ImmuneNext]_immuneVars PROVE ImmuneInv'
  OBVIOUS
<1>1. CASE \E r \in Requests : Isolate(r) \/ Refuse(r)
  BY <1>1, IsolateKeeps, RefuseKeeps
<1>2. CASE \E who \in {"agent", "immune"}, answer \in PolicyAnswers,
              type \in {"agent", "run"}, id \in Entities : Kill(who, answer, type, id)
  BY <1>2, KillKeeps
<1>3. CASE \E id \in Entities :
             Flag(id) \/ \E event \in {"analyze", "recover", "revoke"} : Handle(id, event)
  BY <1>3, FlagKeeps, HandleKeeps
<1>4. CASE \E i \in DOMAIN incidents, event \in {"recover", "verify", "close"} : Advance(i, event)
  BY <1>4, AdvanceKeeps
<1>5. CASE UNCHANGED immuneVars
  BY <1>5 DEF immuneVars, ImmuneInv, ImmuneTypeOK, CountsTypeOK, LevelKept, IsolationCounted,
              Isolated
<1> QED BY <1>1, <1>2, <1>3, <1>4, <1>5 DEF ImmuneNext

\* The invariant is one of the immune runtime, whatever is asked of it.
LEMMA ImmuneInductive == ImmuneSpec => []ImmuneInv
BY ImmuneStarts, ImmuneSteps, PTL DEF ImmuneSpec

-----------------------------------------------------------------------------
(* The theorems                                                            *)

\* The records, the list of kills, the incidents and the level keep to their
\* state machines and to the levels of types.ts.
THEOREM ImmuneTypes == ImmuneSpec => []ImmuneTypeOK
<1>1. ImmuneInv => ImmuneTypeOK
  BY DEF ImmuneInv
<1> QED BY <1>1, ImmuneInductive, PTL

\* Whatever throws half way: nothing is on the kill list that is not isolated,
\* each isolation is counted once and no kill is counted twice.
THEOREM IsolationsCounted == ImmuneSpec => []IsolationCounted
<1>1. ImmuneInv => IsolationCounted
  BY DEF ImmuneInv
<1> QED BY <1>1, ImmuneInductive, PTL

\* The level of the configuration is a level, and the runtime's is no lower
\* than what the incidents raised it to.
LEMMA RuntimeLevelKept ==
  ASSUME ImmuneInv
  PROVE  /\ RuntimeLevel \in ImmunityLevels
         /\ ImmunityOrder[immuneLevel] <= ImmunityOrder[RuntimeLevel]
<1>1. config.level \in ImmunityLevels /\ immuneLevel \in ImmunityLevels
  BY ImmuneAssumption DEF ImmuneInv, ImmuneTypeOK
<1>2. GateLevel(config) \in ImmunityLevels
  BY <1>1, Levels DEF GateLevel
<1> QED BY <1>1, <1>2, HigherLevel DEF RuntimeLevel

\* What health says never forgets an incident: after one of level BLACK it is
\* locked, after one of level RED never better than critical.
THEOREM HealthRemembers == ImmuneSpec => []HealthTells
<1>1. ImmuneInv => HealthTells
  <2> SUFFICES ASSUME ImmuneInv, NEW i \in DOMAIN incidents
               PROVE  /\ incidents[i].level = "BLACK" => HealthStatus(0) = "locked"
                      /\ incidents[i].level = "RED" => HealthStatus(0) \in {"critical", "locked"}
    BY DEF HealthTells
  <2> DEFINE order == ImmunityOrder[RuntimeLevel]
  <2>1. order \in 0..4 /\ ImmunityOrder[immuneLevel] \in 0..4
    BY RuntimeLevelKept, Levels DEF ImmuneInv, ImmuneTypeOK
  <2>2. ImmunityOrder[incidents[i].level] <= ImmunityOrder[immuneLevel]
    BY DEF ImmuneInv, LevelKept
  <2>3. ImmunityOrder[immuneLevel] <= order
    BY RuntimeLevelKept
  <2>4. /\ incidents[i].level = "BLACK" => order >= 4
        /\ incidents[i].level = "RED" => order >= 3
    BY <2>1, <2>2, <2>3, Levels
  <2>5. /\ order >= 4 => HealthStatus(0) = "locked"
        /\ order = 3 => HealthStatus(0) = "critical"
    BY <2>1 DEF HealthStatus
  <2> HIDE DEF order
  <2> QED BY <2>1, <2>4, <2>5
<1> QED BY <1>1, ImmuneInductive, PTL

\* Only a recovery after an analysis lifts the restrictions of an entity.
LEMMA LiftingSteps ==
  ASSUME ImmuneInv, [ImmuneNext]_immuneVars, NEW id \in Entities,
         records[id] # None, records[id].full
  PROVE  \/ records'[id].full
         \/ records[id].state = "ANALYSIS" /\ records'[id].state = "RECOVERED"
<1>0. records \in [Entities -> QuarantineRecord \cup {None}] /\ ImmuneTypeOK
  BY DEF ImmuneInv, ImmuneTypeOK
<1>1. ASSUME records' = records PROVE records'[id].full
  BY <1>1
<1>2. ASSUME NEW e \in Entities, CanQuarantine(e), records' = [records EXCEPT ![e] = Quarantined(e)]
      PROVE  records'[id].full
  <2>1. CASE e # id
    BY <1>0, <1>2, <2>1
  <2>2. CASE e = id
    <3>1. records[id] \in QuarantineRecord
      BY <1>0
    <3>2. records[id].state = "SUSPICIOUS"
      <4>1. records[id].state \in QuarantineState
        BY <3>1 DEF QuarantineRecord
      <4> QED BY <1>2, <2>2, <4>1, QuarantineTable DEF CanQuarantine
    <3>3. records'[id] = [state |-> "QUARANTINED", full |-> records[id].full /\ "QUARANTINED" # "RECOVERED"]
      BY <1>0, <1>2, <2>2, <3>2, QuarantineTable DEF Quarantined, Moved
    <3>4. records'[id].full = (records[id].full /\ "QUARANTINED" # "RECOVERED")
      BY <3>3
    <3> QED BY <3>4
  <2> QED BY <2>1, <2>2
<1>3. CASE \E r \in Requests : Isolate(r) \/ Refuse(r)
  <2>1. PICK r \in Requests : Isolate(r) \/ Refuse(r)
    BY <1>3
  <2>2. r.principal.id \in Entities
    BY ImmuneAssumption
  <2> QED BY <1>1, <1>2, <2>1, <2>2 DEF Isolate, Refuse
<1>4. CASE \E who \in {"agent", "immune"}, answer \in PolicyAnswers,
              type \in {"agent", "run"}, e \in Entities : Kill(who, answer, type, e)
  <2>1. PICK who \in {"agent", "immune"}, answer \in PolicyAnswers,
             type \in {"agent", "run"}, e \in Entities : Kill(who, answer, type, e)
    BY <1>4
  <2> QED BY <1>1, <1>2, <2>1 DEF Kill
<1>5. CASE \E e \in Entities : Flag(e)
  <2>1. PICK e \in Entities : Flag(e)
    BY <1>5
  <2>2. e # id /\ records'[id] = records[id]
    BY <1>0, <2>1 DEF Flag
  <2> QED BY <2>2
<1>6. CASE \E e \in Entities, event \in {"analyze", "recover", "revoke"} : Handle(e, event)
  <2>1. PICK e \in Entities, event \in {"analyze", "recover", "revoke"} : Handle(e, event)
    BY <1>6
  <2>2. records' = [records EXCEPT ![e] = Moved(records[e], event)]
    BY <2>1 DEF Handle
  <2>3. CASE e # id
    BY <1>0, <2>2, <2>3
  <2>4. CASE e = id
    <3>1. records'[id] = Moved(records[id], event)
      BY <1>0, <2>2, <2>4
    <3> QED BY <1>0, <2>1, <2>4, <3>1, HandleMoves
  <2> QED BY <2>3, <2>4
<1>7. CASE \E i \in DOMAIN incidents, event \in {"recover", "verify", "close"} : Advance(i, event)
  BY <1>1, <1>7 DEF Advance
<1>8. CASE UNCHANGED immuneVars
  BY <1>1, <1>8 DEF immuneVars
<1> QED BY <1>3, <1>4, <1>5, <1>6, <1>7, <1>8 DEF ImmuneNext

\* Restrictions are lifted by recover() after an analysis, and by nothing else.
THEOREM RecoveryLifts == ImmuneSpec => OnlyRecoveryLifts
<1> DEFINE Lifted == \A id \in Entities :
             records[id] # None /\ records[id].full =>
               \/ records'[id].full
               \/ records[id].state = "ANALYSIS" /\ records'[id].state = "RECOVERED"
<1>1. ImmuneInv /\ [ImmuneNext]_immuneVars => [Lifted]_immuneVars
  BY LiftingSteps
<1>2. OnlyRecoveryLifts <=> [][Lifted]_immuneVars
  BY DEF OnlyRecoveryLifts
<1> HIDE DEF Lifted
<1> QED BY <1>1, <1>2, ImmuneInductive, PTL DEF ImmuneSpec

-----------------------------------------------------------------------------
(***************************************************************************)
(* The gate.  A field of the observation adds its detections to those of   *)
(* the others, so the weights never fall; what else the gate asks of the   *)
(* detections is whether the firewall has an entry for one, and about the  *)
(* drifts, which no other field changes.  A hit of the firewall that a     *)
(* field adds weighs at least 70, level RED, which is as high as what any  *)
(* rule behind the firewall answers below level BLACK.                     *)
(***************************************************************************)

\* What detect() pushes.
Detections == [kind : DOMAIN SignalWeights, weight : Nat, severe : BOOLEAN]

\* g[k] is the sum of the first k weights.
Sums(g, a) ==
  /\ g \in [0..Len(a) -> Nat] /\ g[0] = 0
  /\ \A k \in 1..Len(a) : g[k] = g[k - 1] + a[k].weight

\* The sum of the weights is what adding them one after another reaches.
LEMMA TotalIs ==
  ASSUME NEW a \in Seq(Detections)
  PROVE  \E g : Sums(g, a) /\ TotalWeight(a) = g[Len(a)]
<1> DEFINE n == Len(a)
           step == [k \in 1..n |-> [x \in Nat |-> x + a[k].weight]]
           sum[k \in 0..n] == IF k = 0 THEN 0 ELSE sum[k - 1] + a[k].weight
<1>0. n \in Nat /\ \A k \in 1..n : a[k].weight \in Nat
  <2>1. n \in Nat /\ \A k \in 1..n : a[k] \in Detections
    OBVIOUS
  <2>2. \A d \in Detections : d.weight \in Nat
    BY DEF Detections
  <2> QED BY <2>1, <2>2
<1>1. step \in [1..n -> [Nat -> Nat]]
  <2> HIDE DEF n
  <2> QED BY <1>0
<1>2. PICK f : Recursive(f, n, Nat, 0, step)
  <2> HIDE DEF n, step
  <2> QED BY <1>0, <1>1, Recursion
<1>3. f \in [0..n -> Nat] /\ f[0] = 0 /\ \A k \in 1..n : f[k] = f[k - 1] + a[k].weight
  <2>1. f \in [0..n -> Nat] /\ f[0] = 0 /\ \A k \in 1..n : f[k] = step[k][f[k - 1]]
    <3> HIDE DEF n, step
    <3> QED BY <1>2 DEF Recursive
  <2>2. ASSUME NEW k \in 1..n PROVE f[k] = f[k - 1] + a[k].weight
    <3> HIDE DEF n
    <3>1. k - 1 \in 0..n /\ f[k - 1] \in Nat
      BY <1>0, <2>1
    <3> QED BY <2>1, <3>1
  <2> QED BY <2>1, <2>2
<1>4. f = [k \in 0..n |-> IF k = 0 THEN 0 ELSE f[k - 1] + a[k].weight]
  <2> HIDE DEF n
  <2>1. \A k \in 0..n : f[k] = IF k = 0 THEN 0 ELSE f[k - 1] + a[k].weight
    BY <1>0, <1>3
  <2>2. f = [k \in 0..n |-> f[k]]
    BY <1>3
  <2> QED BY <2>1, <2>2
<1>5. sum = [k \in 0..n |-> IF k = 0 THEN 0 ELSE sum[k - 1] + a[k].weight]
  BY <1>4, Zenon
<1>6. TotalWeight(a) = sum[n]
  BY DEF TotalWeight
<1>7. \A k \in 0..n : sum[k] = f[k]
  <2> DEFINE S == {k \in 0..n : sum[k] = f[k]}
  <2> HIDE DEF n, sum
  <2>0. \A k \in 0..n : sum[k] = IF k = 0 THEN 0 ELSE sum[k - 1] + a[k].weight
    BY <1>5
  <2>1. 0 \in S
    BY <1>0, <1>3, <2>0
  <2>2. ASSUME NEW k \in 0..(n - 1), k \in S PROVE k + 1 \in S
    <3>0. k + 1 \in 1..n /\ k + 1 \in 0..n /\ (k + 1) - 1 = k /\ k + 1 # 0
      BY <1>0
    <3>1. sum[k + 1] = sum[k] + a[k + 1].weight
      BY <2>0, <3>0
    <3>2. f[k + 1] = f[k] + a[k + 1].weight
      BY <1>3, <3>0
    <3> QED BY <3>0, <3>1, <3>2, <2>2
  <2>3. 0..n \subseteq S
    <3> HIDE DEF S
    <3> QED BY <2>1, <2>2, <1>0, Climb
  <2> QED BY <2>3
<1>8. TotalWeight(a) = f[n]
  <2> HIDE DEF n, sum
  <2> QED BY <1>0, <1>6, <1>7
<1> QED BY <1>3, <1>8 DEF Sums

\* The weights of one sequence after another add up.
LEMMA TotalJoins ==
  ASSUME NEW a \in Seq(Detections), NEW b \in Seq(Detections)
  PROVE  /\ TotalWeight(a) \in Nat /\ TotalWeight(b) \in Nat
         /\ TotalWeight(a \o b) = TotalWeight(a) + TotalWeight(b)
<1> DEFINE c == a \o b
           n == Len(a)
           m == Len(b)
<1>1. /\ c \in Seq(Detections) /\ Len(c) = n + m /\ n \in Nat /\ m \in Nat
      /\ \A k \in 1..n : c[k] = a[k]
      /\ \A k \in 1..m : c[n + k] = b[k]
  OBVIOUS
<1> HIDE DEF c
<1>2. PICK ga : Sums(ga, a) /\ TotalWeight(a) = ga[n]
  BY TotalIs
<1>3. PICK gb : Sums(gb, b) /\ TotalWeight(b) = gb[m]
  BY TotalIs
<1>4. PICK gc : Sums(gc, c) /\ TotalWeight(c) = gc[n + m]
  BY <1>1, TotalIs
<1>5. /\ \A k \in 0..n : ga[k] \in Nat
      /\ \A k \in 0..m : gb[k] \in Nat
      /\ ga[0] = 0 /\ gb[0] = 0 /\ gc[0] = 0
      /\ \A k \in 1..n : ga[k] = ga[k - 1] + a[k].weight
      /\ \A k \in 1..m : gb[k] = gb[k - 1] + b[k].weight
      /\ \A k \in 1..(n + m) : gc[k] = gc[k - 1] + c[k].weight
  BY <1>1, <1>2, <1>3, <1>4 DEF Sums
<1>6. \A k \in 1..m : b[k].weight \in Nat
  <2>1. \A k \in 1..m : b[k] \in Detections
    OBVIOUS
  <2>2. \A d \in Detections : d.weight \in Nat
    BY DEF Detections
  <2> QED BY <2>1, <2>2
<1> HIDE DEF n, m
<1>7. gc[n] = ga[n]
  <2> DEFINE S == {k \in 0..n : gc[k] = ga[k]}
  <2>1. 0 \in S
    BY <1>1, <1>5
  <2>2. ASSUME NEW k \in 0..(n - 1), k \in S PROVE k + 1 \in S
    <3>1. k + 1 \in 1..n /\ k + 1 \in 1..(n + m) /\ k + 1 \in 0..n /\ (k + 1) - 1 = k
      BY <1>1
    <3>2. gc[k + 1] = gc[k] + c[k + 1].weight /\ ga[k + 1] = ga[k] + a[k + 1].weight
      BY <1>5, <3>1
    <3> QED BY <1>1, <2>2, <3>1, <3>2
  <2>3. 0..n \subseteq S
    <3> HIDE DEF S
    <3> QED BY <2>1, <2>2, <1>1, Climb
  <2> QED BY <1>1, <2>3
<1>8. gc[n + m] = ga[n] + gb[m]
  <2> DEFINE S == {k \in 0..m : gc[n + k] = ga[n] + gb[k]}
  <2>1. 0 \in S
    BY <1>1, <1>5, <1>7
  <2>2. ASSUME NEW k \in 0..(m - 1), k \in S PROVE k + 1 \in S
    <3>1. k + 1 \in 1..m /\ n + (k + 1) \in 1..(n + m) /\ k + 1 \in 0..m /\ (k + 1) - 1 = k
          /\ (n + (k + 1)) - 1 = n + k /\ n \in 0..n /\ k \in 0..m
      BY <1>1
    <3>2. gc[n + (k + 1)] = gc[n + k] + c[n + (k + 1)].weight
      BY <1>5, <3>1
    <3>3. gb[k + 1] = gb[k] + b[k + 1].weight /\ c[n + (k + 1)] = b[k + 1]
      BY <1>1, <1>5, <3>1
    <3>4. ga[n] \in Nat /\ gb[k] \in Nat /\ b[k + 1].weight \in Nat
      BY <1>5, <1>6, <3>1
    <3> QED BY <2>2, <3>1, <3>2, <3>3, <3>4
  <2>3. 0..m \subseteq S
    <3> HIDE DEF S
    <3> QED BY <2>1, <2>2, <1>1, Climb
  <2> QED BY <1>1, <2>3
<1>9. ga[n] \in Nat /\ gb[m] \in Nat
  BY <1>1, <1>5
<1> QED BY <1>2, <1>3, <1>4, <1>7, <1>8, <1>9 DEF c

\* What the gate asks of the detections: whether the firewall has an entry for
\* one of them, whether one is a drift of a dependency, and a severe one.
Hit(a) == \E i \in DOMAIN a : a[i].kind \in DOMAIN FirewallActions
Drifts(a) == \E i \in DOMAIN a : a[i].kind = "dependency_anomaly"
Severe(a) == \E i \in DOMAIN a : a[i].kind = "dependency_anomaly" /\ a[i].severe

\* a is what is detected with less seen, b with more: the weights do not fall, a
\* hit of the firewall stays one, a new one weighs enough for level RED, and the
\* drifts are the same.
Covers(a, b) ==
  /\ a \in Seq(Detections) /\ b \in Seq(Detections)
  /\ TotalWeight(a) \in Nat /\ TotalWeight(b) \in Nat
  /\ TotalWeight(a) <= TotalWeight(b)
  /\ Hit(a) => Hit(b)
  /\ Hit(b) => Hit(a) \/ TotalWeight(b) >= 70
  /\ Drifts(a) = Drifts(b) /\ Severe(a) = Severe(b)

\* What is detected is covered by itself.
LEMMA CoversItself ==
  ASSUME NEW a \in Seq(Detections)
  PROVE  Covers(a, a)
<1>1. TotalWeight(a) \in Nat
  BY TotalJoins
<1> QED BY <1>1 DEF Covers

\* Two sequences in a row ask what each of them asks.
LEMMA AsksJoin ==
  ASSUME NEW a \in Seq(Detections), NEW b \in Seq(Detections)
  PROVE  /\ Hit(a \o b) = (Hit(a) \/ Hit(b))
         /\ Drifts(a \o b) = (Drifts(a) \/ Drifts(b))
         /\ Severe(a \o b) = (Severe(a) \/ Severe(b))
<1> DEFINE c == a \o b
           n == Len(a)
           m == Len(b)
<1>1. /\ n \in Nat /\ m \in Nat
      /\ DOMAIN a = 1..n /\ DOMAIN b = 1..m /\ DOMAIN c = 1..(n + m)
      /\ \A k \in 1..n : c[k] = a[k]
      /\ \A k \in 1..m : c[n + k] = b[k]
  OBVIOUS
<1> HIDE DEF c, n, m
<1>2. \A i \in DOMAIN c : (\E k \in DOMAIN a : c[i] = a[k]) \/ (\E k \in DOMAIN b : c[i] = b[k])
  <2> SUFFICES ASSUME NEW i \in DOMAIN c, i \notin DOMAIN a
               PROVE  \E k \in DOMAIN b : c[i] = b[k]
    BY <1>1
  <2>1. i - n \in 1..m /\ n + (i - n) = i
    BY <1>1
  <2> QED BY <1>1, <2>1
<1>3. (\A k \in DOMAIN a : \E i \in DOMAIN c : c[i] = a[k])
      /\ (\A k \in DOMAIN b : \E i \in DOMAIN c : c[i] = b[k])
  <2>1. ASSUME NEW k \in DOMAIN b PROVE n + k \in DOMAIN c /\ c[n + k] = b[k]
    BY <1>1
  <2>2. ASSUME NEW k \in DOMAIN a PROVE k \in DOMAIN c /\ c[k] = a[k]
    BY <1>1
  <2> QED BY <2>1, <2>2
<1>4. Hit(c) <=> Hit(a) \/ Hit(b)
  BY ONLY <1>2, <1>3 DEF Hit
<1>5. Drifts(c) <=> Drifts(a) \/ Drifts(b)
  BY ONLY <1>2, <1>3 DEF Drifts
<1>6. Severe(c) <=> Severe(a) \/ Severe(b)
  BY ONLY <1>2, <1>3, Zenon DEF Severe
<1>7. Hit(c) \in BOOLEAN /\ Hit(a) \in BOOLEAN /\ Hit(b) \in BOOLEAN
      /\ Drifts(c) \in BOOLEAN /\ Severe(c) \in BOOLEAN
  BY DEF Hit, Drifts, Severe
<1> QED BY <1>4, <1>5, <1>6, <1>7 DEF c

\* What covers one after the other covers the two in a row.
LEMMA CoversJoin ==
  ASSUME NEW a, NEW b, NEW x, NEW y, Covers(a, x), Covers(b, y)
  PROVE  Covers(a \o b, x \o y)
<1>1. /\ a \in Seq(Detections) /\ b \in Seq(Detections)
      /\ x \in Seq(Detections) /\ y \in Seq(Detections)
  BY DEF Covers
<1>2. a \o b \in Seq(Detections) /\ x \o y \in Seq(Detections)
  BY <1>1
<1>3. /\ TotalWeight(a) \in Nat /\ TotalWeight(b) \in Nat
      /\ TotalWeight(a \o b) = TotalWeight(a) + TotalWeight(b)
  BY <1>1, TotalJoins
<1>4. /\ TotalWeight(x) \in Nat /\ TotalWeight(y) \in Nat
      /\ TotalWeight(x \o y) = TotalWeight(x) + TotalWeight(y)
  BY <1>1, TotalJoins
<1>5. /\ Hit(a \o b) = (Hit(a) \/ Hit(b))
      /\ Drifts(a \o b) = (Drifts(a) \/ Drifts(b))
      /\ Severe(a \o b) = (Severe(a) \/ Severe(b))
  BY <1>1, AsksJoin
<1>6. /\ Hit(x \o y) = (Hit(x) \/ Hit(y))
      /\ Drifts(x \o y) = (Drifts(x) \/ Drifts(y))
      /\ Severe(x \o y) = (Severe(x) \/ Severe(y))
  BY <1>1, AsksJoin
<1>7. /\ TotalWeight(a) <= TotalWeight(x) /\ TotalWeight(b) <= TotalWeight(y)
      /\ (Hit(a) => Hit(x)) /\ (Hit(b) => Hit(y))
      /\ (Hit(x) => Hit(a) \/ TotalWeight(x) >= 70)
      /\ (Hit(y) => Hit(b) \/ TotalWeight(y) >= 70)
      /\ Drifts(a) = Drifts(x) /\ Severe(a) = Severe(x)
      /\ Drifts(b) = Drifts(y) /\ Severe(b) = Severe(y)
  BY DEF Covers
<1> DEFINE p == a \o b
           q == x \o y
<1> HIDE DEF p, q
<1>8. Covers(p, q)
  <2>1. /\ TotalWeight(p) \in Nat /\ TotalWeight(q) \in Nat /\ TotalWeight(p) <= TotalWeight(q)
        /\ (TotalWeight(x) >= 70 => TotalWeight(q) >= 70)
        /\ (TotalWeight(y) >= 70 => TotalWeight(q) >= 70)
    BY <1>3, <1>4, <1>7 DEF p, q
  <2>2. (Hit(p) => Hit(q)) /\ (Hit(q) => Hit(p) \/ TotalWeight(q) >= 70)
    BY <1>5, <1>6, <1>7, <2>1 DEF p, q
  <2>3. Drifts(p) = Drifts(q) /\ Severe(p) = Severe(q)
    BY <1>5, <1>6, <1>7, Zenon DEF p, q
  <2> QED BY <1>2, <2>1, <2>2, <2>3 DEF Covers, p, q
<1> QED BY <1>8 DEF p, q

\* Of a kind that is detected or not, having it covers not having it.
Rises(kind) ==
  /\ Covers(<< >>, <<Detection(kind)>>)
  /\ Covers(<<Detection(kind)>>, <<Detection(kind)>>)
  /\ Covers(<< >>, << >>)

\* So it is with each kind that is no drift, and heavy if the firewall has an
\* entry for it.
LEMMA KindRises ==
  ASSUME NEW kind \in DOMAIN SignalWeights, SignalWeights[kind] \in Nat,
         kind # "dependency_anomaly", kind \in DOMAIN FirewallActions => SignalWeights[kind] >= 70
  PROVE  Rises(kind)
<1> DEFINE e == << >>
           d == Detection(kind)
           s == <<d>>
<1>1. d \in Detections /\ d.kind = kind /\ d.weight = SignalWeights[kind]
  BY DEF Detection, Detections
<1> HIDE DEF d
<1>2. e \in Seq(Detections) /\ s \in Seq(Detections) /\ Len(e) = 0 /\ Len(s) = 1 /\ s[1] = d
      /\ DOMAIN e = {} /\ DOMAIN s = {1}
  BY <1>1
<1>3. TotalWeight(e) = 0
  <2>1. PICK g : Sums(g, e) /\ TotalWeight(e) = g[Len(e)]
    BY <1>2, TotalIs
  <2> QED BY <1>2, <2>1 DEF Sums
<1>4. TotalWeight(s) = SignalWeights[kind]
  <2>1. PICK g : Sums(g, s) /\ TotalWeight(s) = g[Len(s)]
    BY <1>2, TotalIs
  <2>2. g[0] = 0 /\ \A k \in 1..1 : g[k] = g[k - 1] + s[k].weight
    BY <1>2, <2>1 DEF Sums
  <2>3. g[1] = g[0] + s[1].weight
    BY <2>2
  <2> QED BY <1>1, <1>2, <2>1, <2>2, <2>3
<1>5. ~Hit(e) /\ ~Drifts(e) /\ ~Severe(e) /\ ~Drifts(s) /\ ~Severe(s)
  BY <1>1, <1>2 DEF Hit, Drifts, Severe
<1>6. Hit(s) => kind \in DOMAIN FirewallActions
  BY <1>1, <1>2 DEF Hit
<1>7. Covers(e, s)
  <2> HIDE DEF e, s
  <2>1. Drifts(e) = Drifts(s) /\ Severe(e) = Severe(s)
    BY <1>5 DEF Drifts, Severe
  <2> QED BY <1>2, <1>3, <1>4, <1>5, <1>6, <2>1 DEF Covers
<1>8. Covers(e, e) /\ Covers(s, s)
  <2> HIDE DEF e, s
  <2> QED BY <1>2, CoversItself
<1> QED BY <1>7, <1>8 DEF Rises, d

\* The kinds that one part of the observation tells, or the principal.
Plain == {"prompt_injection", "tool_poisoning", "memory_poisoning",
          "artifact_tampering", "kernel_integrity_failure", "runaway_loop", "usage_velocity",
          "repeated_failure", "unusual_tool_sequence", "unexpected_transition"}

\* The weights of these kinds.
LEMMA PlainRise == \A kind \in Plain : Rises(kind)
<1> SUFFICES ASSUME NEW kind \in Plain PROVE Rises(kind)
  OBVIOUS
<1>1. kind \in DOMAIN SignalWeights /\ SignalWeights[kind] \in Nat /\ kind # "dependency_anomaly"
  BY DEF Plain, SignalWeights
<1>2. kind \in DOMAIN FirewallActions => SignalWeights[kind] >= 70
  BY DEF Plain, SignalWeights, FirewallActions
<1> QED BY <1>1, <1>2, KindRises

\* What the principal tells is a list of detections.
LEMMA ToldByPrincipal ==
  ASSUME NEW kind \in {"permission_escalation", "secret_access_anomaly"}
  PROVE  <<Detection(kind)>> \in Seq(Detections) /\ << >> \in Seq(Detections)
<1>1. kind \in DOMAIN SignalWeights /\ SignalWeights[kind] \in Nat
  BY DEF SignalWeights
<1>2. Detection(kind) \in Detections
  BY <1>1 DEF Detection, Detections
<1> HIDE DEF Detections
<1> QED BY <1>2

\* The drift of a dependency is a list of detections.
LEMMA DependencyTold ==
  ASSUME NEW drift
  PROVE  CheckDependency(drift) \in Seq(Detections)
<1>1. DependencyWeight(drift) \in Nat
  BY DEF DependencyWeight
<1>2. "dependency_anomaly" \in DOMAIN SignalWeights
  BY DEF SignalWeights
<1> DEFINE d == [kind |-> "dependency_anomaly", weight |-> DependencyWeight(drift),
                 severe |-> drift \in {"known_vulnerability", "install_script"}]
<1>3. (drift \in {"known_vulnerability", "install_script"}) \in BOOLEAN
  OBVIOUS
<1>4. d \in Detections
  BY <1>1, <1>2, <1>3 DEF Detections
<1>5. CheckDependency(drift) = IF drift = None THEN << >> ELSE <<d>>
  BY DEF CheckDependency
<1> HIDE DEF d, Detections
<1> QED BY <1>4, <1>5

\* What a request shows with one field of its observation missing.
LEMMA WithoutIs ==
  ASSUME NEW r, NEW f
  PROVE  /\ Without(r, f).principal = r.principal
         /\ Without(r, f).capability = r.capability
         /\ Without(r, f).blastRadius = r.blastRadius
         /\ \A g \in DOMAIN NoObservation :
              Without(r, f).observation[g]
                = IF g = f THEN NoObservation[g] ELSE r.observation[g]
BY DEF Without

\* A field that is not observed leaves a signal off, and the others as they are.
LEMMA SignalsFall ==
  ASSUME GateAssumption, NEW o, NEW q, NEW f,
         \A g \in DOMAIN NoObservation : q[g] = IF g = f THEN NoObservation[g] ELSE o[g]
  PROVE  /\ Injects(q.input) => Injects(o.input)
         /\ Injects(q.toolResult) => Injects(o.toolResult)
         /\ Poisons(q.memoryWrite) => Poisons(o.memoryWrite)
         /\ (q.artifact = "differs") => (o.artifact = "differs")
         /\ (q.integrity = "differs") => (o.integrity = "differs")
         /\ TooFast(q.usage) => TooFast(o.usage)
         /\ (q.repeatedFailures >= 3) => (o.repeatedFailures >= 3)
         /\ Unusual(q.toolSequence) => Unusual(o.toolSequence)
         /\ (q.unexpectedTransition = "illegal") => (o.unexpectedTransition = "illegal")
<1>1. DOMAIN NoObservation = {"input", "toolResult", "memoryWrite", "artifact", "integrity",
         "dependency", "runStats", "usage", "repeatedFailures", "toolSequence",
         "unexpectedTransition"}
  BY DEF NoObservation
<1>2. /\ NoObservation.input = None /\ NoObservation.toolResult = None
      /\ NoObservation.memoryWrite = None /\ NoObservation.artifact = None
      /\ NoObservation.integrity = None /\ NoObservation.usage = None
      /\ NoObservation.repeatedFailures = 0 /\ NoObservation.toolSequence = << >>
      /\ NoObservation.unexpectedTransition = None
  BY DEF NoObservation
<1>3. None # "differs" /\ None # "illegal"
  BY DEF GateAssumption
<1>4. ~Injects(None) /\ ~Poisons(None) /\ ~TooFast(None)
  BY DEF Injects, Poisons, TooFast
<1>5. ~Unusual(<< >>)
  BY DEF Unusual
<1>6. ~(0 >= 3)
  OBVIOUS
<1>10. Injects(q.input) => Injects(o.input)
  <2>1. q["input"] = IF "input" = f THEN NoObservation["input"] ELSE o["input"]
    BY <1>1
  <2> QED BY <1>2, <1>3, <1>4, <1>5, <1>6, <2>1
<1>11. Injects(q.toolResult) => Injects(o.toolResult)
  <2>1. q["toolResult"] = IF "toolResult" = f THEN NoObservation["toolResult"] ELSE o["toolResult"]
    BY <1>1
  <2> QED BY <1>2, <1>3, <1>4, <1>5, <1>6, <2>1
<1>12. Poisons(q.memoryWrite) => Poisons(o.memoryWrite)
  <2>1. q["memoryWrite"] = IF "memoryWrite" = f THEN NoObservation["memoryWrite"] ELSE o["memoryWrite"]
    BY <1>1
  <2> QED BY <1>2, <1>3, <1>4, <1>5, <1>6, <2>1
<1>13. (q.artifact = "differs") => (o.artifact = "differs")
  <2>1. q["artifact"] = IF "artifact" = f THEN NoObservation["artifact"] ELSE o["artifact"]
    BY <1>1
  <2> QED BY <1>2, <1>3, <1>4, <1>5, <1>6, <2>1
<1>14. (q.integrity = "differs") => (o.integrity = "differs")
  <2>1. q["integrity"] = IF "integrity" = f THEN NoObservation["integrity"] ELSE o["integrity"]
    BY <1>1
  <2> QED BY <1>2, <1>3, <1>4, <1>5, <1>6, <2>1
<1>15. TooFast(q.usage) => TooFast(o.usage)
  <2>1. q["usage"] = IF "usage" = f THEN NoObservation["usage"] ELSE o["usage"]
    BY <1>1
  <2> QED BY <1>2, <1>3, <1>4, <1>5, <1>6, <2>1
<1>16. (q.repeatedFailures >= 3) => (o.repeatedFailures >= 3)
  <2>1. q["repeatedFailures"] = IF "repeatedFailures" = f THEN NoObservation["repeatedFailures"] ELSE o["repeatedFailures"]
    BY <1>1
  <2> QED BY <1>2, <1>3, <1>4, <1>5, <1>6, <2>1
<1>17. Unusual(q.toolSequence) => Unusual(o.toolSequence)
  <2>1. q["toolSequence"] = IF "toolSequence" = f THEN NoObservation["toolSequence"] ELSE o["toolSequence"]
    BY <1>1
  <2> QED BY <1>2, <1>3, <1>4, <1>5, <1>6, <2>1
<1>18. (q.unexpectedTransition = "illegal") => (o.unexpectedTransition = "illegal")
  <2>1. q["unexpectedTransition"] = IF "unexpectedTransition" = f THEN NoObservation["unexpectedTransition"] ELSE o["unexpectedTransition"]
    BY <1>1
  <2> QED BY <1>2, <1>3, <1>4, <1>5, <1>6, <2>1
<1> QED BY <1>10, <1>11, <1>12, <1>13, <1>14, <1>15, <1>16, <1>17, <1>18

\* A field that is not observed takes its signals away and leaves the others.
LEMMA RunawayFalls ==
  ASSUME NEW a, NEW b, a = None \/ a = b
  PROVE  Covers(CheckRunaway(a), CheckRunaway(b))
<1> DEFINE kind == "runaway_loop"
           x == When(b.depth > DefaultCascade.maxAgentDepth, kind)
           y == When(b.children > DefaultCascade.maxChildren, kind)
           z == When(b.retries > DefaultCascade.maxRetry, kind)
           e == << >>
           v == (x \o y) \o z
<1>1. Rises(kind)
  BY PlainRise DEF Plain
<1>2. Covers(e, x) /\ Covers(e, y) /\ Covers(e, z) /\ Covers(e, e)
  BY <1>1 DEF Rises, When
<1> HIDE DEF x, y, z
<1>3. e \o e = e
  OBVIOUS
<1>4. CheckRunaway(b) = IF b = None THEN e ELSE v
  BY DEF CheckRunaway, x, y, z
<1>5. CheckRunaway(None) = e
  BY DEF CheckRunaway
<1> HIDE DEF e
<1>6. Covers(e, v)
  <2>1. Covers(e \o e, x \o y)
    BY ONLY <1>2, CoversJoin
  <2>2. Covers((e \o e) \o e, (x \o y) \o z)
    BY ONLY <1>2, <2>1, CoversJoin
  <2> QED BY <1>3, <2>2
<1> HIDE DEF v
<1>7. Covers(v, v)
  <2>1. v \in Seq(Detections)
    BY <1>6 DEF Covers
  <2> QED BY <2>1, CoversItself
<1> QED BY <1>2, <1>4, <1>5, <1>6, <1>7

\* Nothing that is detected goes away when more is seen, and what the firewall
\* begins to hit weighs enough for level RED.
LEMMA DetectCovers ==
  ASSUME GateAssumption, NEW r, NEW f \in DOMAIN NoObservation \ {"dependency"}
  PROVE  Covers(Detect(Without(r, f)), Detect(r))
<1> DEFINE w == Without(r, f)
           o == r.observation
           q == w.observation
<1>1. \A g \in DOMAIN NoObservation : q[g] = IF g = f THEN NoObservation[g] ELSE o[g]
  BY WithoutIs
<1>2. w.principal = r.principal /\ w.capability = r.capability
  BY WithoutIs
<1> DEFINE
     p1 == When(Injects(o.input), "prompt_injection")
     q1 == When(Injects(q.input), "prompt_injection")
     p2 == When(Injects(o.toolResult), "tool_poisoning")
     q2 == When(Injects(q.toolResult), "tool_poisoning")
     p3 == When(Poisons(o.memoryWrite), "memory_poisoning")
     q3 == When(Poisons(q.memoryWrite), "memory_poisoning")
     p4 == When(Escalates(r.principal, r.capability), "permission_escalation")
     q4 == When(Escalates(w.principal, w.capability), "permission_escalation")
     p5 == When(/\ r.capability = "secret.read"
                /\ r.principal.trust \notin {"TRUSTED", "VERIFIED"}, "secret_access_anomaly")
     q5 == When(/\ w.capability = "secret.read"
                /\ w.principal.trust \notin {"TRUSTED", "VERIFIED"}, "secret_access_anomaly")
     p6 == When(o.artifact = "differs", "artifact_tampering")
     q6 == When(q.artifact = "differs", "artifact_tampering")
     p7 == When(o.integrity = "differs", "kernel_integrity_failure")
     q7 == When(q.integrity = "differs", "kernel_integrity_failure")
     p8 == CheckDependency(o.dependency)
     q8 == CheckDependency(q.dependency)
     p9 == CheckRunaway(o.runStats)
     q9 == CheckRunaway(q.runStats)
     p10 == When(TooFast(o.usage), "usage_velocity")
     q10 == When(TooFast(q.usage), "usage_velocity")
     p11 == When(o.repeatedFailures >= 3, "repeated_failure")
     q11 == When(q.repeatedFailures >= 3, "repeated_failure")
     p12 == When(Unusual(o.toolSequence), "unusual_tool_sequence")
     q12 == When(Unusual(q.toolSequence), "unusual_tool_sequence")
     p13 == When(o.unexpectedTransition = "illegal", "unexpected_transition")
     q13 == When(q.unexpectedTransition = "illegal", "unexpected_transition")
<1>3. Detect(r) = p1 \o p2 \o p3 \o p4 \o p5 \o p6 \o p7 \o p8 \o p9 \o p10 \o p11 \o p12 \o p13
  BY Zenon DEF Detect
<1>4. Detect(w) = q1 \o q2 \o q3 \o q4 \o q5 \o q6 \o q7 \o q8 \o q9 \o q10 \o q11 \o q12 \o q13
  BY Zenon DEF Detect
<1> HIDE DEF w, o, q
<1>5. /\ Injects(q.input) => Injects(o.input)
      /\ Injects(q.toolResult) => Injects(o.toolResult)
      /\ Poisons(q.memoryWrite) => Poisons(o.memoryWrite)
      /\ (q.artifact = "differs") => (o.artifact = "differs")
      /\ (q.integrity = "differs") => (o.integrity = "differs")
      /\ TooFast(q.usage) => TooFast(o.usage)
      /\ (q.repeatedFailures >= 3) => (o.repeatedFailures >= 3)
      /\ Unusual(q.toolSequence) => Unusual(o.toolSequence)
      /\ (q.unexpectedTransition = "illegal") => (o.unexpectedTransition = "illegal")
  BY <1>1, SignalsFall
<1>6. q.dependency = o.dependency /\ (q.runStats = None \/ q.runStats = o.runStats)
  <2>1. {"dependency", "runStats"} \subseteq DOMAIN NoObservation /\ NoObservation["runStats"] = None
    BY DEF NoObservation
  <2>2. q["dependency"] = o["dependency"]
    BY <1>1, <2>1
  <2>3. q["runStats"] = IF "runStats" = f THEN NoObservation["runStats"] ELSE o["runStats"]
    BY <1>1, <2>1
  <2> QED BY <2>1, <2>2, <2>3
<1>7. \A kind \in Plain : Rises(kind)
  BY PlainRise
<1>21. Covers(q1, p1)
  <2>1. Rises("prompt_injection")
    BY <1>7 DEF Plain
  <2> QED BY <1>5, <2>1 DEF Rises, When
<1>22. Covers(q2, p2)
  <2>1. Rises("tool_poisoning")
    BY <1>7 DEF Plain
  <2> QED BY <1>5, <2>1 DEF Rises, When
<1>23. Covers(q3, p3)
  <2>1. Rises("memory_poisoning")
    BY <1>7 DEF Plain
  <2> QED BY <1>5, <2>1 DEF Rises, When
<1>26. Covers(q6, p6)
  <2>1. Rises("artifact_tampering")
    BY <1>7 DEF Plain
  <2> QED BY <1>5, <2>1 DEF Rises, When
<1>27. Covers(q7, p7)
  <2>1. Rises("kernel_integrity_failure")
    BY <1>7 DEF Plain
  <2> QED BY <1>5, <2>1 DEF Rises, When
<1>30. Covers(q10, p10)
  <2>1. Rises("usage_velocity")
    BY <1>7 DEF Plain
  <2> QED BY <1>5, <2>1 DEF Rises, When
<1>31. Covers(q11, p11)
  <2>1. Rises("repeated_failure")
    BY <1>7 DEF Plain
  <2> QED BY <1>5, <2>1 DEF Rises, When
<1>32. Covers(q12, p12)
  <2>1. Rises("unusual_tool_sequence")
    BY <1>7 DEF Plain
  <2> QED BY <1>5, <2>1 DEF Rises, When
<1>33. Covers(q13, p13)
  <2>1. Rises("unexpected_transition")
    BY <1>7 DEF Plain
  <2> QED BY <1>5, <2>1 DEF Rises, When
<1>24. Covers(q4, p4)
  <2>1. p4 \in Seq(Detections)
    BY ToldByPrincipal DEF When
  <2> HIDE DEF p4
  <2>2. q4 = p4
    BY <1>2 DEF p4
  <2> HIDE DEF q4
  <2> QED BY <2>1, <2>2, CoversItself
<1>25. Covers(q5, p5)
  <2>1. p5 \in Seq(Detections)
    BY ToldByPrincipal DEF When
  <2> HIDE DEF p5
  <2>2. q5 = p5
    BY <1>2 DEF p5
  <2> HIDE DEF q5
  <2> QED BY <2>1, <2>2, CoversItself
<1>28. Covers(q8, p8)
  BY <1>6, DependencyTold, CoversItself
<1>29. Covers(q9, p9)
  BY <1>6, RunawayFalls
<1> HIDE DEF p1, p2, p3, p4, p5, p6, p7, p8, p9, p10, p11, p12, p13,
             q1, q2, q3, q4, q5, q6, q7, q8, q9, q10, q11, q12, q13
<1>41. Covers(q1 \o q2,
             p1 \o p2)
  BY ONLY <1>21, <1>22, CoversJoin
<1>42. Covers(q1 \o q2 \o q3,
             p1 \o p2 \o p3)
  BY ONLY <1>41, <1>23, CoversJoin
<1>43. Covers(q1 \o q2 \o q3 \o q4,
             p1 \o p2 \o p3 \o p4)
  BY ONLY <1>42, <1>24, CoversJoin
<1>44. Covers(q1 \o q2 \o q3 \o q4 \o q5,
             p1 \o p2 \o p3 \o p4 \o p5)
  BY ONLY <1>43, <1>25, CoversJoin
<1>45. Covers(q1 \o q2 \o q3 \o q4 \o q5 \o q6,
             p1 \o p2 \o p3 \o p4 \o p5 \o p6)
  BY ONLY <1>44, <1>26, CoversJoin
<1>46. Covers(q1 \o q2 \o q3 \o q4 \o q5 \o q6 \o q7,
             p1 \o p2 \o p3 \o p4 \o p5 \o p6 \o p7)
  BY ONLY <1>45, <1>27, CoversJoin
<1>47. Covers(q1 \o q2 \o q3 \o q4 \o q5 \o q6 \o q7 \o q8,
             p1 \o p2 \o p3 \o p4 \o p5 \o p6 \o p7 \o p8)
  BY ONLY <1>46, <1>28, CoversJoin
<1>48. Covers(q1 \o q2 \o q3 \o q4 \o q5 \o q6 \o q7 \o q8 \o q9,
             p1 \o p2 \o p3 \o p4 \o p5 \o p6 \o p7 \o p8 \o p9)
  BY ONLY <1>47, <1>29, CoversJoin
<1>49. Covers(q1 \o q2 \o q3 \o q4 \o q5 \o q6 \o q7 \o q8 \o q9 \o q10,
             p1 \o p2 \o p3 \o p4 \o p5 \o p6 \o p7 \o p8 \o p9 \o p10)
  BY ONLY <1>48, <1>30, CoversJoin
<1>50. Covers(q1 \o q2 \o q3 \o q4 \o q5 \o q6 \o q7 \o q8 \o q9 \o q10 \o q11,
             p1 \o p2 \o p3 \o p4 \o p5 \o p6 \o p7 \o p8 \o p9 \o p10 \o p11)
  BY ONLY <1>49, <1>31, CoversJoin
<1>51. Covers(q1 \o q2 \o q3 \o q4 \o q5 \o q6 \o q7 \o q8 \o q9 \o q10 \o q11 \o q12,
             p1 \o p2 \o p3 \o p4 \o p5 \o p6 \o p7 \o p8 \o p9 \o p10 \o p11 \o p12)
  BY ONLY <1>50, <1>32, CoversJoin
<1>52. Covers(q1 \o q2 \o q3 \o q4 \o q5 \o q6 \o q7 \o q8 \o q9 \o q10 \o q11 \o q12 \o q13,
             p1 \o p2 \o p3 \o p4 \o p5 \o p6 \o p7 \o p8 \o p9 \o p10 \o p11 \o p12 \o p13)
  BY ONLY <1>51, <1>33, CoversJoin
<1> QED BY ONLY <1>3, <1>4, <1>52 DEF w

\* The firewall answers when it has an entry for a detection.
LEMMA FirewallHits ==
  ASSUME GateAssumption, NEW a \in Seq(Detections)
  PROVE  Firewall(a) # None <=> Hit(a)
<1> DEFINE hits == {i \in DOMAIN a : a[i].kind \in DOMAIN FirewallActions}
<1>1. Firewall(a) = IF hits = {} THEN None ELSE FirewallActions[a[Min(hits)].kind]
  BY DEF Firewall
<1>2. hits # {} <=> Hit(a)
  BY DEF Hit
<1>3. hits \in SUBSET Nat
  OBVIOUS
<1>4. \A kind \in DOMAIN FirewallActions : FirewallActions[kind] # None
  BY DEF FirewallActions, GateAssumption
<1>5. hits # {} => Min(hits) \in hits
  <2> HIDE DEF hits
  <2> QED BY <1>3, LeastOf
<1>6. \A i \in hits : a[i].kind \in DOMAIN FirewallActions
  OBVIOUS
<1> HIDE DEF hits
<1> QED BY <1>1, <1>2, <1>4, <1>5, <1>6

\* The gate's answer, by what it asks of the detections.
LEMMA Answers ==
  ASSUME GateAssumption, NEW c, NEW r, NEW a \in Seq(Detections), a = Detect(r),
         NEW level, level = MaxLevel(c.level, LevelForScore(RiskScore(a)))
  PROVE  /\ Evaluate(c, r).level =
              IF c.emergencyLock THEN "BLACK"
              ELSE IF Hit(a) THEN LevelForScore(RiskScore(a))
              ELSE IF Severe(a) THEN "RED"
              ELSE IF Drifts(a) THEN "YELLOW"
              ELSE IF c.safeMode /\ r.capability \in WriteOrRisky THEN "ORANGE"
              ELSE level
         /\ Evaluate(c, r).allowed <=>
              /\ ~c.emergencyLock /\ ~Hit(a) /\ ~Severe(a)
              /\ ~Drifts(a) => /\ ~(c.safeMode /\ r.capability \in WriteOrRisky)
                               /\ level \in {"GREEN", "YELLOW"}
<1> DEFINE score == RiskScore(a)
           action == Firewall(a)
           drifts == {i \in DOMAIN a : a[i].kind = "dependency_anomaly"}
           grave == \E i \in drifts : a[i].severe
           locked == c.safeMode /\ r.capability \in WriteOrRisky
           fine == level \in {"GREEN", "YELLOW"}
           e1 == Decision(FALSE, "block", "BLACK", 0, FALSE)
           e2 == Decision(FALSE, action, LevelForScore(score), score, FALSE)
           e3 == Decision(FALSE, "block", "RED", score, FALSE)
           e4 == Decision(TRUE, "monitor", "YELLOW", score, FALSE)
           e5 == Decision(FALSE, "restrict", "ORANGE", score, FALSE)
           e6 == Decision(level \in {"GREEN", "YELLOW"}, LevelAction[level], level, score,
                          level # "GREEN" /\ RequiresApproval(score, r.blastRadius))
<1>1. Evaluate(c, r) =
        IF c.emergencyLock THEN e1
        ELSE IF action # None THEN e2
        ELSE IF drifts # {} /\ grave THEN e3
        ELSE IF drifts # {} THEN e4
        ELSE IF locked THEN e5
        ELSE e6
  BY DEF Evaluate
<1>2. drifts # {} <=> Drifts(a)
  BY DEF Drifts
<1>3. drifts # {} /\ grave <=> Severe(a)
  BY Zenon DEF Severe
<1>4. action # None <=> Hit(a)
  BY FirewallHits
<1>5. /\ e1.level = "BLACK" /\ e2.level = LevelForScore(score) /\ e3.level = "RED"
      /\ e4.level = "YELLOW" /\ e5.level = "ORANGE" /\ e6.level = level
  BY DEF Decision
<1>6. ~e1.allowed /\ ~e2.allowed /\ ~e3.allowed /\ e4.allowed /\ ~e5.allowed
  BY DEF Decision
<1>7. e6.allowed <=> fine
  BY Zenon DEF Decision
<1> HIDE DEF e1, e2, e3, e4, e5, e6, action, drifts, grave
<1>8. CASE c.emergencyLock
  BY <1>1, <1>5, <1>6, <1>8
<1>9. CASE ~c.emergencyLock /\ Hit(a)
  BY <1>1, <1>4, <1>5, <1>6, <1>9
<1>10. CASE ~c.emergencyLock /\ ~Hit(a) /\ Severe(a)
  BY <1>1, <1>3, <1>4, <1>5, <1>6, <1>10
<1>11. CASE ~c.emergencyLock /\ ~Hit(a) /\ ~Severe(a) /\ Drifts(a)
  BY <1>1, <1>2, <1>3, <1>4, <1>5, <1>6, <1>11
<1>12. CASE ~c.emergencyLock /\ ~Hit(a) /\ ~Severe(a) /\ ~Drifts(a) /\ locked
  BY <1>1, <1>2, <1>3, <1>4, <1>5, <1>6, <1>12
<1>13. CASE ~c.emergencyLock /\ ~Hit(a) /\ ~Severe(a) /\ ~Drifts(a) /\ ~locked
  BY <1>1, <1>2, <1>3, <1>4, <1>5, <1>7, <1>13
<1> QED BY <1>8, <1>9, <1>10, <1>11, <1>12, <1>13

\* The score rises with what is detected.
LEMMA ScoreRises ==
  ASSUME NEW a, NEW b, Covers(a, b)
  PROVE  /\ RiskScore(a) \in Nat /\ RiskScore(b) \in Nat /\ RiskScore(a) <= RiskScore(b)
         /\ TotalWeight(b) >= 70 => RiskScore(b) >= 70
<1>1. /\ TotalWeight(a) \in Nat /\ TotalWeight(b) \in Nat
      /\ TotalWeight(a) <= TotalWeight(b)
  BY DEF Covers
<1>2. 100 \in Nat
  OBVIOUS
<1>3. /\ RiskScore(a) = IF 100 <= TotalWeight(a) THEN 100 ELSE TotalWeight(a)
      /\ RiskScore(b) = IF 100 <= TotalWeight(b) THEN 100 ELSE TotalWeight(b)
  BY <1>1, <1>2, MinOfTwo DEF RiskScore
<1> QED BY <1>1, <1>3

\* The level rises with the score.
LEMMA LevelRises ==
  ASSUME NEW x \in Nat, NEW y \in Nat, x <= y
  PROVE  /\ LevelForScore(x) \in ImmunityLevels /\ LevelForScore(y) \in ImmunityLevels
         /\ ImmunityOrder[LevelForScore(x)] <= ImmunityOrder[LevelForScore(y)]
         /\ y >= 70 => ImmunityOrder[LevelForScore(y)] >= 3
BY Levels DEF LevelForScore

\* So does the higher of the level of the score and that of the configuration.
LEMMA HigherRises ==
  ASSUME NEW l \in ImmunityLevels, NEW x \in ImmunityLevels, NEW y \in ImmunityLevels,
         ImmunityOrder[x] <= ImmunityOrder[y]
  PROVE  /\ MaxLevel(l, x) \in ImmunityLevels /\ MaxLevel(l, y) \in ImmunityLevels
         /\ ImmunityOrder[MaxLevel(l, x)] <= ImmunityOrder[MaxLevel(l, y)]
         /\ l # "BLACK" => \/ MaxLevel(l, x) = x
                           \/ ImmunityOrder[MaxLevel(l, x)] <= 3
BY Levels DEF MaxLevel

\* More detections leave the gate no more lenient.
LEMMA NeverMoreLenient ==
  ASSUME GateAssumption, NEW c \in GateConfiguration, NEW r, NEW w,
         w.capability = r.capability, Covers(Detect(w), Detect(r))
  PROVE  /\ Evaluate(c, r).allowed => Evaluate(c, w).allowed
         /\ c.level # "BLACK" =>
              ImmunityOrder[Evaluate(c, r).level] >= ImmunityOrder[Evaluate(c, w).level]
<1> DEFINE a == Detect(w)
           b == Detect(r)
           x == LevelForScore(RiskScore(a))
           y == LevelForScore(RiskScore(b))
           lx == MaxLevel(c.level, x)
           ly == MaxLevel(c.level, y)
           locked == c.safeMode /\ r.capability \in WriteOrRisky
           ea == Evaluate(c, w)
           eb == Evaluate(c, r)
<1>1. /\ a \in Seq(Detections) /\ b \in Seq(Detections)
      /\ (Hit(a) => Hit(b)) /\ (Hit(b) => Hit(a) \/ TotalWeight(b) >= 70)
      /\ (Drifts(a) <=> Drifts(b)) /\ (Severe(a) <=> Severe(b))
  BY DEF Covers
<1>2. /\ RiskScore(a) \in Nat /\ RiskScore(b) \in Nat /\ RiskScore(a) <= RiskScore(b)
      /\ TotalWeight(b) >= 70 => RiskScore(b) >= 70
  BY ScoreRises
<1>3. /\ x \in ImmunityLevels /\ y \in ImmunityLevels
      /\ ImmunityOrder[x] <= ImmunityOrder[y]
      /\ TotalWeight(b) >= 70 => ImmunityOrder[y] >= 3
  BY <1>2, LevelRises
<1>4. c.level \in ImmunityLevels
  BY DEF GateConfiguration
<1>5. /\ ea.level = IF c.emergencyLock THEN "BLACK" ELSE IF Hit(a) THEN x
                    ELSE IF Severe(a) THEN "RED" ELSE IF Drifts(a) THEN "YELLOW"
                    ELSE IF c.safeMode /\ w.capability \in WriteOrRisky THEN "ORANGE" ELSE lx
      /\ ea.allowed <=>
              /\ ~c.emergencyLock /\ ~Hit(a) /\ ~Severe(a)
              /\ ~Drifts(a) => /\ ~(c.safeMode /\ w.capability \in WriteOrRisky)
                               /\ lx \in {"GREEN", "YELLOW"}
  BY <1>1, Answers
<1>6. /\ eb.level = IF c.emergencyLock THEN "BLACK" ELSE IF Hit(b) THEN y
                    ELSE IF Severe(b) THEN "RED" ELSE IF Drifts(b) THEN "YELLOW"
                    ELSE IF c.safeMode /\ r.capability \in WriteOrRisky THEN "ORANGE" ELSE ly
      /\ eb.allowed <=>
              /\ ~c.emergencyLock /\ ~Hit(b) /\ ~Severe(b)
              /\ ~Drifts(b) => /\ ~(c.safeMode /\ r.capability \in WriteOrRisky)
                               /\ ly \in {"GREEN", "YELLOW"}
  BY <1>1, Answers
<1> HIDE DEF a, b, x, y
<1>7. /\ lx \in ImmunityLevels /\ ly \in ImmunityLevels
      /\ ImmunityOrder[lx] <= ImmunityOrder[ly]
      /\ c.level # "BLACK" => lx = x \/ ImmunityOrder[lx] <= 3
  BY <1>3, <1>4, HigherRises
<1> HIDE DEF lx, ly, ea, eb
<1>8. ly \in {"GREEN", "YELLOW"} => lx \in {"GREEN", "YELLOW"}
  BY <1>7, Levels
<1>9. eb.allowed => ea.allowed
  BY <1>1, <1>5, <1>6, <1>8
<1>10. c.level # "BLACK" => ImmunityOrder[eb.level] >= ImmunityOrder[ea.level]
  <2> SUFFICES ASSUME c.level # "BLACK" PROVE ImmunityOrder[eb.level] >= ImmunityOrder[ea.level]
    OBVIOUS
  <2>1. CASE c.emergencyLock
    BY <1>5, <1>6, <2>1, Levels
  <2>2. CASE ~c.emergencyLock /\ Hit(a)
    BY <1>1, <1>3, <1>5, <1>6, <2>2, Levels
  <2>3. CASE ~c.emergencyLock /\ ~Hit(a) /\ Hit(b)
    <3>1. eb.level = y /\ ImmunityOrder[y] >= 3
      BY <1>1, <1>3, <1>6, <2>3
    <3>2. ea.level \in {"RED", "YELLOW", "ORANGE", lx}
      BY <1>5, <2>3
    <3>3. ImmunityOrder[lx] <= ImmunityOrder[y]
      BY <1>3, <1>7, <3>1, Levels
    <3> QED BY <1>3, <3>1, <3>2, <3>3, Levels
  <2>4. CASE ~c.emergencyLock /\ ~Hit(b) /\ ~Hit(a)
    <3>1. ea.level = eb.level \/ (ea.level = lx /\ eb.level = ly)
      BY <1>1, <1>5, <1>6, <2>4
    <3>2. ea.level \in ImmunityLevels
      BY <1>5, <1>7, <2>4, Levels
    <3> QED BY <1>7, <3>1, <3>2, Levels
  <2> QED BY <1>1, <2>1, <2>2, <2>3, <2>4
<1> QED BY <1>9, <1>10 DEF ea, eb

\* Of any request and any configuration, seeing more never makes the gate allow
\* what it refused, nor lowers the level of its decision.
THEOREM MoreSignalsHolds == GateSpec => []MoreSignalsNeverAllow
<1> USE GateAssumption
<1>1. GateInit => MoreSignalsNeverAllow
  <2> SUFFICES ASSUME GateInit, NEW f \in DOMAIN NoObservation \ {"dependency"}
               PROVE  LET more == Evaluate(probe.config, probe.request)
                          less == Evaluate(probe.config, Without(probe.request, f))
                      IN /\ more.allowed => less.allowed
                         /\ probe.config.level # "BLACK" =>
                              ImmunityOrder[more.level] >= ImmunityOrder[less.level]
    BY DEF MoreSignalsNeverAllow
  <2>1. probe.config \in GateConfiguration
    BY DEF GateInit, GateAssumption
  <2>2. Without(probe.request, f).capability = probe.request.capability
    BY WithoutIs
  <2>3. Covers(Detect(Without(probe.request, f)), Detect(probe.request))
    BY DetectCovers
  <2> QED BY <2>1, <2>2, <2>3, NeverMoreLenient
<1>2. MoreSignalsNeverAllow /\ [FALSE]_probe => MoreSignalsNeverAllow'
  BY DEF MoreSignalsNeverAllow
<1> QED BY <1>1, <1>2, PTL DEF GateSpec
=============================================================================
