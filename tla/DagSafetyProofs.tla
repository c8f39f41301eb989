-------------------------- MODULE DagSafetyProofs --------------------------
(***************************************************************************)
(* The safety properties of the executor that need more of the state than  *)
(* the completed nodes: who is skipped and cancelled, what the ledger says *)
(* of every node, the order of completions, the budget of calls and the    *)
(* seats.  The invariant IInv of DagExecutorProofs is used throughout.     *)
(***************************************************************************)
EXTENDS DagExecutorProofs

-----------------------------------------------------------------------------
(* The strengthened invariant                                              *)

\* What the ledger says of a node in status s.  Two statuses have no event: a
\* denial, and the wait for it.
Mirrors(s, l) ==
  /\ s \in {"PLANNED", "READY"} => l \notin Terminal
  /\ s \in {"RUNNING", "WAITING"} => l = "RUNNING"
  /\ s = "FAILED" => l \in {"RUNNING", "FAILED"}
  /\ s \notin {"PLANNED", "READY", "WAITING", "FAILED"} => l = s
LedgerMirrors == \A n \in Nodes : Mirrors(status[n], ledger.st[n])

\* What is begun stands on completed nodes; a skip reaches all that depends on
\* the skipped node, and a cancellation all that was not skipped.
Untouched == {"PLANNED", "SKIPPED", "CANCELLED"}
Layered(st) ==
  \A n \in Nodes : \A x \in Deps[n] :
    /\ st[n] \notin Untouched => st[x] = "COMPLETED"
    /\ st[x] = "SKIPPED" => st[n] = "SKIPPED"
    /\ st[x] = "CANCELLED" => st[n] \in {"SKIPPED", "CANCELLED"}
    /\ st[n] = "CANCELLED" => st[x] # "PLANNED"

\* Nothing that could be ready is still planned.
PlannedWaits ==
  \A n \in Nodes : status[n] = "PLANNED" => \E x \in Deps[n] : status[x] # "COMPLETED"

\* The positions in f are those of a list: none is taken twice or past the end,
\* and what a node depends on comes before it.
Listed(f) ==
  \A n \in Nodes :
    /\ f[n] <= Cardinality({m \in Nodes : f[m] > 0})
    /\ f[n] > 0 => /\ \A m \in Nodes \ {n} : f[m] # f[n]
                   /\ \A x \in Deps[n] : f[x] \in 1..(f[n] - 1)

\* The first events of the nodes are listed, and so are the completions.
Sequenced(L) == Listed(L.seen) /\ \A n \in Nodes : Begun(L.st[n]) => L.seen[n] > 0
Completions == Listed(order) /\ \A n \in Nodes : order[n] > 0 <=> status[n] = "COMPLETED"

\* A sweep has completed nodes left to undo, and only while it goes on.
SweepCompleted ==
  \A n \in Nodes : /\ exec[n] # "sweeping" => sweep[n] = {}
                   /\ \A m \in sweep[n] : status[m] = "COMPLETED"

\* The attempt a crash would restore is the current one.
AttemptLogged == ledger.at = attempt /\ durable.at = attempt

\* Before the handler is called in an attempt, one call is left for it.
Uncalled == {"idle", "announced", "asking", "granted", "denied"}
Budgeted ==
  \A n \in Nodes :
    calls[n] + (IF exec[n] \in Uncalled THEN 1 ELSE 0) <= attempt[n] + crashes

\* What a called node depends on is completed for good.
CalledDeps ==
  \A n \in Nodes : calls[n] > 0 =>
    \A x \in Deps[n] : status[x] = "COMPLETED" /\ durable.st[x] = "COMPLETED"

\* finalize() is the last thing that happens, and the only one that judges.
LastWord ==
  IF driver = "finished"
  THEN /\ ledger = durable
       /\ \A n \in Nodes : /\ status[n] # "READY"
                           /\ exec[n] # "idle" => status[n] \in Terminal
                           /\ cancelled => status[n] \in Terminal
       /\ ~cancelled => verdicts = {Verdict(status)}
  ELSE verdicts = {}

Tables ==
  /\ LedgerMirrors /\ PlannedWaits /\ AttemptLogged
  /\ Layered(status) /\ Layered(ledger.st) /\ Layered(durable.st)
  /\ Sequenced(ledger) /\ Sequenced(durable)

SInv ==
  /\ IInv /\ Tables /\ Completions /\ SweepCompleted /\ Budgeted /\ CalledDeps /\ LastWord
  /\ OnlyApprovalRejects /\ SeatsMatch

-----------------------------------------------------------------------------
(* Lemmas about skipping, hydration and the ledger                         *)

\* What a skip reaches holds the roots and is closed under dependency, and it is
\* the least such set.
LEMMA CascadeFacts ==
  ASSUME NEW st, NEW roots \in SUBSET Nodes
  PROVE  /\ roots \subseteq Cascade(st, roots) /\ Cascade(st, roots) \subseteq Nodes
         /\ \A x \in Nodes : st[x] = "PLANNED" /\ Deps[x] \cap Cascade(st, roots) # {}
              => x \in Cascade(st, roots)
         /\ \A x \in Cascade(st, roots) : x \in roots \/ st[x] = "PLANNED"
         /\ \A S \in SUBSET Nodes :
              /\ roots \subseteq S
              /\ \A x \in Nodes : st[x] = "PLANNED" /\ Deps[x] \cap S # {} => x \in S
              => Cascade(st, roots) \subseteq S
<1> DEFINE C == Cascade(st, roots)
           Closed(S) == /\ roots \subseteq S
                        /\ \A x \in Nodes : st[x] = "PLANNED" /\ Deps[x] \cap S # {} => x \in S
<1>1. C = {m \in Nodes : \A S \in SUBSET Nodes : Closed(S) => m \in S}
  BY DEF Cascade
<1>2. roots \subseteq C /\ C \subseteq Nodes
  BY <1>1
<1>3. ASSUME NEW S \in SUBSET Nodes, Closed(S) PROVE C \subseteq S
  BY <1>1, <1>3
<1>4. ASSUME NEW x \in Nodes, st[x] = "PLANNED", Deps[x] \cap C # {} PROVE x \in C
  <2> SUFFICES ASSUME NEW S \in SUBSET Nodes, Closed(S) PROVE x \in S
    BY <1>1
  <2>1. Deps[x] \cap S # {}
    BY <1>3, <1>4
  <2> QED BY <1>4, <2>1
<1>5. \A x \in C : x \in roots \/ st[x] = "PLANNED"
  <2> DEFINE S == roots \cup {x \in Nodes : st[x] = "PLANNED"}
  <2>1. S \in SUBSET Nodes /\ Closed(S)
    OBVIOUS
  <2> QED BY <1>3, <2>1
<1> QED BY <1>2, <1>3, <1>4, <1>5

\* Skipping planned nodes keeps the layers.
LEMMA SkipLayered ==
  ASSUME NEW st \in [Nodes -> NodeStatus], NEW roots \in SUBSET Nodes,
         \A r \in roots : st[r] = "PLANNED", Layered(st)
  PROVE  Layered(Skip(st, roots))
<1> DEFINE C == Cascade(st, roots)
           sk == Skip(st, roots)
<1>1. \A n \in Nodes : \A x \in Deps[n] : x \in Nodes
  BY GraphAssumption
<1>2. /\ \A n \in Nodes : sk[n] = IF n \in C THEN "SKIPPED" ELSE st[n]
      /\ \A n \in C : st[n] = "PLANNED"
      /\ \A n \in Nodes : st[n] = "PLANNED" /\ Deps[n] \cap C # {} => n \in C
  BY CascadeFacts DEF Skip
<1> HIDE DEF C, sk
<1> SUFFICES ASSUME NEW n \in Nodes, NEW x \in Deps[n]
             PROVE  /\ sk[n] \notin Untouched => sk[x] = "COMPLETED"
                    /\ sk[x] = "SKIPPED" => sk[n] = "SKIPPED"
                    /\ sk[x] = "CANCELLED" => sk[n] \in {"SKIPPED", "CANCELLED"}
                    /\ sk[n] = "CANCELLED" => sk[x] # "PLANNED"
  BY DEF Layered, sk
<1>3. x \in Nodes
  BY <1>1
<1>4. /\ st[n] \notin Untouched => st[x] = "COMPLETED"
      /\ st[x] = "SKIPPED" => st[n] = "SKIPPED"
      /\ st[x] = "CANCELLED" => st[n] \in {"SKIPPED", "CANCELLED"}
      /\ st[n] = "CANCELLED" => st[x] # "PLANNED"
  BY DEF Layered
<1>5. sk[x] = "SKIPPED" => sk[n] = "SKIPPED"
  BY <1>2, <1>3, <1>4 DEF Untouched
<1> QED BY <1>2, <1>3, <1>4, <1>5 DEF Untouched

\* A node under way may move on, or begin or complete, without disturbing them.
LEMMA MoveLayered ==
  ASSUME NEW st \in [Nodes -> NodeStatus], Layered(st), NEW n \in Nodes, NEW s,
         \A x \in Deps[n] : st[x] = "COMPLETED",
         st[n] \notin {"COMPLETED", "SKIPPED", "CANCELLED"}, s \notin Untouched
  PROVE  Layered([st EXCEPT ![n] = s])
<1> DEFINE to == [st EXCEPT ![n] = s]
<1>1. \A m \in Nodes : \A x \in Deps[m] : x \in Nodes
  BY GraphAssumption
<1>2. to[n] = s /\ \A m \in Nodes \ {n} : to[m] = st[m]
  OBVIOUS
<1> HIDE DEF to
<1> SUFFICES ASSUME NEW m \in Nodes, NEW x \in Deps[m]
             PROVE  /\ to[m] \notin Untouched => to[x] = "COMPLETED"
                    /\ to[x] = "SKIPPED" => to[m] = "SKIPPED"
                    /\ to[x] = "CANCELLED" => to[m] \in {"SKIPPED", "CANCELLED"}
                    /\ to[m] = "CANCELLED" => to[x] # "PLANNED"
  BY DEF Layered, to
<1>3. CASE m = n
  BY <1>1, <1>2, <1>3 DEF Untouched
<1>4. CASE m # n
  BY <1>1, <1>2, <1>4 DEF Layered, Untouched
<1> QED BY <1>3, <1>4

\* hydrate() skips nothing that was not skipped before: it keeps the terminal
\* snapshots and promotes what stands on completed nodes.
LEMMA HydratedIs ==
  ASSUME NEW L \in Snapshots, Layered(L.st)
  PROVE  \A n \in Nodes :
           Hydrated(L)[n] = IF L.st[n] \in Terminal THEN L.st[n]
                            ELSE IF \A x \in Deps[n] : L.st[x] = "COMPLETED" THEN "READY"
                            ELSE "PLANNED"
<1> DEFINE kept == [n \in Nodes |-> IF L.st[n] \in Terminal THEN L.st[n] ELSE "PLANNED"]
           roots == {n \in Nodes : kept[n] = "SKIPPED"}
<1>1. \A n \in Nodes : \A x \in Deps[n] : x \in Nodes
  BY GraphAssumption
<1>2. Hydrated(L) = Promote(Skip(kept, roots))
  BY DEF Hydrated
<1>3. \A n \in Nodes : kept[n] = IF L.st[n] \in Terminal THEN L.st[n] ELSE "PLANNED"
  OBVIOUS
<1>3a. kept = [n \in Nodes |-> kept[n]]
  OBVIOUS
<1>4. roots \in SUBSET Nodes /\ \A n \in Nodes : n \in roots <=> L.st[n] = "SKIPPED"
  BY <1>3 DEF Terminal
<1> HIDE DEF kept
<1>5. Cascade(kept, roots) = roots
  <2>1. \A x \in Nodes : kept[x] = "PLANNED" /\ Deps[x] \cap roots # {} => x \in roots
    BY <1>1, <1>3, <1>4 DEF Layered, Terminal
  <2>2. Cascade(kept, roots) \subseteq roots
    <3> HIDE DEF roots
    <3> QED BY <2>1, <1>4, CascadeFacts
  <2>3. roots \subseteq Cascade(kept, roots)
    <3> HIDE DEF roots
    <3> QED BY <1>4, CascadeFacts
  <2> QED BY <2>2, <2>3
<1>6. Skip(kept, roots) = kept
  <2>1. \A n \in Nodes : (IF n \in Cascade(kept, roots) THEN "SKIPPED" ELSE kept[n]) = kept[n]
    BY <1>5
  <2> QED BY <2>1, <1>3a DEF Skip
<1>7. \A n \in Nodes : \A x \in Deps[n] : kept[x] = "COMPLETED" <=> L.st[x] = "COMPLETED"
  BY <1>1, <1>3 DEF Terminal
<1>8. \A n \in Nodes :
        Promote(kept)[n] =
          IF kept[n] = "PLANNED" /\ \A x \in Deps[n] : kept[x] = "COMPLETED"
          THEN "READY" ELSE kept[n]
  BY Moves DEF Promote
<1>9. \A n \in Nodes :
        (\A x \in Deps[n] : kept[x] = "COMPLETED") <=> \A x \in Deps[n] : L.st[x] = "COMPLETED"
  BY <1>7
<1> QED BY <1>2, <1>3, <1>6, <1>8, <1>9 DEF Terminal

\* What is hydrated is layered like the ledger it comes from.
LEMMA HydratedLayered ==
  ASSUME NEW L \in Snapshots, Layered(L.st)
  PROVE  Layered(Hydrated(L))
<1> DEFINE st == Hydrated(L)
<1>1. \A n \in Nodes : \A x \in Deps[n] : x \in Nodes
  BY GraphAssumption
<1>2. \A n \in Nodes : st[n] = IF L.st[n] \in Terminal THEN L.st[n]
                               ELSE IF \A x \in Deps[n] : L.st[x] = "COMPLETED" THEN "READY"
                               ELSE "PLANNED"
  BY HydratedIs
<1> HIDE DEF st
<1> SUFFICES ASSUME NEW n \in Nodes, NEW x \in Deps[n]
             PROVE  /\ st[n] \notin Untouched => st[x] = "COMPLETED"
                    /\ st[x] = "SKIPPED" => st[n] = "SKIPPED"
                    /\ st[x] = "CANCELLED" => st[n] \in {"SKIPPED", "CANCELLED"}
                    /\ st[n] = "CANCELLED" => st[x] # "PLANNED"
  BY DEF Layered, st
<1>3. x \in Nodes
  BY <1>1
<1>4. st[n] \notin Untouched => st[x] = "COMPLETED"
  BY <1>2, <1>3 DEF Layered, Untouched, Terminal
<1>5. /\ st[x] = "SKIPPED" => st[n] = "SKIPPED"
      /\ st[x] = "CANCELLED" => st[n] \in {"SKIPPED", "CANCELLED"}
  BY <1>2, <1>3 DEF Layered, Terminal
<1>6. st[n] = "CANCELLED" => st[x] # "PLANNED"
  <2> SUFFICES ASSUME st[n] = "CANCELLED", st[x] = "PLANNED" PROVE FALSE
    OBVIOUS
  <2>1. L.st[n] = "CANCELLED" /\ L.st[x] \notin Terminal
    BY <1>2, <1>3 DEF Terminal
  <2>2. L.st[x] \notin Untouched
    BY <2>1 DEF Layered, Untouched, Terminal
  <2>3. \A y \in Deps[x] : L.st[y] = "COMPLETED"
    BY <1>3, <2>2 DEF Layered
  <2> QED BY <1>2, <1>3, <2>1, <2>3
<1> QED BY <1>4, <1>5, <1>6

-----------------------------------------------------------------------------
(* What a segment of a node does to the tables, and what it leaves aside    *)

\* Of the statuses st and the ledger's l, the segment changes those of n only.
Turn(n, st, l) ==
  /\ status' = [st EXCEPT ![n] = status'[n]]
  /\ ledger'.st = [l EXCEPT ![n] = ledger'.st[n]]
  /\ status'[n] \notin Untouched \cup {"READY", "COMPLETED"}
  /\ ledger'.st[n] \notin Untouched \cup {"COMPLETED"}
  /\ Mirrors(status'[n], ledger'.st[n])

\* Variables no segment of a node assigns.
asideVars == <<order, running, used, cancelled, verdicts, crashes>>

\* The catch block, entered with the statuses st and the ledger L.
LEMMA CatchTurn ==
  ASSUME IInv, NEW n \in Nodes, NEW error,
         NEW st \in [Nodes -> NodeStatus], NEW L \in Snapshots,
         st[n] \in {"RUNNING", "FAILED", "WAITING"}, Mirrors(st[n], L.st[n]),
         Catch(n, error, st, L)
  PROVE  /\ Turn(n, st, L.st) /\ ledger'.at = L.at /\ ledger'.seen = L.seen
         /\ exec'[n] \in {"rejected", "backoff", "compensating"}
         /\ exec' = [exec EXCEPT ![n] = exec'[n]]
<1> DEFINE Into(e, s) ==
             /\ status' = [st EXCEPT ![n] = s] /\ exec' = [exec EXCEPT ![n] = e]
           Logs(s) == Record(Emit(L, n, s))
           Logs0 == ledger' = L /\ UNCHANGED durable
<1>1. \/ status' = st /\ exec' = [exec EXCEPT ![n] = "rejected"] /\ Logs0 /\ st[n] # "RUNNING"
      \/ Into("rejected", "QUARANTINED") /\ Logs("QUARANTINED")
      \/ Into("compensating", "COMPENSATING") /\ Logs("COMPENSATING")
      \/ Into("rejected", "FAILED") /\ Logs("FAILED")
      \/ Into("backoff", "RETRYING") /\ Logs("RETRYING")
  BY Moves DEF Catch, FailNode, IInv, TypeOK, NodeStatus
<1>2. L.st \in [Nodes -> NodeStatus] /\ exec \in [Nodes -> ExecState]
  BY DEF Snapshots, IInv, TypeOK
<1>3. CASE status' = st /\ exec' = [exec EXCEPT ![n] = "rejected"] /\ Logs0 /\ st[n] # "RUNNING"
  BY <1>2, <1>3 DEF Turn, Mirrors, Untouched
<1>4. ASSUME NEW s \in {"QUARANTINED", "COMPENSATING", "FAILED", "RETRYING"},
             NEW e \in {"rejected", "compensating", "backoff"}, Into(e, s), Logs(s)
      PROVE  /\ Turn(n, st, L.st) /\ ledger'.at = L.at /\ ledger'.seen = L.seen
             /\ exec'[n] = e /\ exec' = [exec EXCEPT ![n] = exec'[n]]
  <2>1. ledger' = Emit(L, n, s)
    BY <1>4 DEF Record
  <2>2. /\ ledger'.st = [L.st EXCEPT ![n] = s] /\ ledger'.at = L.at /\ ledger'.seen = L.seen
    BY <2>1 DEF Emit
  <2>3. status'[n] = s /\ ledger'.st[n] = s /\ exec'[n] = e
    BY <1>2, <1>4, <2>2
  <2>4. Mirrors(s, s) /\ s \notin Untouched \cup {"READY", "COMPLETED"}
    BY DEF Mirrors, Untouched, Terminal
  <2> QED BY <1>4, <2>2, <2>3, <2>4 DEF Turn
<1> QED BY <1>1, <1>3, <1>4

\* What a segment of node n does, besides what Segment(n) says.
Turned(n) ==
  /\ \E st \in [Nodes -> NodeStatus], l \in [Nodes -> NodeStatus] :
       /\ Turn(n, st, l) /\ Layered(st) /\ Layered(l)
       /\ st[n] = status[n] /\ l[n] = ledger.st[n]
       /\ \A m \in Nodes : Mirrors(st[m], l[m])
  /\ exec' = [exec EXCEPT ![n] = exec'[n]]
  /\ ledger'.at = attempt' /\ durable'.at = attempt'
  /\ ledger'.seen = ledger.seen
  /\ UNCHANGED asideVars

\* The same, when no other node is skipped.
LEMMA TurnAlone ==
  ASSUME IInv, Tables, NEW n \in Nodes, Turn(n, status, ledger.st),
         exec' = [exec EXCEPT ![n] = exec'[n]], UNCHANGED asideVars,
         ledger'.at = attempt', durable'.at = attempt', ledger'.seen = ledger.seen
  PROVE  Turned(n)
<1>1. status \in [Nodes -> NodeStatus] /\ ledger.st \in [Nodes -> NodeStatus]
  BY DEF IInv, TypeOK, Snapshots
<1>2. Layered(status) /\ Layered(ledger.st) /\ \A m \in Nodes : Mirrors(status[m], ledger.st[m])
  BY DEF Tables, LedgerMirrors
<1> QED BY <1>1, <1>2 DEF Turned

\* An attempt that throws where it stands.
LEMMA ThrowsTurned ==
  ASSUME IInv, Tables, NEW n \in Nodes, NEW error, Throws(n, error), Segment(n),
         exec[n] \in {"announced", "granted", "acting", "denied", "asking"}
  PROVE  /\ Turned(n) /\ UNCHANGED <<attempt, sweep>>
         /\ exec'[n] \in {"rejected", "backoff", "compensating"}
<1>1. status[n] \in {"RUNNING", "FAILED", "WAITING"} /\ Mirrors(status[n], ledger.st[n])
  BY DEF IInv, StatusFits, Fits, Tables, LedgerMirrors
<1>2. /\ status \in [Nodes -> NodeStatus] /\ ledger \in Snapshots
      /\ Catch(n, error, status, ledger)
      /\ UNCHANGED <<attempt, sweep, order, running, used, cancelled, verdicts, crashes>>
  BY DEF IInv, TypeOK, Throws, queueVars, runVars
<1>3. /\ Turn(n, status, ledger.st) /\ ledger'.at = ledger.at /\ ledger'.seen = ledger.seen
      /\ exec'[n] \in {"rejected", "backoff", "compensating"}
      /\ exec' = [exec EXCEPT ![n] = exec'[n]]
  BY <1>1, <1>2, CatchTurn
<1>4. ledger'.at = attempt' /\ durable'.at = attempt'
  BY <1>2, <1>3 DEF Tables, AttemptLogged, Segment
<1> QED BY <1>2, <1>3, <1>4, TurnAlone DEF asideVars

\* How a segment of node n spends calls and attempts.
Spends(n) ==
  \/ /\ UNCHANGED <<calls, attempt>>
     /\ exec'[n] \in Uncalled => exec[n] \in Uncalled
  \/ /\ calls' = [calls EXCEPT ![n] = @ + 1] /\ UNCHANGED attempt
     /\ exec[n] \in Uncalled /\ exec'[n] \notin Uncalled
  \/ UNCHANGED calls /\ attempt' = [attempt EXCEPT ![n] = @ + 1]

\* How it goes on with a sweep.
Rest(n, rest) ==
  /\ sweep' = [sweep EXCEPT ![n] = rest]
  /\ exec'[n] # "sweeping" => rest = {}
Sweeps(n) ==
  \/ UNCHANGED sweep /\ exec[n] # "sweeping" /\ exec'[n] # "sweeping"
  \/ exec[n] = "compensating" /\ Rest(n, Upstream(n))
  \/ /\ exec[n] = "sweeping"
     /\ \E m \in sweep[n] : /\ \A x \in sweep[n] : order[x] <= order[m]
                            /\ Rest(n, sweep[n] \ {m})

\* A segment that moves only its node, and emits at most one event of it.
LEMMA StepTurned ==
  ASSUME IInv, Tables, NEW n \in Nodes, NEW s, NEW e, Segment(n),
         s \notin Untouched \cup {"READY", "COMPLETED"},
         Step(n, [status EXCEPT ![n] = s], e),
         \/ UNCHANGED logVars /\ Mirrors(s, ledger.st[n])
         \/ Record(ledger) /\ Mirrors(s, ledger.st[n])
         \/ Record(Emit(ledger, n, s)) /\ Mirrors(s, s)
  PROVE  Turned(n) /\ UNCHANGED <<attempt, sweep>> /\ exec'[n] = e
<1>1. /\ status' = [status EXCEPT ![n] = s] /\ exec' = [exec EXCEPT ![n] = e]
      /\ UNCHANGED <<attempt, sweep, order, running, used, cancelled, verdicts, crashes>>
  BY DEF Step, queueVars, runVars
<1>2. /\ status'[n] = s /\ exec'[n] = e /\ ledger.st \in [Nodes -> NodeStatus]
  BY <1>1 DEF IInv, TypeOK, Snapshots
<1>3. ledger.st[n] \notin Untouched \cup {"COMPLETED"}
  BY UnderWay DEF Segment, Begun, Untouched
<1>4. /\ ledger'.st = [ledger.st EXCEPT ![n] = ledger'.st[n]]
      /\ ledger'.st[n] \notin Untouched \cup {"COMPLETED"} /\ Mirrors(s, ledger'.st[n])
      /\ ledger'.at = ledger.at /\ ledger'.seen = ledger.seen
  <2>1. CASE ledger' = ledger /\ Mirrors(s, ledger.st[n])
    BY <1>2, <1>3, <2>1
  <2>2. CASE ledger' = Emit(ledger, n, s) /\ Mirrors(s, s)
    <3>1. /\ ledger'.st = [ledger.st EXCEPT ![n] = s]
          /\ ledger'.at = ledger.at /\ ledger'.seen = ledger.seen
      BY <2>2 DEF Emit
    <3>2. ledger'.st[n] = s
      BY <1>2, <3>1
    <3> QED BY <2>2, <3>1, <3>2
  <2> QED BY <2>1, <2>2 DEF Record, logVars
<1>5. Turn(n, status, ledger.st)
  BY <1>1, <1>2, <1>4 DEF Turn
<1>6. ledger'.at = attempt' /\ durable'.at = attempt'
  BY <1>1, <1>4 DEF Tables, AttemptLogged, Segment
<1> QED BY <1>1, <1>2, <1>4, <1>5, <1>6, TurnAlone DEF asideVars

\* Asking for an approval, and the answer.
LEMMA ApprovalTurned ==
  ASSUME IInv, Tables, NEW n \in Nodes, Segment(n),
         Ask(n) \/ Grant(n) \/ Deny(n) \/ Refuse(n) \/ ApprovalFails(n)
  PROVE  Turned(n) /\ Spends(n) /\ Sweeps(n)
<1> USE Moves DEF worldVars, Untouched
<1>1. Fits(exec[n], status[n]) /\ Mirrors(status[n], ledger.st[n])
  BY DEF IInv, StatusFits, Tables, LedgerMirrors
<1>2. status \in [Nodes -> NodeStatus]
  BY DEF IInv, TypeOK
<1>3. CASE Ask(n)
  <2>1. /\ exec[n] = "announced" /\ Record(ledger) /\ calls' = calls
        /\ Step(n, [status EXCEPT ![n] = "WAITING"], "asking")
    BY <1>1, <1>2, <1>3 DEF Ask, Fits
  <2>2. Mirrors("WAITING", ledger.st[n])
    BY <1>1, <2>1 DEF Fits, Mirrors
  <2>3. Turned(n) /\ UNCHANGED <<attempt, sweep>> /\ exec'[n] = "asking"
    BY <2>1, <2>2, StepTurned
  <2> QED BY <2>1, <2>3 DEF Spends, Sweeps, Uncalled
<1>4. CASE Grant(n)
  <2>1. /\ exec[n] = "asking" /\ Record(ledger) /\ calls' = calls
        /\ Step(n, [status EXCEPT ![n] = "RUNNING"], "granted")
    BY <1>1, <1>2, <1>4 DEF Grant, Fits
  <2>2. Mirrors("RUNNING", ledger.st[n])
    BY <1>1, <2>1 DEF Fits, Mirrors
  <2>3. Turned(n) /\ UNCHANGED <<attempt, sweep>> /\ exec'[n] = "granted"
    BY <2>1, <2>2, StepTurned
  <2> QED BY <2>1, <2>3 DEF Spends, Sweeps, Uncalled
<1>5. CASE Deny(n)
  <2>1. /\ exec[n] = "asking" /\ Record(ledger) /\ calls' = calls
        /\ Step(n, [status EXCEPT ![n] = "FAILED"], "denied")
    BY <1>1, <1>2, <1>5 DEF Deny, Fits
  <2>2. Mirrors("FAILED", ledger.st[n])
    BY <1>1, <2>1 DEF Fits, Mirrors
  <2>3. Turned(n) /\ UNCHANGED <<attempt, sweep>> /\ exec'[n] = "denied"
    BY <2>1, <2>2, StepTurned
  <2> QED BY <2>1, <2>3 DEF Spends, Sweeps, Uncalled
<1>6. CASE Refuse(n)
  <2>1. exec[n] = "denied" /\ Throws(n, "denied") /\ calls' = calls
    BY <1>6 DEF Refuse
  <2> QED BY <2>1, ThrowsTurned DEF Spends, Sweeps, Uncalled
<1>7. CASE ApprovalFails(n)
  <2>1. exec[n] = "asking" /\ Throws(n, "provider") /\ calls' = calls
    BY <1>7 DEF ApprovalFails
  <2> QED BY <2>1, ThrowsTurned DEF Spends, Sweeps, Uncalled
<1> QED BY <1>3, <1>4, <1>5, <1>6, <1>7

\* The handler's call and its answer.
LEMMA HandlerTurned ==
  ASSUME IInv, Tables, NEW n \in Nodes, Segment(n),
         Invoke(n) \/ Unresolved(n) \/ Succeed(n) \/ Approved(n) \/ Fail(n) \/ Timeout(n)
           \/ Routed(n)
  PROVE  Turned(n) /\ Spends(n) /\ Sweeps(n)
<1> USE Moves DEF worldVars
<1>1. Fits(exec[n], status[n]) /\ Mirrors(status[n], ledger.st[n])
  BY DEF IInv, StatusFits, Tables, LedgerMirrors
<1>2. status \in [Nodes -> NodeStatus]
  BY DEF IInv, TypeOK
<1>3. CASE Invoke(n)
  <2>1. /\ exec[n] \in {"announced", "granted"} /\ UNCHANGED logVars
        /\ calls' = [calls EXCEPT ![n] = @ + 1]
        /\ Step(n, status, "acting")
    BY <1>3 DEF Invoke, MayAct
  <2>2. status[n] = "RUNNING" /\ status = [status EXCEPT ![n] = "RUNNING"]
    BY <1>1, <1>2, <2>1 DEF Fits
  <2>3. Turned(n) /\ UNCHANGED <<attempt, sweep>> /\ exec'[n] = "acting"
    <3>1. Step(n, [status EXCEPT ![n] = "RUNNING"], "acting")
      BY <2>1, <2>2
    <3>2. Mirrors("RUNNING", ledger.st[n])
      BY <1>1, <2>2
    <3> QED BY <2>1, <3>1, <3>2, StepTurned DEF Untouched
  <2> QED BY <2>1, <2>3 DEF Spends, Sweeps, Uncalled
<1>4. ASSUME NEW error, Throws(n, error), calls' = calls,
             exec[n] \in {"announced", "granted", "acting"}
      PROVE  Turned(n) /\ Spends(n) /\ Sweeps(n)
  BY <1>4, ThrowsTurned DEF Spends, Sweeps, Uncalled
<1>5. CASE Unresolved(n) \/ Fail(n) \/ Timeout(n)
  BY <1>4, <1>5 DEF Unresolved, MayAct, Fail, Timeout
<1>6. ASSUME NEW value, Verified(n, value), calls' = calls,
             exec[n] \in {"acting", "granted", "routed"}
      PROVE  Turned(n) /\ Spends(n) /\ Sweeps(n)
  <2>1. /\ Step(n, [status EXCEPT ![n] = "VERIFYING"], "verified")
        /\ Record(Emit(ledger, n, "VERIFYING"))
    BY <1>1, <1>2, <1>6 DEF Verified, Fits
  <2>2. Mirrors("VERIFYING", "VERIFYING") /\ "VERIFYING" \notin Untouched \cup {"READY", "COMPLETED"}
    BY DEF Mirrors, Untouched
  <2>3. Turned(n) /\ UNCHANGED <<attempt, sweep>> /\ exec'[n] = "verified"
    BY <2>1, <2>2, StepTurned
  <2> QED BY <1>6, <2>3 DEF Spends, Sweeps, Uncalled
<1>7. CASE Succeed(n) \/ Approved(n) \/ Routed(n)
  BY <1>6, <1>7 DEF Succeed, Approved, Routed
<1> QED BY <1>3, <1>5, <1>7

\* The skips of a conditional: its ledger keeps the layers and mirrors them.
LEMMA SkipsLogged ==
  ASSUME IInv, Tables, NEW roots \in SUBSET Nodes, \A r \in roots : status[r] = "PLANNED"
  PROVE  LET st == Skip(status, roots)
             l == EmitSkipped(ledger, st).st
         IN /\ st \in [Nodes -> NodeStatus] /\ l \in [Nodes -> NodeStatus]
            /\ \A m \in Nodes : st[m] = status[m] \/ (status[m] = "PLANNED" /\ st[m] = "SKIPPED")
            /\ \A m \in Nodes : l[m] = IF st[m] = "SKIPPED" THEN "SKIPPED" ELSE ledger.st[m]
            /\ Layered(st) /\ Layered(l) /\ \A m \in Nodes : Mirrors(st[m], l[m])
<1> DEFINE st == Skip(status, roots)
           L == EmitSkipped(ledger, st)
<1>1. status \in [Nodes -> NodeStatus] /\ ledger \in Snapshots
  BY DEF IInv, TypeOK
<1>2. /\ st \in [Nodes -> NodeStatus]
      /\ \A m \in Nodes : st[m] = status[m] \/ (status[m] = "PLANNED" /\ st[m] = "SKIPPED")
  BY <1>1, SkipFacts
<1>3. Layered(st)
  BY <1>1, SkipLayered DEF Tables
<1> HIDE DEF st
<1>4. /\ L.st \in [Nodes -> NodeStatus]
      /\ \A m \in Nodes : L.st[m] = IF st[m] = "SKIPPED" THEN "SKIPPED" ELSE ledger.st[m]
  <2>1. L \in Snapshots
    BY <1>1, EmitSkippedFacts
  <2> QED BY <1>1, <2>1, EmitSkippedFacts DEF Snapshots
<1> HIDE DEF L
<1>5. ASSUME NEW m \in Nodes PROVE Mirrors(st[m], L.st[m])
  <2>1. Mirrors(status[m], ledger.st[m])
    BY DEF Tables, LedgerMirrors
  <2> QED BY <1>2, <1>4, <2>1 DEF Mirrors, Terminal
<1>6. ASSUME NEW m \in Nodes, NEW x \in Deps[m]
      PROVE  /\ L.st[m] \notin Untouched => L.st[x] = "COMPLETED"
             /\ L.st[x] = "SKIPPED" => L.st[m] = "SKIPPED"
             /\ L.st[x] = "CANCELLED" => L.st[m] \in {"SKIPPED", "CANCELLED"}
             /\ L.st[m] = "CANCELLED" => L.st[x] # "PLANNED"
  <2>1. x \in Nodes
    BY GraphAssumption
  <2>2. /\ ledger.st[m] \notin Untouched => ledger.st[x] = "COMPLETED"
        /\ ledger.st[x] = "SKIPPED" => ledger.st[m] = "SKIPPED"
        /\ ledger.st[x] = "CANCELLED" => ledger.st[m] \in {"SKIPPED", "CANCELLED"}
        /\ ledger.st[m] = "CANCELLED" => ledger.st[x] # "PLANNED"
    BY DEF Tables, Layered
  <2>3. st[x] = "SKIPPED" => st[m] = "SKIPPED"
    BY <1>3 DEF Layered
  <2>4. Mirrors(st[x], L.st[x]) /\ Mirrors(st[m], L.st[m])
    BY <1>5, <2>1
  <2>5. st[x] = "SKIPPED" <=> L.st[x] = "SKIPPED"
    BY <2>4 DEF Mirrors, Terminal
  <2> QED BY <1>4, <2>1, <2>2, <2>3, <2>5 DEF Untouched
<1>7. Layered(L.st)
  BY <1>6 DEF Layered
<1> QED BY <1>2, <1>3, <1>4, <1>5, <1>7 DEF st, L

\* A conditional skips the branch it did not take, all of it or up to a throw.
LEMMA RouteTurned ==
  ASSUME IInv, Tables, NEW n \in Nodes, NEW branch \in {"yes", "no"}, Route(n, branch), Segment(n)
  PROVE  Turned(n) /\ Spends(n) /\ Sweeps(n)
<1> DEFINE targets == Untaken(n, branch)
           roots == SkipRoots(status, targets)
           st == Skip(status, roots)
           L == EmitSkipped(ledger, st)
<1>1. /\ exec[n] \in {"acting", "announced"} /\ status[n] = "RUNNING"
      /\ Mirrors(status[n], ledger.st[n])
  BY DEF Route, Source, IInv, StatusFits, Fits, Tables, LedgerMirrors
<1>2. roots \in SUBSET Nodes /\ \A r \in roots : status[r] = "PLANNED"
  <2>1. Then[n] \in Seq(Nodes) /\ Else[n] \in Seq(Nodes)
    BY GraphAssumption
  <2>2. targets \in Seq(Nodes)
    BY <2>1 DEF Untaken
  <2> QED BY <2>2 DEF SkipRoots
<1>3. ledger \in Snapshots
  BY DEF IInv, TypeOK
<1>4. /\ \/ Step(n, st, "routed") /\ ledger' = L /\ durable' = durable
         \/ /\ Catch(n, "illegal", st, L)
            /\ UNCHANGED <<attempt, result, sweep, order, queueVars, runVars>>
      /\ calls' = calls
  BY DEF Route
<1> HIDE DEF targets, roots
<1>5. /\ st \in [Nodes -> NodeStatus] /\ L.st \in [Nodes -> NodeStatus]
      /\ \A m \in Nodes : st[m] = status[m] \/ (status[m] = "PLANNED" /\ st[m] = "SKIPPED")
      /\ \A m \in Nodes : L.st[m] = IF st[m] = "SKIPPED" THEN "SKIPPED" ELSE ledger.st[m]
      /\ Layered(st) /\ Layered(L.st) /\ \A m \in Nodes : Mirrors(st[m], L.st[m])
  BY <1>2, SkipsLogged
<1> HIDE DEF st
<1>6. L \in Snapshots /\ L.at = ledger.at /\ L.seen = ledger.seen
  BY <1>3, EmitSkippedFacts DEF EmitSkipped
<1> HIDE DEF L
<1>7. st[n] = status[n] /\ L.st[n] = ledger.st[n] /\ Mirrors(st[n], L.st[n])
  BY <1>1, <1>5
<1>8. /\ Turn(n, st, L.st) /\ ledger'.at = L.at /\ ledger'.seen = L.seen
      /\ exec'[n] \in {"routed", "rejected", "backoff", "compensating"}
      /\ exec' = [exec EXCEPT ![n] = exec'[n]]
      /\ UNCHANGED <<attempt, sweep, order, running, used, cancelled, verdicts, crashes>>
  <2>1. CASE Step(n, st, "routed") /\ ledger' = L
    <3>1. /\ status' = st /\ exec' = [exec EXCEPT ![n] = "routed"]
          /\ UNCHANGED <<attempt, sweep, order, running, used, cancelled, verdicts, crashes>>
      BY <2>1 DEF Step, queueVars, runVars
    <3>2. exec'[n] = "routed" /\ status'[n] = "RUNNING" /\ ledger'.st[n] = "RUNNING"
      BY <1>1, <1>7, <2>1, <3>1 DEF IInv, TypeOK, Mirrors
    <3>3. Turn(n, st, L.st)
      BY <1>5, <1>7, <2>1, <3>1, <3>2 DEF Turn, Untouched
    <3> QED BY <2>1, <3>1, <3>2, <3>3
  <2>2. CASE /\ Catch(n, "illegal", st, L)
             /\ UNCHANGED <<attempt, result, sweep, order, queueVars, runVars>>
    <3>1. UNCHANGED <<attempt, sweep, order, running, used, cancelled, verdicts, crashes>>
      BY <2>2 DEF queueVars, runVars
    <3> QED BY <1>1, <1>5, <1>6, <1>7, <2>2, <3>1, CatchTurn
  <2> QED BY <1>4, <2>1, <2>2
<1>9. ledger'.at = attempt' /\ durable'.at = attempt'
  BY <1>6, <1>8 DEF Tables, AttemptLogged, Segment
<1>10. Turned(n)
  BY <1>5, <1>6, <1>7, <1>8, <1>9 DEF Turned, asideVars
<1> QED BY <1>1, <1>4, <1>8, <1>10 DEF Spends, Sweeps, Uncalled

\* The next attempt of a node in backoff: it has had its first event.
LEMMA WakeTurned ==
  ASSUME IInv, Tables, NEW n \in Nodes, Wake(n), Segment(n)
  PROVE  Turned(n) /\ Spends(n) /\ Sweeps(n)
<1> DEFINE k == attempt[n] + 1
<1>1. /\ exec[n] = "backoff" /\ status[n] = "RETRYING" /\ Mirrors(status[n], ledger.st[n])
  BY DEF Wake, IInv, StatusFits, Fits, Tables, LedgerMirrors
<1>2. /\ status' = [status EXCEPT ![n] = "RUNNING"]
      /\ attempt' = [attempt EXCEPT ![n] = k]
      /\ exec' = [exec EXCEPT ![n] = "announced"]
      /\ ledger' = EmitRunning(ledger, n, k) /\ durable' = ledger'
      /\ UNCHANGED <<sweep, order, running, used, cancelled, verdicts, crashes, calls>>
  BY <1>1, Moves DEF Wake, Announce, Record, queueVars, runVars, worldVars, IInv, TypeOK
<1> HIDE DEF k
<1>3. /\ ledger \in Snapshots /\ ledger.st \in [Nodes -> NodeStatus]
      /\ ledger.seen \in [Nodes -> Nat] /\ ledger.at = attempt
  BY DEF IInv, TypeOK, Snapshots, Tables, AttemptLogged
<1>4. ledger.seen[n] > 0
  BY <1>1 DEF Tables, Sequenced, Mirrors, Begun
<1>5. /\ ledger'.st = [ledger.st EXCEPT ![n] = "RUNNING"]
      /\ ledger'.at = attempt'
      /\ ledger'.seen = [ledger.seen EXCEPT ![n] = IF @ = 0 THEN NextPlace(ledger.seen) ELSE @]
  BY <1>2, <1>3 DEF EmitRunning
<1>6. ledger'.seen = ledger.seen
  BY <1>3, <1>4, <1>5
<1>7. /\ status'[n] = "RUNNING" /\ ledger'.st[n] = "RUNNING" /\ exec'[n] = "announced"
  BY <1>2, <1>3, <1>5 DEF IInv, TypeOK
<1>8. Turn(n, status, ledger.st)
  BY <1>2, <1>5, <1>7 DEF Turn, Mirrors, Untouched
<1>9. Turned(n)
  <2>1. exec' = [exec EXCEPT ![n] = exec'[n]] /\ UNCHANGED asideVars
    BY <1>2, <1>7 DEF asideVars
  <2>2. ledger'.at = attempt' /\ durable'.at = attempt' /\ ledger'.seen = ledger.seen
    BY <1>2, <1>5, <1>6
  <2> QED BY <1>8, <2>1, <2>2, TurnAlone
<1> QED BY <1>1, <1>2, <1>7, <1>9 DEF Spends, Sweeps, Uncalled, k

\* The sweep, from the node's own compensation to the last of its upstream.
LEMMA SweepTurned ==
  ASSUME IInv, Tables, NEW n \in Nodes, Segment(n), Compensate(n) \/ Undo(n)
  PROVE  Turned(n) /\ Spends(n) /\ Sweeps(n)
<1>1. /\ Fits(exec[n], status[n]) /\ Mirrors(status[n], ledger.st[n])
      /\ ledger.st \in [Nodes -> NodeStatus] /\ status \in [Nodes -> NodeStatus]
      /\ exec \in [Nodes -> ExecState]
  BY DEF IInv, StatusFits, Tables, LedgerMirrors, TypeOK, Snapshots
<1>2. ASSUME NEW rest, NEW L, Sweep(n, rest, L),
             exec[n] \in {"compensating", "sweeping"},
             L.st = [ledger.st EXCEPT ![n] = "ROLLED_BACK"],
             L.at = ledger.at, L.seen = ledger.seen,
             status' = [status EXCEPT ![n] = "ROLLED_BACK"],
             UNCHANGED <<attempt, failures, result, order, queueVars, runVars, calls>>
      PROVE  Turned(n) /\ Spends(n) /\ Rest(n, rest)
  <2>1. /\ exec' = [exec EXCEPT ![n] = IF rest = {} THEN "rejected" ELSE "sweeping"]
        /\ sweep' = [sweep EXCEPT ![n] = rest] /\ ledger' = L
        /\ UNCHANGED <<attempt, order, running, used, cancelled, verdicts, crashes, calls>>
    BY <1>2 DEF Sweep, queueVars, runVars
  <2>2. /\ exec'[n] = (IF rest = {} THEN "rejected" ELSE "sweeping")
        /\ status'[n] = "ROLLED_BACK" /\ ledger'.st[n] = "ROLLED_BACK"
    BY <1>1, <1>2, <2>1
  <2>3. Turn(n, status, ledger.st)
    BY <1>2, <2>1, <2>2 DEF Turn, Mirrors, Untouched, Terminal
  <2>4. ledger'.at = attempt' /\ durable'.at = attempt'
    BY <1>2, <2>1 DEF Tables, AttemptLogged, Segment
  <2>5. Turned(n)
    BY <1>2, <2>1, <2>2, <2>3, <2>4, TurnAlone DEF asideVars
  <2> QED BY <1>2, <2>1, <2>2, <2>5 DEF Spends, Rest, Uncalled
<1>3. CASE Compensate(n)
  <2>1. exec[n] = "compensating" /\ status[n] = "COMPENSATING"
    BY <1>1, <1>3 DEF Compensate, Fits
  <2>2. /\ Sweep(n, Upstream(n), Emit(ledger, n, "ROLLED_BACK"))
        /\ status' = [status EXCEPT ![n] = "ROLLED_BACK"]
        /\ UNCHANGED <<attempt, failures, result, order, queueVars, runVars, calls>>
    BY <1>1, <1>3, <2>1, Moves DEF Compensate, worldVars
  <2>3. LET L == Emit(ledger, n, "ROLLED_BACK")
        IN /\ L.st = [ledger.st EXCEPT ![n] = "ROLLED_BACK"]
           /\ L.at = ledger.at /\ L.seen = ledger.seen
    BY DEF Emit
  <2>4. Turned(n) /\ Spends(n) /\ Rest(n, Upstream(n))
    BY <1>2, <2>1, <2>2, <2>3
  <2> QED BY <2>1, <2>4 DEF Sweeps
<1>4. CASE Undo(n)
  <2>1. exec[n] = "sweeping" /\ status[n] = "ROLLED_BACK" /\ ledger.st[n] = "ROLLED_BACK"
    BY <1>1, <1>4 DEF Undo, Fits, Mirrors
  <2>2. PICK m \in sweep[n] : /\ \A x \in sweep[n] : order[x] <= order[m]
                              /\ Sweep(n, sweep[n] \ {m}, ledger)
    BY <1>4 DEF Undo
  <2>3. /\ status' = [status EXCEPT ![n] = "ROLLED_BACK"]
        /\ ledger.st = [ledger.st EXCEPT ![n] = "ROLLED_BACK"]
        /\ UNCHANGED <<attempt, failures, result, order, queueVars, runVars, calls>>
    BY <1>1, <1>4, <2>1 DEF Undo, nodeVars
  <2>4. Turned(n) /\ Spends(n) /\ Rest(n, sweep[n] \ {m})
    BY <1>2, <2>1, <2>2, <2>3
  <2> QED BY <2>1, <2>2, <2>4 DEF Sweeps
<1> QED BY <1>3, <1>4

\* Every segment of a node, and every answer it is given.
LEMMA NodeTurned ==
  ASSUME IInv, Tables, NEW n \in Nodes, NodeStep(n) \/ Answer(n) \/ Timeout(n)
  PROVE  IInv' /\ Segment(n) /\ Turned(n) /\ Spends(n) /\ Sweeps(n)
<1>1. TypeOK' /\ Segment(n)
  BY ApprovalSegments, HandlerSegments, RouteSegment, WakeSegment, SweepSegments
  DEF NodeStep, Answer
<1>2. IInv'
  BY <1>1, SegmentPreserves
<1>3. Turned(n) /\ Spends(n) /\ Sweeps(n)
  BY <1>1, ApprovalTurned, HandlerTurned, RouteTurned, WakeTurned, SweepTurned
  DEF NodeStep, Answer
<1> QED BY <1>1, <1>2, <1>3

-----------------------------------------------------------------------------
(* The segments keep the strengthened invariant                             *)

\* A segment completes nothing, and takes no completion back.
LEMMA SegmentKeeps ==
  ASSUME IInv, NEW n \in Nodes, Segment(n), Turned(n)
  PROVE  /\ \A m \in Nodes : status'[m] = "COMPLETED" <=> status[m] = "COMPLETED"
         /\ \A m \in Nodes : durable.st[m] = "COMPLETED" => durable'.st[m] = "COMPLETED"
<1>1. status[n] # "COMPLETED" /\ ledger.st[n] # "COMPLETED"
  BY UnderWay DEF Segment
<1>2. status'[n] # "COMPLETED"
  BY DEF Turned, Turn
<1>3. \A m \in Nodes : status'[m] = "COMPLETED" <=> status[m] = "COMPLETED"
  BY <1>1, <1>2 DEF Segment
<1>4. ASSUME NEW m \in Nodes, durable.st[m] = "COMPLETED"
      PROVE  durable'.st[m] = "COMPLETED"
  <2>1. ledger.st[m] = "COMPLETED" /\ status[m] = "COMPLETED"
    BY <1>4 DEF IInv, DoneLogged
  <2>2. ledger'.st[m] = "COMPLETED"
    BY <1>1, <1>3, <2>1 DEF Segment
  <2> QED BY <1>4, <2>2 DEF Segment
<1> QED BY <1>3, <1>4

\* A segment of a node keeps what the ledger, the statuses and the positions say
\* of each other.
LEMMA SegmentTables ==
  ASSUME IInv, Tables, NEW n \in Nodes, Segment(n), Turned(n)
  PROVE  Tables'
<1>1. PICK st \in [Nodes -> NodeStatus], l \in [Nodes -> NodeStatus] :
        /\ Turn(n, st, l) /\ Layered(st) /\ Layered(l)
        /\ st[n] = status[n] /\ l[n] = ledger.st[n]
        /\ \A m \in Nodes : Mirrors(st[m], l[m])
  BY DEF Turned
<1>2. /\ status' = [st EXCEPT ![n] = status'[n]]
      /\ ledger'.st = [l EXCEPT ![n] = ledger'.st[n]]
      /\ status'[n] \notin Untouched \cup {"READY", "COMPLETED"}
      /\ ledger'.st[n] \notin Untouched \cup {"COMPLETED"}
      /\ Mirrors(status'[n], ledger'.st[n])
  BY <1>1 DEF Turn
<1>3. /\ st[n] \notin {"COMPLETED", "PLANNED", "SKIPPED", "CANCELLED"}
      /\ l[n] \notin {"COMPLETED", "PLANNED", "SKIPPED", "CANCELLED"}
      /\ Begun(ledger.st[n])
  <2>1. exec[n] \in ExecState \ {"idle", "fulfilled", "rejected"}
    BY DEF Segment, IInv, TypeOK
  <2>2. Fits(exec[n], status[n]) /\ Begun(ledger.st[n]) /\ ledger.st[n] # "COMPLETED"
    BY <2>1, UnderWay DEF IInv, StatusFits
  <2> QED BY <1>1, <2>1, <2>2 DEF Fits, Begun, ExecState
<1>4. \A x \in Deps[n] : st[x] = "COMPLETED" /\ l[x] = "COMPLETED"
  BY <1>1, <1>3 DEF Layered, Untouched
<1>5. Layered(status') /\ Layered(ledger'.st)
  <2>1. Layered([st EXCEPT ![n] = status'[n]])
    BY <1>1, <1>2, <1>3, <1>4, MoveLayered
  <2>2. Layered([l EXCEPT ![n] = ledger'.st[n]])
    BY <1>1, <1>2, <1>3, <1>4, MoveLayered
  <2> QED BY <1>2, <2>1, <2>2
<1>6. durable' = durable \/ durable' = ledger'
  BY DEF Segment
<1>7. Layered(durable'.st)
  BY <1>5, <1>6 DEF Tables
<1>8. LedgerMirrors'
  BY <1>1, <1>2 DEF LedgerMirrors
<1>9. PlannedWaits'
  <2> SUFFICES ASSUME NEW m \in Nodes, status'[m] = "PLANNED"
               PROVE  \E x \in Deps[m] : status'[x] # "COMPLETED"
    BY DEF PlannedWaits
  <2>1. status[m] = "PLANNED"
    BY <1>2 DEF Segment, Untouched
  <2>2. PICK x \in Deps[m] : status[x] # "COMPLETED"
    BY <2>1 DEF Tables, PlannedWaits
  <2>3. x \in Nodes
    BY GraphAssumption
  <2> QED BY <2>2, <2>3, SegmentKeeps
<1>10. Sequenced(ledger')
  <2>1. \A m \in Nodes : Begun(ledger'.st[m]) => Begun(ledger.st[m])
    BY <1>3 DEF Segment, Begun
  <2>2. ledger'.seen = ledger.seen
    BY DEF Turned
  <2>3. Listed(ledger'.seen)
    BY <2>2 DEF Tables, Sequenced
  <2>4. \A m \in Nodes : Begun(ledger'.st[m]) => ledger'.seen[m] > 0
    BY <2>1, <2>2 DEF Tables, Sequenced
  <2> QED BY <2>3, <2>4 DEF Sequenced
<1>11. Sequenced(durable')
  BY <1>6, <1>10 DEF Tables
<1>12. AttemptLogged'
  BY DEF Turned, AttemptLogged
<1> QED BY <1>5, <1>7, <1>8, <1>9, <1>10, <1>11, <1>12 DEF Tables

\* A segment of a node keeps the completions, the sweeps and the budget of calls.
LEMMA SegmentCounts ==
  ASSUME SInv, NEW n \in Nodes, Segment(n), Turned(n), Spends(n), Sweeps(n)
  PROVE  Completions' /\ SweepCompleted' /\ Budgeted' /\ CalledDeps'
<1> USE DEF SInv
<1>1. /\ exec \in [Nodes -> ExecState] /\ sweep \in [Nodes -> SUBSET Nodes]
      /\ calls \in [Nodes -> Nat] /\ attempt \in [Nodes -> 1..MaxAttempts]
      /\ crashes \in Nat /\ MaxAttempts \in Nat
  BY PolicyAssumption, QueueAssumption DEF IInv, TypeOK
<1>2. /\ order' = order /\ crashes' = crashes
      /\ \A m \in Nodes \ {n} : exec'[m] = exec[m]
  BY DEF Turned, asideVars, Segment
<1>3. /\ \A m \in Nodes : status'[m] = "COMPLETED" <=> status[m] = "COMPLETED"
      /\ \A m \in Nodes : durable.st[m] = "COMPLETED" => durable'.st[m] = "COMPLETED"
  BY SegmentKeeps
<1>4. Completions'
  BY <1>2, <1>3 DEF Completions
<1>5. SweepCompleted'
  <2>1. ASSUME NEW rest, Rest(n, rest), \A m \in rest : m \in Nodes /\ status[m] = "COMPLETED"
        PROVE  SweepCompleted'
    <3>1. sweep'[n] = rest /\ \A m \in Nodes \ {n} : sweep'[m] = sweep[m]
      BY <1>1, <2>1 DEF Rest
    <3>2. \A m \in Nodes : sweep[m] \subseteq Nodes
      BY <1>1
    <3> QED BY <1>2, <1>3, <2>1, <3>1, <3>2 DEF SweepCompleted, Rest
  <2>2. CASE UNCHANGED sweep /\ exec[n] # "sweeping" /\ exec'[n] # "sweeping"
    BY <1>1, <1>2, <1>3, <2>2 DEF SweepCompleted
  <2>3. CASE Rest(n, Upstream(n))
    BY <2>1, <2>3 DEF Upstream
  <2>4. CASE \E m \in sweep[n] : Rest(n, sweep[n] \ {m})
    BY <1>1, <2>1, <2>4 DEF SweepCompleted
  <2> QED BY <2>2, <2>3, <2>4 DEF Sweeps
<1>6. Budgeted'
  <2> SUFFICES ASSUME NEW m \in Nodes
               PROVE  calls'[m] + (IF exec'[m] \in Uncalled THEN 1 ELSE 0)
                        <= attempt'[m] + crashes'
    BY DEF Budgeted
  <2>1. /\ calls[m] + (IF exec[m] \in Uncalled THEN 1 ELSE 0) <= attempt[m] + crashes
        /\ calls[m] \in Nat /\ attempt[m] \in Nat
    BY <1>1 DEF Budgeted
  <2>2. CASE m # n
    <3>1. calls'[m] = calls[m] /\ attempt'[m] = attempt[m] /\ exec'[m] = exec[m]
      BY <1>1, <1>2, <2>2 DEF Spends
    <3> QED BY <1>2, <2>1, <3>1
  <2>3. CASE m = n
    <3> USE <1>1, <1>2, <2>1, <2>3
    <3>1. CASE /\ UNCHANGED <<calls, attempt>>
               /\ exec'[n] \in Uncalled => exec[n] \in Uncalled
      BY <3>1
    <3>2. CASE /\ calls' = [calls EXCEPT ![n] = @ + 1] /\ UNCHANGED attempt
               /\ exec[n] \in Uncalled /\ exec'[n] \notin Uncalled
      BY <3>2
    <3>3. CASE UNCHANGED calls /\ attempt' = [attempt EXCEPT ![n] = @ + 1]
      BY <3>3
    <3> QED BY <3>1, <3>2, <3>3 DEF Spends
  <2> QED BY <2>2, <2>3
<1>7. CalledDeps'
  <2> SUFFICES ASSUME NEW m \in Nodes, calls'[m] > 0, NEW x \in Deps[m]
               PROVE  status'[x] = "COMPLETED" /\ durable'.st[x] = "COMPLETED"
    BY DEF CalledDeps
  <2>1. x \in Nodes
    BY GraphAssumption
  <2>2. status[x] = "COMPLETED" /\ durable.st[x] = "COMPLETED"
    <3>1. CASE m = n
      BY <3>1, IInvDurableDeps DEF Segment, DurableDeps
    <3>2. CASE m # n
      BY <1>1, <3>2 DEF Spends, CalledDeps
    <3> QED BY <3>1, <3>2
  <2> QED BY <1>3, <2>1, <2>2
<1> QED BY <1>4, <1>5, <1>6, <1>7

\* Nothing executeWithRetry does for a node, nor any answer or timeout it gets,
\* breaks the invariant.
LEMMA NodePreserves ==
  ASSUME SInv, NEW n \in Nodes, NodeStep(n) \/ Answer(n) \/ Timeout(n)
  PROVE  SInv'
<1>1. IInv /\ Tables
  BY DEF SInv
<1>2. IInv' /\ Segment(n) /\ Turned(n) /\ Spends(n) /\ Sweeps(n)
  BY <1>1, NodeTurned
<1>3. Tables'
  BY <1>1, <1>2, SegmentTables
<1>4. Completions' /\ SweepCompleted' /\ Budgeted' /\ CalledDeps'
  BY <1>2, SegmentCounts
<1>5. driver' = driver /\ job' = job /\ used' = used /\ verdicts' = verdicts
  BY <1>2 DEF Segment, Turned, asideVars
<1>6. LastWord'
  <2>1. driver # "finished"
    BY <1>1, <1>2 DEF Segment, IInv, Held, WorkersFree, Settled
  <2> QED BY <1>5, <2>1 DEF SInv, LastWord
<1>7. OnlyApprovalRejects'
  <2> SUFFICES ASSUME driver' = "rejected"
               PROVE  \E m \in Nodes : status'[m] = "WAITING" /\ exec'[m] = "rejected"
    BY DEF OnlyApprovalRejects
  <2>1. PICK m \in Nodes : status[m] = "WAITING" /\ exec[m] = "rejected"
    BY <1>5 DEF SInv, OnlyApprovalRejects
  <2> QED BY <1>2, <2>1 DEF Segment
<1>8. SeatsMatch'
  BY <1>5 DEF SInv, SeatsMatch
<1> QED BY <1>2, <1>3, <1>4, <1>6, <1>7, <1>8 DEF SInv

-----------------------------------------------------------------------------
(* Seats and lists                                                         *)

\* There are finitely many deliveries.
LEMMA JobsFinite == IsFiniteSet(Jobs)
<1> DEFINE all == {{n} \X (1..Deliveries[n]) : n \in Nodes}
           f == [n \in Nodes |-> {n} \X (1..Deliveries[n])]
<1>1. f \in Surjection(Nodes, all)
  BY DEF Surjection
<1>2. IsFiniteSet(all)
  <2> HIDE DEF f, all
  <2> QED BY <1>1, GraphAssumption, FS_Surjection
<1>3. ASSUME NEW n \in Nodes PROVE IsFiniteSet({n} \X (1..Deliveries[n]))
  <2>1. Deliveries[n] \in Int
    BY QueueAssumption
  <2> DEFINE S == {n}
             T == 1..Deliveries[n]
  <2>2. IsFiniteSet(S)
    BY FS_Singleton
  <2>3. IsFiniteSet(T)
    BY <2>1, FS_Interval, 1 \in Int
  <2> HIDE DEF S, T
  <2>4. IsFiniteSet(S \X T)
    BY <2>2, <2>3, FS_Product
  <2> QED BY <2>4 DEF S, T
<1>4. \A T \in all : IsFiniteSet(T)
  BY <1>3
<1> QED BY <1>2, <1>4, FS_UNION DEF Jobs

\* The deliveries that hold a seat of key k.
Seated(k) == {i \in Jobs : job[i] = "awaiting" /\ k \in Keys[i[1]]}

\* A delivery takes a seat of each of its keys.
LEMMA SeatTaken ==
  ASSUME IInv, SeatsMatch, NEW j \in Jobs, job[j] # "awaiting", SlotFree(j[1]), Admit(j)
  PROVE  SeatsMatch'
<1>1. /\ job' = [job EXCEPT ![j] = "awaiting"]
      /\ used' = [k \in DOMAIN Limit |-> IF k \in Keys[j[1]] THEN used[k] + 1 ELSE used[k]]
      /\ job \in [Jobs -> {"absent", "queued", "acquiring", "awaiting", "thrown", "done"}]
  BY DEF Admit, IInv, TypeOK
<1> SUFFICES ASSUME NEW k \in DOMAIN Limit
             PROVE  used'[k] = Cardinality(Seated(k)') /\ used'[k] <= Limit[k]
  BY DEF SeatsMatch, Seated
<1>2. /\ used[k] = Cardinality(Seated(k)) /\ used[k] <= Limit[k]
      /\ used[k] \in Nat /\ Limit[k] \in Nat
  BY QueueAssumption DEF SeatsMatch, Seated, IInv, TypeOK
<1>3. CASE k \in Keys[j[1]]
  <2>1. Seated(k)' = Seated(k) \cup {j} /\ j \notin Seated(k)
    BY <1>1, <1>3 DEF Seated
  <2>2. IsFiniteSet(Seated(k))
    BY JobsFinite, FS_Subset DEF Seated
  <2>3. Cardinality(Seated(k)') = Cardinality(Seated(k)) + 1
    BY <2>1, <2>2, FS_AddElement
  <2> QED BY <1>1, <1>2, <1>3, <2>3 DEF SlotFree
<1>4. CASE k \notin Keys[j[1]]
  <2>1. Seated(k)' = Seated(k)
    BY <1>1, <1>4 DEF Seated
  <2> QED BY <1>1, <1>2, <1>4, <2>1
<1> QED BY <1>3, <1>4

\* The finally block gives them back, once each.
LEMMA SeatLeft ==
  ASSUME IInv, SeatsMatch, NEW j \in Jobs, job[j] = "awaiting",
         NEW fate \in {"done", "thrown"}, Release(j, fate)
  PROVE  SeatsMatch'
<1>1. /\ job' = [job EXCEPT ![j] = fate]
      /\ used' = [k \in DOMAIN Limit |->
                    IF k \in Keys[j[1]] /\ used[k] > 0 THEN used[k] - 1 ELSE used[k]]
      /\ job \in [Jobs -> {"absent", "queued", "acquiring", "awaiting", "thrown", "done"}]
  BY DEF Release, IInv, TypeOK
<1> SUFFICES ASSUME NEW k \in DOMAIN Limit
             PROVE  used'[k] = Cardinality(Seated(k)') /\ used'[k] <= Limit[k]
  BY DEF SeatsMatch, Seated
<1>2. /\ used[k] = Cardinality(Seated(k)) /\ used[k] <= Limit[k]
      /\ used[k] \in Nat /\ Limit[k] \in Nat
  BY QueueAssumption DEF SeatsMatch, Seated, IInv, TypeOK
<1>3. CASE k \in Keys[j[1]]
  <2>1. Seated(k)' = Seated(k) \ {j} /\ j \in Seated(k)
    BY <1>1, <1>3 DEF Seated
  <2>2. IsFiniteSet(Seated(k))
    BY JobsFinite, FS_Subset DEF Seated
  <2>3. Cardinality(Seated(k)') = Cardinality(Seated(k)) - 1
    BY <2>1, <2>2, FS_RemoveElement
  <2>4. used[k] # 0
    BY <1>2, <2>1, <2>2, FS_EmptySet
  <2>5. used'[k] = used[k] - 1
    BY <1>1, <1>2, <1>3, <2>4
  <2> QED BY <1>2, <2>3, <2>5
<1>4. CASE k \notin Keys[j[1]]
  <2>1. Seated(k)' = Seated(k)
    BY <1>1, <1>4 DEF Seated
  <2> QED BY <1>1, <1>2, <1>4, <2>1
<1> QED BY <1>3, <1>4

\* A delivery that neither takes nor leaves a seat changes no count.
LEMMA SeatsKept ==
  ASSUME SeatsMatch, used' = used, \A i \in Jobs : job'[i] = "awaiting" <=> job[i] = "awaiting"
  PROVE  SeatsMatch'
<1>1. \A k \in DOMAIN Limit : Seated(k)' = Seated(k)
  BY DEF Seated
<1> QED BY <1>1 DEF SeatsMatch, Seated

\* A node put at the end of a list that holds what it depends on.
LEMMA ListedNext ==
  ASSUME NEW f \in [Nodes -> Nat], Listed(f), NEW n \in Nodes, f[n] = 0,
         \A x \in Deps[n] : f[x] > 0
  PROVE  Listed([f EXCEPT ![n] = NextPlace(f)])
<1> DEFINE g == [f EXCEPT ![n] = NextPlace(f)]
           F == {m \in Nodes : f[m] > 0}
           G == {m \in Nodes : g[m] > 0}
<1>1. IsFiniteSet(F) /\ Cardinality(F) \in Nat
  <2>1. IsFiniteSet(F)
    BY GraphAssumption, FS_Subset, F \subseteq Nodes
  <2> QED BY <2>1, FS_CardinalityType
<1>2. NextPlace(f) = Cardinality(F) + 1
  BY <1>1 DEF NextPlace
<1>3. g[n] = Cardinality(F) + 1 /\ \A m \in Nodes \ {n} : g[m] = f[m]
  BY <1>2
<1>4. G = F \cup {n} /\ n \notin F
  BY <1>1, <1>3
<1>5. Cardinality(G) = Cardinality(F) + 1
  BY <1>1, <1>4, FS_AddElement
<1>6. \A m \in Nodes : f[m] \in Nat /\ f[m] <= Cardinality(F)
  BY DEF Listed
<1>7. \A m \in Nodes : \A x \in Deps[m] : x \in Nodes
  BY GraphAssumption
<1>8. \A m \in Nodes : f[m] > 0 => /\ \A y \in Nodes \ {m} : f[y] # f[m]
                                   /\ \A x \in Deps[m] : f[x] \in 1..(f[m] - 1)
  BY DEF Listed
<1> HIDE DEF g, F
<1> SUFFICES ASSUME NEW m \in Nodes
             PROVE  /\ g[m] <= Cardinality(G)
                    /\ g[m] > 0 => /\ \A y \in Nodes \ {m} : g[y] # g[m]
                                   /\ \A x \in Deps[m] : g[x] \in 1..(g[m] - 1)
  BY DEF Listed, g
<1>9. g[m] <= Cardinality(G)
  BY <1>1, <1>3, <1>5, <1>6
<1>10. ASSUME g[m] > 0, NEW y \in Nodes \ {m} PROVE g[y] # g[m]
  <2>1. g[m] \in Nat /\ g[y] \in Nat /\ f[m] \in Nat /\ f[y] \in Nat
    BY <1>1, <1>3, <1>6
  <2>2. CASE m = n
    BY <1>1, <1>3, <1>6, <2>1, <2>2
  <2>3. CASE y = n
    BY <1>1, <1>3, <1>6, <2>1, <2>3
  <2>4. CASE m # n /\ y # n
    BY <1>3, <1>8, <1>10, <2>4
  <2> QED BY <2>2, <2>3, <2>4
<1>11. ASSUME g[m] > 0, NEW x \in Deps[m] PROVE g[x] \in 1..(g[m] - 1)
  <2>1. CASE m = n
    <3>1. f[x] > 0 /\ x # n /\ x \in Nodes
      BY <1>7, <2>1
    <3>2. g[x] = f[x] /\ f[x] <= Cardinality(F) /\ f[x] \in Nat
      BY <1>3, <1>6, <3>1
    <3> QED BY <1>1, <1>3, <2>1, <3>1, <3>2
  <2>2. CASE m # n
    <3>1. f[m] > 0 /\ g[m] = f[m]
      BY <1>3, <1>11, <2>2
    <3>2. f[x] \in 1..(f[m] - 1)
      BY <1>8, <3>1
    <3>3. x # n
      BY <3>2, <1>6
    <3> QED BY <1>3, <1>7, <3>1, <3>2, <3>3
  <2> QED BY <2>1, <2>2
<1> QED BY <1>9, <1>10, <1>11

-----------------------------------------------------------------------------
(* The other actions keep it too                                           *)

\* An action that moves no node, and at most persists what was emitted.
LEMMA QuietPreserves ==
  ASSUME SInv, durable' = durable \/ durable' = ledger,
         UNCHANGED <<status, attempt, exec, sweep, order, crashes, calls, ledger>>
  PROVE  Tables' /\ Completions' /\ SweepCompleted' /\ Budgeted' /\ CalledDeps'
<1> USE DEF SInv
<1>1. Tables'
  BY DEF Tables, LedgerMirrors, PlannedWaits, AttemptLogged
<1>2. Completions' /\ SweepCompleted' /\ Budgeted'
  BY DEF Completions, SweepCompleted, Budgeted
<1>3. CalledDeps'
  <2>1. \A x \in Nodes : durable.st[x] = "COMPLETED" => durable'.st[x] = "COMPLETED"
    BY DEF IInv, DoneLogged
  <2>2. \A m \in Nodes : \A x \in Deps[m] : x \in Nodes
    BY GraphAssumption
  <2> QED BY <2>1, <2>2 DEF CalledDeps
<1> QED BY <1>1, <1>2, <1>3

\* A job is delivered by a worker, at work in a wave or after run() rejected.
LEMMA AtWork ==
  ASSUME IInv, NEW j \in Jobs, job[j] \in {"acquiring", "awaiting"}
  PROVE  driver \in {"dispatching", "rejected"}
BY DEF IInv, WorkersFree, TypeOK

\* The first delivery of a node's job that gets a seat announces the node.
LEMMA AnnounceTables ==
  ASSUME IInv, Tables, NEW n \in Nodes, exec[n] = "idle", status[n] = "READY",
         Announce(n, "START", attempt[n])
  PROVE  /\ Tables' /\ exec' = [exec EXCEPT ![n] = "announced"]
         /\ status' = [status EXCEPT ![n] = "RUNNING"] /\ UNCHANGED attempt
         /\ durable' = ledger'
<1>1. /\ ledger \in Snapshots /\ attempt \in [Nodes -> 1..MaxAttempts]
      /\ status \in [Nodes -> NodeStatus] /\ ledger.st \in [Nodes -> NodeStatus]
      /\ ledger.seen \in [Nodes -> Nat] /\ ledger.at = attempt
  BY DEF IInv, TypeOK, Snapshots, Tables, AttemptLogged
<1>2. /\ status' = [status EXCEPT ![n] = "RUNNING"] /\ attempt' = attempt
      /\ exec' = [exec EXCEPT ![n] = "announced"]
      /\ ledger' = EmitRunning(ledger, n, attempt[n]) /\ durable' = ledger'
  BY <1>1, Moves DEF Announce, Record
<1>3. /\ ledger'.st = [ledger.st EXCEPT ![n] = "RUNNING"] /\ ledger'.at = attempt
      /\ ledger'.seen = [ledger.seen EXCEPT
                           ![n] = IF @ = 0 THEN NextPlace(ledger.seen) ELSE @]
  BY <1>1, <1>2 DEF EmitRunning
<1>4. /\ status'[n] = "RUNNING" /\ ledger'.st[n] = "RUNNING"
      /\ \A m \in Nodes \ {n} : status'[m] = status[m] /\ ledger'.st[m] = ledger.st[m]
  BY <1>1, <1>2, <1>3
<1>5. \A m \in Nodes : \A x \in Deps[m] : x \in Nodes
  BY GraphAssumption
<1>6. \A x \in Deps[n] : status[x] = "COMPLETED" /\ ledger.st[x] = "COMPLETED"
  BY <1>5 DEF IInv, ReadyDeps, DoneLogged
<1>7. Layered(status) /\ Layered(ledger.st) /\ Mirrors(status[n], ledger.st[n])
  BY DEF Tables, LedgerMirrors
<1>8. Layered(status')
  <2>1. Layered([status EXCEPT ![n] = "RUNNING"])
    BY <1>1, <1>6, <1>7, MoveLayered DEF Untouched
  <2> QED BY <1>2, <2>1
<1>9. Layered(ledger'.st)
  <2>1. ledger.st[n] \notin {"COMPLETED", "SKIPPED", "CANCELLED"}
    BY <1>7 DEF Mirrors, Terminal
  <2>2. Layered([ledger.st EXCEPT ![n] = "RUNNING"])
    BY <1>1, <1>6, <1>7, <2>1, MoveLayered DEF Untouched
  <2> QED BY <1>3, <2>2
<1>10. LedgerMirrors' /\ PlannedWaits' /\ AttemptLogged'
  BY <1>2, <1>3, <1>4, <1>5 DEF Tables, LedgerMirrors, Mirrors, PlannedWaits, AttemptLogged
<1>11. Sequenced(ledger')
  <2>1. Listed(ledger.seen) /\ \A m \in Nodes : Begun(ledger.st[m]) => ledger.seen[m] > 0
    BY DEF Tables, Sequenced
  <2>2. \A x \in Deps[n] : ledger.seen[x] > 0
    BY <1>5, <1>6, <2>1 DEF Begun
  <2>3. CASE ledger.seen[n] = 0
    <3>1. ledger'.seen = [ledger.seen EXCEPT ![n] = NextPlace(ledger.seen)]
      BY <1>3, <2>3
    <3>2. Listed(ledger'.seen)
      <4>1. Listed([ledger.seen EXCEPT ![n] = NextPlace(ledger.seen)])
        BY <1>1, <2>1, <2>2, <2>3, ListedNext
      <4> QED BY <3>1, <4>1
    <3>3. NextPlace(ledger.seen) \in Nat \ {0}
      BY <1>1, NextPlaceFacts
    <3> QED BY <1>1, <1>4, <2>1, <3>1, <3>2, <3>3 DEF Sequenced
  <2>4. CASE ledger.seen[n] # 0
    <3>1. ledger'.seen = ledger.seen /\ ledger.seen[n] > 0
      BY <1>1, <1>3, <2>4
    <3> QED BY <1>4, <2>1, <3>1 DEF Sequenced
  <2> QED BY <2>3, <2>4
<1> QED BY <1>2, <1>8, <1>9, <1>10, <1>11 DEF Tables

\* A delivery that takes its seats keeps the invariant.
LEMMA AdmitSafe ==
  ASSUME SInv, NEW j \in Jobs, job[j] \in {"queued", "acquiring"}, SlotFree(j[1]),
         driver \in {"dispatching", "rejected"}, Admit(j)
  PROVE  SInv'
<1> DEFINE n == j[1]
<1>1. IInv' /\ n \in Nodes /\ SeatsMatch'
  BY AdmitPreserves, SeatTaken, JobFacts DEF SInv
<1>2. UNCHANGED <<sweep, order, driver, cancelled, verdicts, crashes, calls>>
  BY DEF Admit, runVars, worldVars
<1>3. LastWord'
  BY <1>2 DEF SInv, LastWord
<1>4. CASE UNCHANGED <<status, attempt, exec, logVars>>
  <2>1. Tables' /\ Completions' /\ SweepCompleted' /\ Budgeted' /\ CalledDeps'
    BY <1>2, <1>4, QuietPreserves DEF logVars
  <2>2. OnlyApprovalRejects'
    BY <1>2, <1>4 DEF SInv, OnlyApprovalRejects
  <2> QED BY <1>1, <1>3, <2>1, <2>2 DEF SInv
<1>5. CASE exec[n] = "idle" /\ Announce(n, "START", attempt[n])
  <2>1. status[n] = "READY"
    BY <1>1, <1>5 DEF SInv, IInv, QueuedReady
  <2>2. /\ Tables' /\ exec' = [exec EXCEPT ![n] = "announced"]
        /\ status' = [status EXCEPT ![n] = "RUNNING"] /\ UNCHANGED attempt
        /\ durable' = ledger'
    BY <1>1, <1>5, <2>1, AnnounceTables DEF SInv
  <2>3. status \in [Nodes -> NodeStatus] /\ exec \in [Nodes -> ExecState]
    BY DEF SInv, IInv, TypeOK
  <2>4. /\ status'[n] = "RUNNING" /\ exec'[n] = "announced"
        /\ \A m \in Nodes \ {n} : status'[m] = status[m] /\ exec'[m] = exec[m]
    BY <1>1, <2>2, <2>3
  <2>5. Completions' /\ SweepCompleted'
    <3>1. \A m \in Nodes : status'[m] = "COMPLETED" <=> status[m] = "COMPLETED"
      BY <2>1, <2>4
    <3>2. \A m \in Nodes : sweep[m] \subseteq Nodes
      BY DEF SInv, IInv, TypeOK
    <3> QED BY <1>2, <1>5, <2>4, <3>1, <3>2 DEF SInv, Completions, SweepCompleted
  <2>6. Budgeted'
    BY <1>2, <1>5, <2>2, <2>4 DEF SInv, Budgeted, Uncalled
  <2>7. CalledDeps'
    <3>1. ASSUME NEW m \in Nodes, calls[m] > 0, NEW x \in Deps[m]
          PROVE  status'[x] = "COMPLETED"
      BY <2>1, <2>4, <3>1, GraphAssumption DEF SInv, CalledDeps
    <3>2. \A m \in Nodes : \A x \in Deps[m] : x \in Nodes
      BY GraphAssumption
    <3> QED BY <1>1, <1>2, <2>2, <3>1, <3>2 DEF CalledDeps, IInv, DoneLogged
  <2>8. OnlyApprovalRejects'
    BY <1>2, <1>5, <2>4 DEF SInv, OnlyApprovalRejects
  <2> QED BY <1>1, <1>3, <2>2, <2>5, <2>6, <2>7, <2>8 DEF SInv
<1> QED BY <1>4, <1>5 DEF Admit

\* Promoting what stands on completed nodes keeps the layers.
LEMMA PromoteLayered ==
  ASSUME NEW st \in [Nodes -> NodeStatus], Layered(st)
  PROVE  /\ Layered(Promote(st))
         /\ \A n \in Nodes : Promote(st)[n] = "PLANNED" =>
              \E x \in Deps[n] : Promote(st)[x] # "COMPLETED"
<1> DEFINE to == Promote(st)
<1>1. \A m \in Nodes :
        to[m] = IF st[m] = "PLANNED" /\ \A x \in Deps[m] : st[x] = "COMPLETED"
                THEN "READY" ELSE st[m]
  BY Moves DEF Promote
<1>2. \A m \in Nodes : \A x \in Deps[m] : x \in Nodes
  BY GraphAssumption
<1> HIDE DEF to
<1>3. Layered(to)
  <2> SUFFICES ASSUME NEW m \in Nodes, NEW x \in Deps[m]
               PROVE  /\ to[m] \notin Untouched => to[x] = "COMPLETED"
                      /\ to[x] = "SKIPPED" => to[m] = "SKIPPED"
                      /\ to[x] = "CANCELLED" => to[m] \in {"SKIPPED", "CANCELLED"}
                      /\ to[m] = "CANCELLED" => to[x] # "PLANNED"
    BY DEF Layered
  <2>1. x \in Nodes
    BY <1>2
  <2>2. /\ st[m] \notin Untouched => st[x] = "COMPLETED"
        /\ st[x] = "SKIPPED" => st[m] = "SKIPPED"
        /\ st[x] = "CANCELLED" => st[m] \in {"SKIPPED", "CANCELLED"}
        /\ st[m] = "CANCELLED" => st[x] # "PLANNED"
    BY DEF Layered
  <2> QED BY <1>1, <2>1, <2>2 DEF Untouched
<1>4. \A n \in Nodes : to[n] = "PLANNED" => \E x \in Deps[n] : to[x] # "COMPLETED"
  BY <1>1, <1>2
<1> QED BY <1>3, <1>4 DEF to

\* completeNode, with the promotion it ends with, keeps the invariant.
LEMMA CompleteSafe ==
  ASSUME SInv, NEW j \in Jobs, Complete(j)
  PROVE  SInv'
<1> DEFINE n == j[1]
           st == [status EXCEPT ![n] = "COMPLETED"]
<1> USE DEF SInv
<1>1. /\ IInv' /\ n \in Nodes /\ driver \in {"dispatching", "rejected"}
      /\ exec[n] = "verified" /\ status[n] = "VERIFYING" /\ ledger.st[n] = "VERIFYING"
  <2>1. n \in Nodes /\ exec[n] = "verified" /\ job[j] = "awaiting"
    BY JobFacts DEF Complete
  <2>2. status[n] = "VERIFYING"
    BY <2>1 DEF IInv, StatusFits, Fits
  <2>3. ledger.st[n] = "VERIFYING"
    BY <2>1, <2>2 DEF Tables, LedgerMirrors, Mirrors
  <2> QED BY <2>1, <2>2, <2>3, CompletePreserves, AtWork
<1>2. /\ status \in [Nodes -> NodeStatus] /\ exec \in [Nodes -> ExecState]
      /\ ledger.st \in [Nodes -> NodeStatus] /\ order \in [Nodes -> Nat]
      /\ \A m \in Nodes : sweep[m] \subseteq Nodes
  BY DEF IInv, TypeOK, Snapshots
<1>3. /\ status' = Promote(st) /\ exec' = [exec EXCEPT ![n] = "fulfilled"]
      /\ order' = [order EXCEPT ![n] = NextPlace(order)]
      /\ ledger'.st = [ledger.st EXCEPT ![n] = "COMPLETED"]
      /\ ledger'.at = ledger.at /\ ledger'.seen = ledger.seen
      /\ UNCHANGED <<attempt, durable, driver, cancelled, verdicts, crashes, calls, sweep>>
  BY <1>1, <1>2, Moves DEF Complete, EmitCompleted, runVars, worldVars
<1>4. SeatsMatch' /\ LastWord'
  <2>1. job[j] = "awaiting" /\ Release(j, "done")
    BY DEF Complete
  <2> QED BY <1>1, <1>3, <2>1, SeatLeft DEF LastWord
<1>5. \A m \in Nodes : \A x \in Deps[m] : x \in Nodes
  BY GraphAssumption
<1>6. \A x \in Deps[n] : status[x] = "COMPLETED" /\ ledger.st[x] = "COMPLETED"
  BY <1>1, <1>5, IInvDurableDeps DEF DurableDeps, IInv, DoneLogged
<1>7. /\ st \in [Nodes -> NodeStatus] /\ st[n] = "COMPLETED"
      /\ \A m \in Nodes \ {n} : st[m] = status[m]
  BY <1>1, <1>2 DEF NodeStatus
<1>8. Layered(st)
  BY <1>1, <1>2, <1>6, MoveLayered DEF Tables, Untouched
<1> HIDE DEF st
<1>9. Layered(status') /\ PlannedWaits'
  BY <1>3, <1>7, <1>8, PromoteLayered DEF PlannedWaits
<1>10. Layered(ledger'.st)
  <2>1. Layered([ledger.st EXCEPT ![n] = "COMPLETED"])
    BY <1>1, <1>2, <1>6, MoveLayered DEF Tables, Untouched
  <2> QED BY <1>3, <2>1
<1>11. /\ status'[n] = "COMPLETED" /\ exec'[n] = "fulfilled" /\ ledger'.st[n] = "COMPLETED"
       /\ \A m \in Nodes \ {n} :
            /\ ledger'.st[m] = ledger.st[m] /\ exec'[m] = exec[m]
            /\ status'[m] = status[m] \/ (status[m] = "PLANNED" /\ status'[m] = "READY")
  <2>1. \A m \in Nodes : \/ status'[m] = st[m]
                         \/ st[m] = "PLANNED" /\ status'[m] = "READY"
    BY <1>3, <1>7, PromoteFacts
  <2> QED BY <1>1, <1>2, <1>3, <1>7, <2>1
<1>12. LedgerMirrors' /\ AttemptLogged'
  BY <1>3, <1>11 DEF Tables, LedgerMirrors, Mirrors, Terminal, AttemptLogged
<1>13. Sequenced(ledger')
  BY <1>1, <1>3, <1>11 DEF Tables, Sequenced, Begun
<1>14. Tables'
  BY <1>3, <1>9, <1>10, <1>12, <1>13 DEF Tables
<1>15. Completions'
  <2>1. Listed(order) /\ \A m \in Nodes : order[m] > 0 <=> status[m] = "COMPLETED"
    BY DEF Completions
  <2>2. order[n] = 0 /\ \A x \in Deps[n] : order[x] > 0
    BY <1>1, <1>2, <1>5, <1>6, <2>1
  <2>3. Listed([order EXCEPT ![n] = NextPlace(order)])
    BY <1>1, <1>2, <2>1, <2>2, ListedNext
  <2>4. NextPlace(order) \in Nat \ {0}
    BY <1>2, NextPlaceFacts
  <2>5. \A m \in Nodes : order'[m] > 0 <=> status'[m] = "COMPLETED"
    BY <1>1, <1>2, <1>3, <1>11, <2>1, <2>4
  <2> QED BY <1>3, <2>3, <2>5 DEF Completions
<1>16. SweepCompleted' /\ Budgeted'
  BY <1>1, <1>2, <1>3, <1>11 DEF SweepCompleted, Budgeted, Uncalled
<1>17. CalledDeps'
  BY <1>3, <1>5, <1>11 DEF CalledDeps
<1>18. OnlyApprovalRejects'
  BY <1>1, <1>3, <1>11 DEF OnlyApprovalRejects
<1> QED BY <1>1, <1>4, <1>14, <1>15, <1>16, <1>17, <1>18

\* Every step of a delivery.
LEMMA JobSafe ==
  ASSUME SInv, NEW j \in Jobs, JobStep(j)
  PROVE  SInv'
<1>1. IInv' /\ j[1] \in Nodes
  BY JobPreserves, JobFacts DEF SInv
<1>2. CASE Complete(j)
  BY <1>2, CompleteSafe
<1>3. CASE Poll(j)
  BY <1>3, AdmitSafe, AtWork DEF Poll, SInv
<1>4. CASE Take(j) /\ Admit(j) /\ SlotFree(j[1])
  BY <1>4, AdmitSafe DEF Take
<1>5. CASE Take(j) /\ ~SlotFree(j[1])
  <2>1. /\ job[j] = "queued" /\ job' = [job EXCEPT ![j] = "acquiring"]
        /\ UNCHANGED <<nodeVars, execVars, running, used, runVars, logVars, worldVars>>
    BY <1>5 DEF Take
  <2>2. Tables' /\ Completions' /\ SweepCompleted' /\ Budgeted' /\ CalledDeps'
    BY <2>1, QuietPreserves DEF nodeVars, execVars, runVars, logVars, worldVars
  <2>3. LastWord' /\ OnlyApprovalRejects'
    BY <2>1 DEF SInv, LastWord, OnlyApprovalRejects, nodeVars, execVars, runVars, logVars
  <2>4. SeatsMatch'
    <3>1. \A i \in Jobs : job'[i] = "awaiting" <=> job[i] = "awaiting"
      BY <2>1 DEF SInv, IInv, TypeOK
    <3> QED BY <2>1, <3>1, SeatsKept DEF SInv
  <2> QED BY <1>1, <2>2, <2>3, <2>4 DEF SInv
<1>6. CASE Leave(j) \/ Throw(j)
  <2>1. /\ job[j] = "awaiting" /\ \E fate \in {"done", "thrown"} : Release(j, fate)
        /\ UNCHANGED <<nodeVars, execVars, cancelled, verdicts, crashes, logVars, worldVars>>
    BY <1>6 DEF Leave, Throw, runVars
  <2>2. SeatsMatch'
    BY <2>1, SeatLeft DEF SInv
  <2>3. Tables' /\ Completions' /\ SweepCompleted' /\ Budgeted' /\ CalledDeps'
    BY <2>1, QuietPreserves DEF nodeVars, execVars, logVars, worldVars
  <2>4. driver # "finished" /\ driver' # "finished"
    BY <1>6, <2>1, AtWork DEF Leave, Throw, runVars, SInv
  <2>5. LastWord'
    BY <2>1, <2>4 DEF SInv, LastWord
  <2>6. OnlyApprovalRejects'
    <3>1. CASE Leave(j)
      BY <3>1 DEF Leave, SInv, OnlyApprovalRejects, nodeVars, execVars, runVars
    <3>2. CASE Throw(j)
      <4>1. exec[j[1]] = "rejected" /\ status[j[1]] = "WAITING"
        BY <1>1, <3>2 DEF Throw, SInv, IInv, StatusFits, Fits, Terminal
      <4> QED BY <1>1, <2>1, <4>1 DEF OnlyApprovalRejects, nodeVars, execVars
    <3> QED BY <1>6, <3>1, <3>2
  <2> QED BY <1>1, <2>2, <2>3, <2>5, <2>6 DEF SInv
<1> QED BY <1>2, <1>3, <1>4, <1>5, <1>6 DEF JobStep, Take

\* A ledger that mirrors nodes that are no longer planned is layered like them.
LEMMA MirrorsLayered ==
  ASSUME NEW st, NEW l, Layered(st), \A n \in Nodes : Mirrors(st[n], l[n]),
         \A n \in Nodes : st[n] \notin {"PLANNED", "READY"}
  PROVE  Layered(l)
<1>1. \A m \in Nodes : \A x \in Deps[m] : x \in Nodes
  BY GraphAssumption
<1> QED BY <1>1 DEF Layered, Mirrors, Untouched

\* finalize(), with the cancellations it emits, keeps the invariant.
LEMMA FinishSafe ==
  ASSUME SInv, Finish
  PROVE  SInv'
<1> DEFINE open == IF cancelled THEN {n \in Nodes : status[n] \notin Terminal} ELSE {}
           ends == [n \in Nodes |-> IF n \in open THEN "CANCELLED" ELSE status[n]]
<1> USE DEF SInv
<1>1. IInv'
  BY DrivePreserves DEF Drive
<1>2. /\ driver = "driving" /\ driver' = "finished" /\ (cancelled \/ Ready = {})
      /\ status' = ends /\ ledger' = EmitCancelled(ledger, open) /\ durable' = ledger'
      /\ verdicts' = verdicts \cup {Verdict(ends)} \cup (IF cancelled THEN {"CANCELLED"} ELSE {})
      /\ UNCHANGED <<attempt, exec, sweep, order, job, used, cancelled, crashes, calls>>
  BY DEF Finish, Record, execVars, queueVars, worldVars
<1>3. /\ ledger \in Snapshots /\ status \in [Nodes -> NodeStatus]
      /\ \A n \in Nodes : sweep[n] \subseteq Nodes
      /\ \A n \in Nodes : \A x \in Deps[n] : x \in Nodes
  BY GraphAssumption DEF IInv, TypeOK
<1>4. \A n \in Nodes : n \in open <=> cancelled /\ status[n] \notin Terminal
  OBVIOUS
<1>5. \A n \in Nodes : exec[n] # "idle" => status[n] \in Terminal
  BY <1>2, DrivingSettled
<1>6. /\ ends = [n \in Nodes |-> ends[n]]
      /\ \A n \in Nodes : status'[n] = IF n \in open THEN "CANCELLED" ELSE status[n]
  BY <1>2
<1> HIDE DEF open
<1>7. /\ ledger'.at = ledger.at /\ ledger'.seen = ledger.seen
      /\ \A n \in Nodes : ledger'.st[n] = IF n \in open THEN "CANCELLED" ELSE ledger.st[n]
  BY <1>2, <1>3, EmitCancelledFacts DEF EmitCancelled
<1> HIDE DEF ends
<1>8. \A n \in Nodes : status'[n] = "COMPLETED" <=> status[n] = "COMPLETED"
  BY <1>4, <1>6 DEF Terminal
<1>9. LedgerMirrors'
  <2>1. \A n \in Nodes : Mirrors(status[n], ledger.st[n])
    BY DEF Tables, LedgerMirrors
  <2> QED BY <1>6, <1>7, <2>1 DEF LedgerMirrors, Mirrors, Terminal
<1>10. Layered(status')
  <2> SUFFICES ASSUME NEW m \in Nodes, NEW x \in Deps[m]
               PROVE  /\ status'[m] \notin Untouched => status'[x] = "COMPLETED"
                      /\ status'[x] = "SKIPPED" => status'[m] = "SKIPPED"
                      /\ status'[x] = "CANCELLED" => status'[m] \in {"SKIPPED", "CANCELLED"}
                      /\ status'[m] = "CANCELLED" => status'[x] # "PLANNED"
    BY DEF Layered
  <2>1. x \in Nodes
    BY <1>3
  <2>2. /\ status[m] \notin Untouched => status[x] = "COMPLETED"
        /\ status[x] = "SKIPPED" => status[m] = "SKIPPED"
        /\ status[x] = "CANCELLED" => status[m] \in {"SKIPPED", "CANCELLED"}
        /\ status[m] = "CANCELLED" => status[x] # "PLANNED"
    BY DEF Tables, Layered
  <2> QED BY <1>4, <1>6, <2>1, <2>2 DEF Untouched, Terminal
<1>11. ~cancelled => \A n \in Nodes : status'[n] = status[n] /\ ledger'.st[n] = ledger.st[n]
  BY <1>4, <1>6, <1>7
<1>12. cancelled => \A n \in Nodes : status'[n] \in Terminal
  BY <1>4, <1>6 DEF Terminal
<1>13. Layered(ledger'.st)
  <2>1. CASE cancelled
    BY <1>9, <1>10, <1>12, <2>1, MirrorsLayered DEF LedgerMirrors, Terminal
  <2>2. CASE ~cancelled
    BY <1>3, <1>11, <2>2 DEF Tables, Layered
  <2> QED BY <2>1, <2>2
<1>14. PlannedWaits'
  BY <1>3, <1>8, <1>11, <1>12 DEF Tables, PlannedWaits, Terminal
<1>15. Sequenced(ledger')
  BY <1>7 DEF Tables, Sequenced, Begun
<1>16. Tables'
  BY <1>2, <1>7, <1>9, <1>10, <1>13, <1>14, <1>15 DEF Tables, AttemptLogged
<1>17. Completions' /\ SweepCompleted' /\ Budgeted'
  BY <1>2, <1>3, <1>8 DEF Completions, SweepCompleted, Budgeted
<1>18. CalledDeps'
  BY <1>1, <1>2, <1>3, <1>8 DEF CalledDeps, IInv, DoneLogged
<1>19. LastWord'
  <2>1. \A n \in Nodes : status'[n] # "READY"
    BY <1>2, <1>11, <1>12 DEF Ready, Terminal
  <2>2. \A n \in Nodes : exec'[n] # "idle" => status'[n] \in Terminal
    BY <1>2, <1>5, <1>11, <1>12
  <2>3. verdicts = {}
    BY <1>2 DEF LastWord
  <2>4. ~cancelled' => verdicts' = {Verdict(status')}
    BY <1>2, <2>3
  <2> QED BY <1>2, <1>12, <2>1, <2>2, <2>4 DEF LastWord
<1>20. OnlyApprovalRejects' /\ SeatsMatch'
  BY <1>2 DEF OnlyApprovalRejects, SeatsMatch
<1> QED BY <1>1, <1>16, <1>17, <1>18, <1>19, <1>20

\* The waves, cancel(), the late end of an abandoned call, and stuttering.
LEMMA DriveSafe ==
  ASSUME SInv, \/ Drive \/ Cancel \/ UNCHANGED vars
               \/ \E n \in Nodes : ZombieEnds(n)
  PROVE  SInv'
<1> USE DEF nodeVars, execVars, queueVars, runVars, logVars, worldVars
<1>1. IInv'
  BY DrivePreserves, IdlePreserves DEF SInv
<1>2. CASE Finish
  BY <1>2, FinishSafe
<1>3. CASE \/ Enqueue \/ Join \/ Cancel \/ UNCHANGED vars \/ \E n \in Nodes : ZombieEnds(n)
  <2>1. /\ UNCHANGED <<status, attempt, exec, sweep, order, used, verdicts, crashes, ledger,
                       calls>>
        /\ durable' = durable \/ durable' = ledger
        /\ \/ driver' = driver /\ cancelled' = cancelled /\ durable' = durable
           \/ /\ driver \notin {"finished"} /\ driver' \notin {"finished"}
              /\ driver' = "rejected" => driver = "rejected"
    BY <1>3 DEF Enqueue, Join, Cancel, ZombieEnds, vars, Record
  <2>2. Tables' /\ Completions' /\ SweepCompleted' /\ Budgeted' /\ CalledDeps'
    BY <2>1, QuietPreserves
  <2>3. LastWord' /\ OnlyApprovalRejects'
    BY <2>1 DEF SInv, LastWord, OnlyApprovalRejects
  <2>4. \A i \in Jobs : job'[i] = "awaiting" <=> job[i] = "awaiting"
    <3>1. CASE Enqueue
      BY <3>1 DEF Enqueue, SInv, IInv, WorkersFree
    <3>2. CASE Join \/ Cancel \/ UNCHANGED vars \/ \E n \in Nodes : ZombieEnds(n)
      BY <3>2 DEF Join, Cancel, vars, ZombieEnds
    <3> QED BY <1>3, <3>1, <3>2
  <2>5. SeatsMatch'
    BY <2>1, <2>4, SeatsKept DEF SInv
  <2> QED BY <1>1, <2>2, <2>3, <2>5 DEF SInv
<1> QED BY <1>2, <1>3 DEF Drive

\* Counting the completed nodes that were announced no later than a node lists
\* them in the order they were announced in.
LEMMA CountedListed ==
  ASSUME NEW seen \in [Nodes -> Nat], Listed(seen), NEW D \in SUBSET Nodes,
         \A n \in D : seen[n] > 0 /\ Deps[n] \subseteq D
  PROVE  LET f == [n \in Nodes |-> IF n \notin D THEN 0
                                   ELSE Cardinality({m \in D : seen[m] <= seen[n]})]
         IN Listed(f) /\ \A n \in Nodes : f[n] > 0 <=> n \in D
<1> DEFINE R(n) == {m \in D : seen[m] <= seen[n]}
           f == [n \in Nodes |-> IF n \notin D THEN 0 ELSE Cardinality(R(n))]
<1>1. IsFiniteSet(D) /\ Cardinality(D) \in Nat
  BY GraphAssumption, FS_Subset, FS_CardinalityType
<1>2. ASSUME NEW n \in D
      PROVE  /\ IsFiniteSet(R(n)) /\ Cardinality(R(n)) \in Nat /\ n \in R(n)
             /\ Cardinality(R(n)) <= Cardinality(D) /\ Cardinality(R(n)) > 0
  <2>1. IsFiniteSet(R(n)) /\ Cardinality(R(n)) <= Cardinality(D)
    BY <1>1, FS_Subset, R(n) \subseteq D
  <2>2. n \in R(n) /\ seen[n] \in Nat
    OBVIOUS
  <2>3. Cardinality(R(n)) \in Nat
    BY <2>1, FS_CardinalityType
  <2>4. Cardinality(R(n)) # 0
    BY <2>1, <2>2, FS_EmptySet
  <2> QED BY <2>1, <2>2, <2>3, <2>4
<1>3. ASSUME NEW m \in D, NEW n \in D, seen[m] < seen[n]
      PROVE  Cardinality(R(m)) < Cardinality(R(n))
  <2>1. R(m) \subseteq R(n) /\ n \notin R(m)
    BY <1>3
  <2>2. R(m) # R(n)
    BY <1>2, <2>1
  <2>3. /\ IsFiniteSet(R(n))
        /\ Cardinality(R(m)) \in Nat /\ Cardinality(R(n)) \in Nat
    BY <1>2
  <2> HIDE DEF R
  <2>4. Cardinality(R(m)) <= Cardinality(R(n)) /\ Cardinality(R(m)) # Cardinality(R(n))
    BY <2>1, <2>2, <2>3, FS_Subset
  <2> QED BY <2>3, <2>4
<1>4. /\ \A n \in D : f[n] = Cardinality(R(n)) /\ f[n] > 0 /\ f[n] \in Nat
      /\ \A n \in Nodes \ D : f[n] = 0
  BY <1>2
<1>5. \A m, n \in D : seen[m] < seen[n] => f[m] < f[n]
  BY <1>3, <1>4
<1>6. ASSUME NEW n \in D PROVE f[n] <= Cardinality(D)
  <2>1. Cardinality(R(n)) <= Cardinality(D) /\ f[n] = Cardinality(R(n))
    BY <1>2, <1>4
  <2> HIDE DEF f, R
  <2> QED BY <2>1
<1> HIDE DEF f, R
<1>7. \A n \in Nodes : f[n] > 0 <=> n \in D
  BY <1>4
<1>8. {m \in Nodes : f[m] > 0} = D
  BY <1>7
<1>9. Listed(f)
  <2> SUFFICES ASSUME NEW n \in Nodes
               PROVE  /\ f[n] <= Cardinality({m \in Nodes : f[m] > 0})
                      /\ f[n] > 0 => /\ \A m \in Nodes \ {n} : f[m] # f[n]
                                     /\ \A x \in Deps[n] : f[x] \in 1..(f[n] - 1)
    BY DEF Listed
  <2>1. f[n] <= Cardinality(D)
    BY <1>1, <1>4, <1>6
  <2>2. ASSUME f[n] > 0, NEW m \in Nodes \ {n} PROVE f[m] # f[n]
    <3>1. n \in D
      BY <1>7, <2>2
    <3>2. CASE m \in D
      <4>1. seen[m] # seen[n] /\ seen[m] \in Nat /\ seen[n] \in Nat
        BY <3>1, <3>2, <2>2 DEF Listed
      <4>2. seen[m] < seen[n] \/ seen[n] < seen[m]
        BY <4>1
      <4> QED BY <1>4, <1>5, <3>1, <3>2, <4>2
    <3>3. CASE m \notin D
      BY <1>4, <2>2, <3>3
    <3> QED BY <3>2, <3>3
  <2>3. ASSUME f[n] > 0, NEW x \in Deps[n] PROVE f[x] \in 1..(f[n] - 1)
    <3>1. n \in D /\ x \in D
      BY <1>7, <2>3
    <3>2. seen[x] \in 1..(seen[n] - 1) /\ seen[n] \in Nat
      BY <3>1 DEF Listed
    <3>3. f[x] < f[n]
      BY <1>5, <3>1, <3>2
    <3> QED BY <1>4, <3>1, <3>3
  <2> QED BY <1>8, <2>1, <2>2, <2>3
<1> QED BY <1>7, <1>9 DEF f, R

\* A crash and a hydration.
LEMMA RestartSafe ==
  ASSUME SInv, Restart
  PROVE  SInv'
<1> DEFINE st == Hydrated(durable)
<1> USE DEF SInv
<1>1. /\ IInv' /\ durable \in Snapshots /\ durable.st \in [Nodes -> NodeStatus]
      /\ durable.seen \in [Nodes -> Nat] /\ durable.at = attempt
      /\ Layered(durable.st) /\ Sequenced(durable)
  BY RestartPreserves DEF IInv, TypeOK, Snapshots, Tables, AttemptLogged
<1>2. /\ status' = st /\ attempt' = durable.at
      /\ exec' = [n \in Nodes |-> IF st[n] = "COMPLETED" THEN "fulfilled" ELSE "idle"]
      /\ order' = [n \in Nodes |->
                    IF st[n] # "COMPLETED" THEN 0
                    ELSE Cardinality({m \in Nodes : /\ st[m] = "COMPLETED"
                                                    /\ durable.seen[m] <= durable.seen[n]})]
      /\ ledger' = EmitSkipped(durable, st) /\ durable' = durable
      /\ sweep' = [n \in Nodes |-> {}]
      /\ job' = [j \in Jobs |-> "absent"] /\ used' = [k \in DOMAIN Limit |-> 0]
      /\ driver' = "driving" /\ verdicts' = {} /\ crashes' = crashes + 1
      /\ UNCHANGED calls
  BY DEF Restart
<1>3. Layered(st)
  BY <1>1, HydratedLayered
<1>4. \A n \in Nodes : st[n] = IF durable.st[n] \in Terminal THEN durable.st[n]
                               ELSE IF \A x \in Deps[n] : durable.st[x] = "COMPLETED"
                                    THEN "READY" ELSE "PLANNED"
  BY <1>1, HydratedIs
<1> HIDE DEF st
<1>5. \A n \in Nodes : \A x \in Deps[n] : x \in Nodes
  BY GraphAssumption
<1>6. \A n \in Nodes : st[n] = "COMPLETED" <=> durable.st[n] = "COMPLETED"
  BY <1>4 DEF Terminal
<1>7. ledger'.st = durable.st /\ ledger'.at = durable.at /\ ledger'.seen = durable.seen
  <2>1. /\ ledger' \in Snapshots
        /\ \A n \in Nodes :
             ledger'.st[n] = IF st[n] = "SKIPPED" THEN "SKIPPED" ELSE durable.st[n]
    BY <1>1, <1>2, EmitSkippedFacts
  <2>2. \A n \in Nodes : ledger'.st[n] = durable.st[n]
    BY <1>4, <2>1 DEF Terminal
  <2>3. ledger'.st \in [Nodes -> NodeStatus]
    BY <2>1 DEF Snapshots
  <2>4. ledger'.st = durable.st
    BY <1>1, <2>2, <2>3
  <2> QED BY <1>2, <2>4 DEF EmitSkipped
<1>8. LedgerMirrors'
  BY <1>2, <1>4, <1>7 DEF LedgerMirrors, Mirrors, Terminal
<1>9. PlannedWaits'
  BY <1>2, <1>4, <1>5, <1>6 DEF PlannedWaits, Terminal
<1>10. Sequenced(ledger')
  BY <1>1, <1>7 DEF Sequenced
<1>11. Tables'
  BY <1>1, <1>2, <1>3, <1>7, <1>8, <1>9, <1>10 DEF Tables, AttemptLogged
<1>12. Completions'
  <2> DEFINE D == {n \in Nodes : st[n] = "COMPLETED"}
             seen == durable.seen
             f == [n \in Nodes |-> IF n \notin D THEN 0
                                   ELSE Cardinality({m \in D : seen[m] <= seen[n]})]
  <2>1. \A n \in D : seen[n] > 0 /\ Deps[n] \subseteq D
    BY <1>1, <1>3, <1>5, <1>6 DEF Sequenced, Begun, Layered, Untouched
  <2>2. Listed(f) /\ \A n \in Nodes : f[n] > 0 <=> n \in D
    <3>1. seen \in [Nodes -> Nat] /\ Listed(seen) /\ D \in SUBSET Nodes
      BY <1>1 DEF Sequenced
    <3> HIDE DEF seen, D
    <3> QED BY <2>1, <3>1, CountedListed
  <2>3. \A n \in Nodes : {m \in D : seen[m] <= seen[n]}
                           = {m \in Nodes : st[m] = "COMPLETED" /\ seen[m] <= seen[n]}
    OBVIOUS
  <2>4. order' = f
    BY <1>2, <2>3
  <2>5. Listed(order') /\ \A n \in Nodes : order'[n] > 0 <=> status'[n] = "COMPLETED"
    <3>1. \A n \in Nodes : n \in D <=> st[n] = "COMPLETED"
      OBVIOUS
    <3> HIDE DEF f, D
    <3> QED BY <1>2, <2>2, <2>4, <3>1
  <2> QED BY <2>5 DEF Completions
<1>13. SweepCompleted'
  BY <1>2 DEF SweepCompleted
<1>14. Budgeted'
  <2>1. /\ calls \in [Nodes -> Nat] /\ attempt \in [Nodes -> 1..MaxAttempts]
        /\ crashes \in Nat /\ MaxAttempts \in Nat
    BY PolicyAssumption, QueueAssumption DEF IInv, TypeOK
  <2> SUFFICES ASSUME NEW m \in Nodes
               PROVE  calls[m] + (IF exec'[m] \in Uncalled THEN 1 ELSE 0)
                        <= attempt[m] + crashes + 1
    BY <1>1, <1>2, <2>1 DEF Budgeted
  <2>2. /\ calls[m] + (IF exec[m] \in Uncalled THEN 1 ELSE 0) <= attempt[m] + crashes
        /\ calls[m] \in Nat /\ attempt[m] \in Nat
    BY <2>1 DEF Budgeted
  <2> QED BY <2>1, <2>2
<1>15. CalledDeps'
  BY <1>2, <1>5, <1>6 DEF CalledDeps
<1>16. LastWord' /\ OnlyApprovalRejects'
  BY <1>2 DEF LastWord, OnlyApprovalRejects
<1>17. SeatsMatch'
  <2> SUFFICES ASSUME NEW k \in DOMAIN Limit
               PROVE  used'[k] = Cardinality(Seated(k)') /\ used'[k] <= Limit[k]
    BY DEF SeatsMatch, Seated
  <2>1. Seated(k)' = {}
    BY <1>2 DEF Seated
  <2> QED BY <1>2, <2>1, FS_EmptySet, QueueAssumption
<1> QED BY <1>1, <1>11, <1>12, <1>13, <1>14, <1>15, <1>16, <1>17

\* A new executor satisfies the invariant.
LEMMA InitSInv == Init => SInv
<1> SUFFICES ASSUME Init PROVE SInv
  OBVIOUS
<1> DEFINE planned == [n \in Nodes |-> "PLANNED"]
<1>1. IInv
  BY InitIInv
<1>2. planned \in [Nodes -> NodeStatus] /\ Layered(planned)
  BY GraphAssumption DEF NodeStatus, Layered, Untouched
<1>3. /\ status = Promote(planned)
      /\ ledger.st = planned /\ ledger.seen = [n \in Nodes |-> 0] /\ durable = ledger
      /\ attempt = [n \in Nodes |-> 1] /\ ledger.at = attempt
      /\ exec = [n \in Nodes |-> "idle"] /\ sweep = [n \in Nodes |-> {}]
      /\ order = [n \in Nodes |-> 0] /\ calls = [n \in Nodes |-> 0] /\ crashes = 0
      /\ driver = "driving" /\ verdicts = {}
      /\ job = [j \in Jobs |-> "absent"] /\ used = [k \in DOMAIN Limit |-> 0]
  BY DEF Init
<1>4. \A n \in Nodes : status[n] \in {"PLANNED", "READY"} /\ planned[n] = "PLANNED"
  BY <1>2, <1>3, PromoteFacts
<1> HIDE DEF planned
<1>5. LedgerMirrors /\ AttemptLogged
  BY <1>3, <1>4 DEF LedgerMirrors, Mirrors, Terminal, AttemptLogged
<1>6. Layered(status) /\ PlannedWaits
  BY <1>2, <1>3, PromoteLayered DEF PlannedWaits
<1>7. Listed([n \in Nodes |-> 0])
  <2>1. {m \in Nodes : [n \in Nodes |-> 0][m] > 0} = {}
    OBVIOUS
  <2>2. Cardinality({m \in Nodes : [n \in Nodes |-> 0][m] > 0}) = 0
    BY <2>1, FS_EmptySet
  <2> QED BY <2>2 DEF Listed
<1>8. Sequenced(ledger)
  BY <1>3, <1>4, <1>7 DEF Sequenced, Begun
<1>9. Tables
  BY <1>2, <1>3, <1>5, <1>6, <1>8 DEF Tables
<1>10. Completions
  BY <1>3, <1>4, <1>7 DEF Completions
<1>11. SweepCompleted /\ Budgeted /\ CalledDeps /\ LastWord /\ OnlyApprovalRejects
  BY <1>3 DEF SweepCompleted, Budgeted, CalledDeps, LastWord, OnlyApprovalRejects
<1>12. SeatsMatch
  <2> SUFFICES ASSUME NEW k \in DOMAIN Limit
               PROVE  used[k] = Cardinality(Seated(k)) /\ used[k] <= Limit[k]
    BY DEF SeatsMatch, Seated
  <2>1. Seated(k) = {}
    BY <1>3 DEF Seated
  <2> QED BY <1>3, <2>1, FS_EmptySet, QueueAssumption
<1> QED BY <1>1, <1>9, <1>10, <1>11, <1>12 DEF SInv

\* No step breaks the invariant.
LEMMA StepSInv == SInv /\ [Next]_vars => SInv'
<1> SUFFICES ASSUME SInv, [Next]_vars PROVE SInv'
  OBVIOUS
<1>1. CASE \/ Drive \/ Cancel \/ UNCHANGED vars
           \/ \E n \in Nodes : ZombieEnds(n)
  BY <1>1, DriveSafe
<1>2. CASE \E j \in Jobs : JobStep(j)
  BY <1>2, JobSafe
<1>3. CASE \E n \in Nodes : NodeStep(n) \/ Answer(n) \/ Timeout(n)
  BY <1>3, NodePreserves
<1>4. CASE Restart
  BY <1>4, RestartSafe
<1> QED BY <1>1, <1>2, <1>3, <1>4 DEF Next, Stopped

-----------------------------------------------------------------------------
(* The theorems                                                            *)

\* The strengthened invariant holds in every reachable state.
THEOREM SafetyInductive == Spec => []SInv
BY InitSInv, StepSInv, PTL DEF Spec

\* cascadeSkip reaches everything behind a skipped node, in memory and in what
\* hydrate() would make of the disk at any moment.
THEOREM SkipClosedHolds == Spec => []SkipClosed
<1>1. SInv => SkipClosed
  <2> SUFFICES ASSUME SInv, NEW n \in Nodes, NEW x \in Deps[n]
               PROVE  /\ status[x] = "SKIPPED" => status[n] = "SKIPPED"
                      /\ Hydrated(durable)[x] = "SKIPPED" => Hydrated(durable)[n] = "SKIPPED"
    BY DEF SkipClosed
  <2>1. Layered(status) /\ Layered(durable.st) /\ durable \in Snapshots
    BY DEF SInv, Tables, IInv, TypeOK
  <2>2. Layered(Hydrated(durable))
    BY <2>1, HydratedLayered
  <2> QED BY <2>1, <2>2 DEF Layered
<1> QED BY <1>1, SafetyInductive, PTL

\* completionOrder, and what hydrate() rebuilds of it from first events, lists the
\* completed nodes once each with dependencies first.
THEOREM CompletionOrderHolds == Spec => []CompletionOrder
<1>1. SInv => CompletionOrder
  BY DEF SInv, Completions, Listed, CompletionOrder
<1> QED BY <1>1, SafetyInductive, PTL

\* When drive() returns, what is not terminal is planned behind a failure.
LEMMA FinishedWaits ==
  ASSUME SInv, driver = "finished", NEW n \in Nodes, status[n] \notin Terminal
  PROVE  /\ status[n] = "PLANNED" /\ ~cancelled
         /\ \E x \in Deps[n] : status[x] \in {"FAILED", "ROLLED_BACK", "QUARANTINED", "PLANNED"}
<1>1. exec[n] = "idle" /\ status[n] # "READY" /\ ~cancelled
  BY DEF SInv, LastWord
<1>2. status[n] = "PLANNED"
  BY <1>1 DEF SInv, IInv, StatusFits, Fits, Terminal
<1>3. PICK x \in Deps[n] : status[x] # "COMPLETED"
  BY <1>2 DEF SInv, Tables, PlannedWaits
<1>4. x \in Nodes
  BY GraphAssumption
<1>5. status[x] \notin {"SKIPPED", "CANCELLED"}
  BY <1>2 DEF SInv, Tables, Layered
<1>6. status[x] \in Terminal \cup {"PLANNED"}
  <2>1. CASE exec[x] = "idle"
    BY <1>4, <2>1 DEF SInv, LastWord, IInv, StatusFits, Fits
  <2>2. CASE exec[x] # "idle"
    BY <1>4, <2>2 DEF SInv, LastWord
  <2> QED BY <2>1, <2>2
<1> QED BY <1>1, <1>2, <1>3, <1>5, <1>6 DEF Terminal

\* drive() ends with every node accounted for.
THEOREM NothingForgottenHolds == Spec => []NothingForgotten
<1>1. SInv => NothingForgotten
  BY FinishedWaits DEF NothingForgotten
<1> QED BY <1>1, SafetyInductive, PTL

\* finalize() and deriveStatus() agree on the run, because in a plan without cycles
\* whatever is still planned leads back to a failure.
THEOREM VerdictAgreesHolds == Spec => []VerdictAgrees
<1>1. ASSUME SInv, driver = "finished", ~cancelled
      PROVE  verdicts = {Outcome(status)}
  <2> DEFINE open == {n \in Nodes : status[n] \notin Terminal}
             failed == {"FAILED", "ROLLED_BACK", "QUARANTINED"}
  <2>1. open # {} => \E x \in Nodes : status[x] \in failed
    <3> SUFFICES ASSUME open # {} PROVE \E x \in Nodes : status[x] \in failed
      OBVIOUS
    <3>1. PICK n \in open : Deps[n] \cap open = {}
      BY AcyclicAssumption
    <3>2. PICK x \in Deps[n] : status[x] \in failed \cup {"PLANNED"}
      BY <1>1, FinishedWaits
    <3>3. x \in Nodes
      BY GraphAssumption
    <3> QED BY <3>1, <3>2, <3>3 DEF Terminal
  <2>2. \A n \in Nodes :
          status[n] \in NodeStatus \ {"COMPLETED", "SKIPPED", "CANCELLED"}
            => status[n] \in failed \/ n \in open
    BY DEF Terminal, NodeStatus
  <2> HIDE DEF open
  <2>3. Verdict(status) = Outcome(status)
    BY <2>1, <2>2 DEF Verdict, Outcome
  <2> QED BY <1>1, <2>3 DEF SInv, LastWord
<1>2. SInv => VerdictAgrees
  BY <1>1 DEF VerdictAgrees
<1> QED BY <1>2, SafetyInductive, PTL

\* Nothing but a rejected approval request makes run() reject.
THEOREM OnlyApprovalRejectsHolds == Spec => []OnlyApprovalRejects
<1>1. SInv => OnlyApprovalRejects
  BY DEF SInv
<1> QED BY <1>1, SafetyInductive, PTL

\* tryAcquire and release keep the per-key counters equal to the seats taken.
THEOREM SeatsMatchHolds == Spec => []SeatsMatch
<1>1. SInv => SeatsMatch
  BY DEF SInv
<1> QED BY <1>1, SafetyInductive, PTL

\* The idempotency store and the retry loop spend at most one call of the handler
\* on each attempt, and one more on each crash.
THEOREM RetryBudgetHolds == Spec => []RetryBudget
<1>1. SInv => RetryBudget
  <2> SUFFICES ASSUME SInv, NEW n \in Nodes PROVE calls[n] <= attempt[n] + crashes
    BY DEF RetryBudget
  <2>1. calls[n] \in Nat /\ attempt[n] \in Nat /\ crashes \in Nat
    BY PolicyAssumption, QueueAssumption DEF SInv, IInv, TypeOK
  <2>2. calls[n] + (IF exec[n] \in Uncalled THEN 1 ELSE 0) <= attempt[n] + crashes
    BY DEF SInv, Budgeted
  <2> QED BY <2>1, <2>2
<1> QED BY <1>1, SafetyInductive, PTL

\* Steps that call no handler and leave the sweeps alone, or forget them in a crash.
LEMMA CallsNothing ==
  ASSUME SInv, \/ Drive \/ Cancel \/ UNCHANGED vars \/ Restart
               \/ \E j \in Jobs : JobStep(j)
               \/ \E n \in Nodes : ZombieEnds(n)
  PROVE  calls' = calls /\ (sweep' = sweep \/ crashes' # crashes)
<1> USE DEF execVars, worldVars
<1>1. CASE Drive \/ Cancel \/ UNCHANGED vars
  BY <1>1 DEF Drive, Enqueue, Join, Finish, Cancel, vars
<1>2. ASSUME NEW j \in Jobs, JobStep(j) PROVE UNCHANGED <<calls, sweep>>
  BY <1>2 DEF JobStep, Take, Poll, Admit, Complete, Leave, Throw
<1>3. CASE Restart
  BY <1>3 DEF Restart, SInv, IInv, TypeOK
<1>4. CASE \E n \in Nodes : ZombieEnds(n)
  BY <1>4 DEF ZombieEnds
<1> QED BY <1>1, <1>2, <1>3, <1>4

\* No retry, skip, crash or late delivery calls the handler of a node again that a
\* called node depends on.
THEOREM UpstreamSettledHolds == Spec => UpstreamSettled
<1> DEFINE Final(n) == calls[n] > 0 => \A d \in Deps[n] : calls'[d] = calls[d]
<1>1. ASSUME SInv, [Next]_vars, NEW n \in Nodes, calls[n] > 0, NEW x \in Deps[n]
      PROVE  calls'[x] = calls[x]
  <2>1. CASE calls' = calls
    BY <2>1
  <2>2. ASSUME NEW m \in Nodes, NodeStep(m) \/ Answer(m) \/ Timeout(m)
        PROVE  calls'[x] = calls[x]
    <3>1. x \in Nodes /\ status[x] = "COMPLETED" /\ calls \in [Nodes -> Nat]
      BY <1>1, GraphAssumption DEF SInv, CalledDeps, IInv, TypeOK
    <3>2. Segment(m) /\ Spends(m)
      BY <1>1, <2>2, NodeTurned DEF SInv
    <3>3. status[m] # "COMPLETED"
      BY <1>1, <3>2, UnderWay DEF SInv, Segment
    <3> QED BY <3>1, <3>2, <3>3 DEF Spends
  <2> QED BY <1>1, <2>1, <2>2, CallsNothing DEF Next, Stopped
<1>2. SInv /\ [Next]_vars => [\A n \in Nodes : Final(n)]_vars
  BY <1>1
<1> QED BY <1>2, SafetyInductive, PTL DEF Spec, UpstreamSettled

\* compensateUpstream undoes the newest completion first, and completionOrder puts
\* dependencies first: what is undone has no dependent left in the sweep.
THEOREM UndoOrderHolds == Spec => UndoOrder
<1> DEFINE Undoes(n, m) == m \in sweep[n] \ sweep'[n] /\ crashes' = crashes =>
                             \A x \in sweep'[n] : m \notin Deps[x]
<1>1. ASSUME SInv, [Next]_vars, NEW n \in Nodes, NEW m \in Nodes,
             m \in sweep[n] \ sweep'[n], crashes' = crashes, NEW x \in sweep'[n]
      PROVE  m \notin Deps[x]
  <2>1. PICK k \in Nodes : NodeStep(k) \/ Answer(k) \/ Timeout(k)
    BY <1>1, CallsNothing DEF Next, Stopped
  <2>2. Segment(k) /\ Sweeps(k)
    BY <1>1, <2>1, NodeTurned DEF SInv
  <2>3. /\ sweep \in [Nodes -> SUBSET Nodes] /\ order \in [Nodes -> Nat]
        /\ SweepCompleted /\ Completions
    BY <1>1 DEF SInv, IInv, TypeOK
  <2>4. k = n /\ exec[n] = "sweeping"
    BY <1>1, <2>2, <2>3 DEF Sweeps, Rest, SweepCompleted
  <2>5. PICK y \in sweep[n] : /\ \A z \in sweep[n] : order[z] <= order[y]
                              /\ Rest(n, sweep[n] \ {y})
    BY <2>2, <2>4 DEF Sweeps
  <2>6. y = m /\ x \in sweep[n]
    BY <1>1, <2>3, <2>5 DEF Rest
  <2>7. x \in Nodes /\ order[x] > 0 /\ order[x] <= order[m]
    BY <2>3, <2>5, <2>6 DEF SweepCompleted, Completions
  <2>8. m \in Deps[x] => order[m] \in 1..(order[x] - 1)
    BY <2>3, <2>7 DEF Completions, Listed
  <2> QED BY <2>3, <2>7, <2>8
<1>2. SInv /\ [Next]_vars => [\A n, m \in Nodes : Undoes(n, m)]_vars
  BY <1>1
<1> QED BY <1>2, SafetyInductive, PTL DEF Spec, UndoOrder

-----------------------------------------------------------------------------
(* What a run returned, against what a later process would hydrate         *)

\* No node that asks for an approval lists a denial among the errors to retry.  When
\* one does, the catch block tries FAIL on a node that is FAILED already and throws
\* before it emits anything, so that the failure never reaches the ledger.
DenialsEnd == \A n \in Nodes : NeedsApproval(n) => "denied" \notin Retryable[n]

\* A failure is logged, or is a denial about to be.
FailureLogged(n) ==
  /\ status[n] = "FAILED" => ledger.st[n] = "FAILED" \/ exec[n] = "denied"
  /\ exec[n] \in {"asking", "denied"} => NeedsApproval(n)
FailuresLogged == \A n \in Nodes : FailureLogged(n)

\* The catch block logs a failure it leaves behind.
LEMMA CatchLogs ==
  ASSUME IInv, NEW n \in Nodes, NEW error,
         NEW st \in [Nodes -> NodeStatus], NEW L \in Snapshots,
         st[n] \in {"RUNNING", "WAITING"} \/ (st[n] = "FAILED" /\ error \notin Retryable[n]),
         Catch(n, error, st, L)
  PROVE  /\ status'[n] = "FAILED" => ledger'.st[n] = "FAILED"
         /\ exec'[n] \notin {"asking", "denied"}
<1> DEFINE Into(e, s) ==
             /\ status' = [st EXCEPT ![n] = s] /\ exec' = [exec EXCEPT ![n] = e]
<1>1. \/ status' = st /\ exec' = [exec EXCEPT ![n] = "rejected"] /\ st[n] = "WAITING"
      \/ Into("rejected", "QUARANTINED")
      \/ Into("compensating", "COMPENSATING")
      \/ Into("rejected", "FAILED") /\ ledger' = Emit(L, n, "FAILED")
      \/ Into("backoff", "RETRYING")
  BY Moves DEF Catch, FailNode, Record
<1>2. exec \in [Nodes -> ExecState] /\ L.st \in [Nodes -> NodeStatus]
  BY DEF IInv, TypeOK, Snapshots
<1>3. Emit(L, n, "FAILED").st[n] = "FAILED"
  BY <1>2 DEF Emit
<1> QED BY <1>1, <1>2, <1>3

\* An attempt that throws where it stands.
LEMMA ThrowsLogs ==
  ASSUME IInv, NEW n \in Nodes, NEW error, Throws(n, error),
         \/ exec[n] \in {"announced", "granted", "acting", "asking"}
         \/ exec[n] = "denied" /\ error \notin Retryable[n]
  PROVE  FailureLogged(n)'
<1>1. /\ status \in [Nodes -> NodeStatus] /\ ledger \in Snapshots
      /\ Catch(n, error, status, ledger)
      /\ \/ status[n] \in {"RUNNING", "WAITING"}
         \/ status[n] = "FAILED" /\ error \notin Retryable[n]
  BY DEF Throws, IInv, TypeOK, StatusFits, Fits
<1> QED BY <1>1, CatchLogs DEF FailureLogged

\* A segment logs the failure of its node.
LEMMA SegmentLogs ==
  ASSUME DenialsEnd, SInv, FailuresLogged, NEW n \in Nodes,
         NodeStep(n) \/ Answer(n) \/ Timeout(n)
  PROVE  FailureLogged(n)'
<1>1. /\ IInv /\ Fits(exec[n], status[n]) /\ FailureLogged(n)
      /\ status \in [Nodes -> NodeStatus] /\ exec \in [Nodes -> ExecState]
      /\ ledger \in Snapshots
  BY DEF SInv, IInv, StatusFits, FailuresLogged, TypeOK
<1>2. ASSUME NEW s, NEW e, s # "FAILED", e \notin {"asking", "denied"},
             Step(n, [status EXCEPT ![n] = s], e)
      PROVE  FailureLogged(n)'
  BY <1>1, <1>2 DEF Step, FailureLogged
<1>3. ASSUME NEW value, Verified(n, value), exec[n] \in {"acting", "granted", "routed"}
      PROVE  FailureLogged(n)'
  <2>1. Step(n, [status EXCEPT ![n] = "VERIFYING"], "verified")
    BY <1>1, <1>3, Moves DEF Verified, Fits
  <2> QED BY <1>2, <2>1
<1>4. CASE Ask(n)
  <2>1. /\ NeedsApproval(n) /\ Step(n, [status EXCEPT ![n] = "WAITING"], "asking")
    BY <1>1, <1>4, Moves DEF Ask, Fits
  <2> QED BY <1>1, <2>1 DEF Step, FailureLogged, NeedsApproval
<1>5. CASE Grant(n)
  <2>1. Step(n, [status EXCEPT ![n] = "RUNNING"], "granted")
    BY <1>1, <1>5, Moves DEF Grant, Fits
  <2> QED BY <1>2, <2>1
<1>6. CASE Deny(n)
  <2>1. /\ NeedsApproval(n) /\ Step(n, [status EXCEPT ![n] = "FAILED"], "denied")
    BY <1>1, <1>6, Moves DEF Deny, Fits, FailureLogged
  <2> QED BY <1>1, <2>1 DEF Step, FailureLogged, NeedsApproval
<1>7. CASE Refuse(n)
  <2>1. exec[n] = "denied" /\ Throws(n, "denied") /\ "denied" \notin Retryable[n]
    BY <1>1, <1>7 DEF Refuse, FailureLogged, DenialsEnd
  <2> QED BY <1>1, <2>1, ThrowsLogs
<1>8. CASE ApprovalFails(n) \/ Unresolved(n) \/ Fail(n) \/ Timeout(n)
  <2>1. /\ exec[n] \in {"announced", "granted", "acting", "asking"}
        /\ \E error \in ErrorKind : Throws(n, error)
    BY <1>8 DEF ApprovalFails, Unresolved, MayAct, Fail, Timeout, ErrorKind
  <2> QED BY <1>1, <2>1, ThrowsLogs
<1>9. CASE Invoke(n)
  <2>1. Step(n, status, "acting") /\ status[n] = "RUNNING"
    BY <1>1, <1>9 DEF Invoke, MayAct, Fits
  <2>2. Step(n, [status EXCEPT ![n] = "RUNNING"], "acting")
    BY <1>1, <2>1 DEF Step
  <2> QED BY <1>2, <2>2
<1>10. CASE Succeed(n) \/ Approved(n) \/ Routed(n)
  BY <1>3, <1>10 DEF Succeed, Approved, Routed
<1>11. CASE Wake(n)
  <2>1. status'[n] = "RUNNING" /\ exec'[n] = "announced"
    BY <1>1, <1>11, Moves DEF Wake, Announce, Fits
  <2> QED BY <2>1 DEF FailureLogged
<1>12. ASSUME NEW branch \in {"yes", "no"}, Route(n, branch) PROVE FailureLogged(n)'
  <2> DEFINE roots == SkipRoots(status, Untaken(n, branch))
             st == Skip(status, roots)
             L == EmitSkipped(ledger, st)
  <2>1. status[n] = "RUNNING"
    BY <1>1, <1>12 DEF Route, Source, Fits
  <2>2. roots \in SUBSET Nodes /\ \A r \in roots : status[r] = "PLANNED"
    <3>1. Then[n] \in Seq(Nodes) /\ Else[n] \in Seq(Nodes)
      BY GraphAssumption
    <3>2. Untaken(n, branch) \in Seq(Nodes)
      BY <3>1 DEF Untaken
    <3> QED BY <3>2 DEF SkipRoots
  <2>3. Step(n, st, "routed") \/ Catch(n, "illegal", st, L)
    BY <1>12 DEF Route
  <2> HIDE DEF roots
  <2>4. st \in [Nodes -> NodeStatus] /\ st[n] = "RUNNING"
    BY <1>1, <2>1, <2>2, SkipFacts
  <2>5. L \in Snapshots
    BY <1>1, EmitSkippedFacts
  <2> HIDE DEF st, L
  <2>6. CASE Step(n, st, "routed")
    BY <1>1, <2>4, <2>6 DEF Step, FailureLogged
  <2>7. CASE Catch(n, "illegal", st, L)
    BY <1>1, <2>4, <2>5, <2>7, CatchLogs DEF FailureLogged
  <2> QED BY <2>3, <2>6, <2>7
<1>13. CASE Compensate(n)
  <2>1. status'[n] = "ROLLED_BACK" /\ exec'[n] \in {"rejected", "sweeping"}
    BY <1>1, <1>13, Moves DEF Compensate, Sweep, Fits
  <2> QED BY <2>1 DEF FailureLogged
<1>14. CASE Undo(n)
  <2>1. status'[n] = "ROLLED_BACK" /\ exec'[n] \in {"rejected", "sweeping"}
    BY <1>1, <1>14 DEF Undo, Sweep, Fits, nodeVars
  <2> QED BY <2>1 DEF FailureLogged
<1> QED BY <1>4, <1>5, <1>6, <1>7, <1>8, <1>9, <1>10, <1>11, <1>12, <1>13, <1>14
     DEF NodeStep, Answer

\* With final denials, no step leaves a failed node whose failure is not in the
\* ledger.
LEMMA StepFailures ==
  ASSUME DenialsEnd, SInv, FailuresLogged, [Next]_vars
  PROVE  FailuresLogged'
<1> SUFFICES ASSUME NEW m \in Nodes PROVE FailureLogged(m)'
  BY DEF FailuresLogged
<1>1. FailureLogged(m)
  BY DEF FailuresLogged
<1> USE DEF nodeVars, execVars, runVars, logVars, NeedsApproval
<1>2. ASSUME NEW n \in Nodes, NodeStep(n) \/ Answer(n) \/ Timeout(n) PROVE FailureLogged(m)'
  <2>1. Segment(n)
    BY <1>2, NodeTurned DEF SInv
  <2> QED BY <1>1, <1>2, <2>1, SegmentLogs DEF FailureLogged, Segment
<1>3. CASE \/ Enqueue \/ Join \/ Cancel \/ UNCHANGED vars \/ \E n \in Nodes : ZombieEnds(n)
  BY <1>1, <1>3 DEF Enqueue, Join, Cancel, ZombieEnds, vars, Record, FailureLogged
<1>4. CASE Finish
  <2> DEFINE open == IF cancelled THEN {n \in Nodes : status[n] \notin Terminal} ELSE {}
  <2>1. /\ status' = [n \in Nodes |-> IF n \in open THEN "CANCELLED" ELSE status[n]]
        /\ ledger' = EmitCancelled(ledger, open) /\ exec' = exec
    BY <1>4 DEF Finish, Record
  <2>2. ledger \in Snapshots
    BY DEF SInv, IInv, TypeOK
  <2> HIDE DEF open
  <2>3. ledger'.st[m] = IF m \in open THEN "CANCELLED" ELSE ledger.st[m]
    BY <2>1, <2>2, EmitCancelledFacts
  <2> QED BY <1>1, <2>1, <2>3 DEF FailureLogged
<1>5. ASSUME NEW j \in Jobs, JobStep(j) PROVE FailureLogged(m)'
  <2> DEFINE n == j[1]
  <2>1. /\ n \in Nodes /\ status \in [Nodes -> NodeStatus] /\ exec \in [Nodes -> ExecState]
        /\ ledger \in Snapshots /\ ledger.st \in [Nodes -> NodeStatus]
    BY JobFacts DEF SInv, IInv, TypeOK, Snapshots
  <2>2. CASE UNCHANGED <<status, exec, ledger>>
    BY <1>1, <2>2 DEF FailureLogged
  <2>3. CASE exec[n] = "idle" /\ Announce(n, "START", attempt[n])
             /\ job[j] \in {"queued", "acquiring"} /\ driver # "finished"
    <3>1. status[n] = "READY"
      BY <2>1, <2>3 DEF SInv, IInv, QueuedReady
    <3>2. /\ status' = [status EXCEPT ![n] = "RUNNING"]
          /\ exec' = [exec EXCEPT ![n] = "announced"]
          /\ ledger'.st = [ledger.st EXCEPT ![n] = "RUNNING"]
      BY <2>1, <2>3, <3>1, Moves DEF Announce, Record, EmitRunning
    <3> QED BY <1>1, <2>1, <3>2 DEF FailureLogged
  <2>4. CASE Complete(j)
    <3>1. status[n] = "VERIFYING"
      BY <2>1, <2>4 DEF Complete, SInv, IInv, StatusFits, Fits
    <3> DEFINE st == [status EXCEPT ![n] = "COMPLETED"]
    <3>2. /\ status' = Promote(st) /\ exec' = [exec EXCEPT ![n] = "fulfilled"]
          /\ ledger'.st = [ledger.st EXCEPT ![n] = "COMPLETED"]
      BY <2>1, <2>4, <3>1, Moves DEF Complete, EmitCompleted
    <3>3. st \in [Nodes -> NodeStatus]
      BY <2>1 DEF NodeStatus
    <3>4. status'[m] = st[m] \/ status'[m] = "READY"
      <4> HIDE DEF st
      <4> QED BY <3>2, <3>3, PromoteFacts
    <3> QED BY <1>1, <2>1, <3>2, <3>4 DEF FailureLogged
  <2> QED BY <1>5, <2>2, <2>3, <2>4, AtWork
      DEF JobStep, Take, Poll, Admit, Leave, Throw, SInv
<1>6. CASE Restart
  <2> DEFINE st == Hydrated(durable)
  <2>1. durable \in Snapshots /\ Layered(durable.st)
    BY DEF SInv, Tables, IInv, TypeOK
  <2>2. /\ status' = st /\ ledger' = EmitSkipped(durable, st)
        /\ exec' = [n \in Nodes |-> IF st[n] = "COMPLETED" THEN "fulfilled" ELSE "idle"]
    BY <1>6 DEF Restart
  <2>3. st[m] = "FAILED" => durable.st[m] = "FAILED"
    BY <2>1, HydratedIs
  <2> HIDE DEF st
  <2>4. ledger'.st[m] = IF st[m] = "SKIPPED" THEN "SKIPPED" ELSE durable.st[m]
    BY <2>1, <2>2, EmitSkippedFacts
  <2> QED BY <2>2, <2>3, <2>4 DEF FailureLogged
<1> QED BY <1>2, <1>3, <1>4, <1>5, <1>6 DEF Next, Drive, Stopped

\* What run() returned is what another process hydrates from the ledger, when denials
\* are final: every status it returned is one hydrate() rebuilds.
THEOREM FinishedIsDurableHolds ==
  ASSUME DenialsEnd
  PROVE  Spec => []FinishedIsDurable
<1>1. Init => SInv /\ FailuresLogged
  <2>1. ASSUME Init PROVE FailuresLogged
    <3>1. \A n \in Nodes : exec[n] = "idle" /\ status[n] # "FAILED"
      <4>1. [n \in Nodes |-> "PLANNED"] \in [Nodes -> NodeStatus]
        BY DEF NodeStatus
      <4> QED BY <2>1, <4>1, PromoteFacts DEF Init
    <3> QED BY <3>1 DEF FailuresLogged, FailureLogged
  <2> QED BY <2>1, InitSInv
<1>2. SInv /\ FailuresLogged /\ [Next]_vars => (SInv /\ FailuresLogged)'
  BY StepSInv, StepFailures
<1>3. ASSUME SInv, FailuresLogged PROVE FinishedIsDurable
  <2> SUFFICES ASSUME driver = "finished" PROVE Hydrated(durable) = status
    BY DEF FinishedIsDurable
  <2>1. /\ durable \in Snapshots /\ status \in [Nodes -> NodeStatus]
        /\ durable = ledger /\ Layered(durable.st) /\ PlannedWaits /\ LedgerMirrors /\ DoneLogged
    BY <1>3 DEF SInv, Tables, IInv, TypeOK, LastWord
  <2>2. Hydrated(durable) \in [Nodes -> NodeStatus]
    BY <2>1, HydratedFacts
  <2>3. ASSUME NEW n \in Nodes PROVE Hydrated(durable)[n] = status[n]
    <3>1. Hydrated(durable)[n] =
            IF ledger.st[n] \in Terminal THEN ledger.st[n]
            ELSE IF \A x \in Deps[n] : ledger.st[x] = "COMPLETED" THEN "READY" ELSE "PLANNED"
      BY <2>1, HydratedIs
    <3>2. CASE status[n] \in Terminal
      <4>1. exec[n] # "denied"
        BY <1>3 DEF SInv, IInv, Held, WorkersFree, Settled
      <4>2. ledger.st[n] = status[n]
        BY <1>3, <2>1, <3>2, <4>1 DEF FailuresLogged, FailureLogged, LedgerMirrors, Mirrors,
                                      Terminal
      <4> QED BY <3>1, <3>2, <4>2
    <3>3. CASE status[n] \notin Terminal
      <4>1. status[n] = "PLANNED"
        BY <1>3, <3>3, FinishedWaits
      <4>2. ledger.st[n] \notin Terminal
        BY <2>1, <4>1 DEF LedgerMirrors, Mirrors
      <4>3. \E x \in Deps[n] : ledger.st[x] # "COMPLETED"
        BY <2>1, <4>1, GraphAssumption DEF PlannedWaits, DoneLogged
      <4> QED BY <3>1, <4>1, <4>2, <4>3
    <3> QED BY <3>2, <3>3
  <2> QED BY <2>1, <2>2, <2>3
<1> QED BY <1>1, <1>2, <1>3, PTL DEF Spec
=============================================================================
