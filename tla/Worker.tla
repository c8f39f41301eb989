------------------------------- MODULE Worker -------------------------------
(***************************************************************************)
(* The worker (apps/worker/src/index.ts) and its D1 table                  *)
(* (apps/worker/src/storage.ts): POST /run runs a task, stores the outcome *)
(* and answers; the lists read the table.  A run draws its run id and its  *)
(* task id together, so the number of the job stands for both.  Answers    *)
(* travel back over a network that may lose them.                          *)
(***************************************************************************)
EXTENDS Naturals, SequencesExt

CONSTANTS
  MaxJobs,  \* bound: POST /run requests
  PageSize, \* rows of a list: pageSize() with the limit the console sends
  Null

VARIABLES
  configured, \* env.DB is there
  rows,       \* the table runs, oldest first: [run, verdict]
  jobs,       \* job -> "none", "sent", the verdict of its run, or "closed"
  answers     \* job -> Null, or what its fetch() settles with: [status, ...]

workerVars == <<configured, rows, jobs, answers>>

Jobs == 1 .. MaxJobs
Verdicts == {"PASSED", "FAILED"} \* of ProofCarryingOutcome; BLOCKED counts as FAILED

WorkerInit ==
  /\ configured \in BOOLEAN /\ rows = << >>
  /\ jobs = [n \in Jobs |-> "none"] /\ answers = [n \in Jobs |-> Null]

Reply(body) == [status |-> 200, body |-> body]
Error(status) == [status |-> status]
Lost == Error(0)      \* nothing arrives: fetch() rejects
ErrorPage == Error(520) \* an uncaught throw: a page of the platform, no JSON

\* What the handler answers last; an answer on a lost connection is nobody's.
Respond(n, reply) ==
  /\ jobs' = [jobs EXCEPT ![n] = "closed"]
  /\ answers' = IF answers[n] = Null THEN [answers EXCEPT ![n] = reply] ELSE answers

-----------------------------------------------------------------------------
(* POST /run                                                               *)

\* Without a database, with a body over the limit or an empty task nothing runs.
RefuseRun(n) ==
  /\ jobs[n] = "sent"
  /\ Respond(n, Error(IF configured THEN 400 ELSE 503))
  /\ UNCHANGED <<configured, rows>>

\* runner.run(task) settles: a runner made for this request alone, or a throw.
Ran(n) ==
  /\ jobs[n] = "sent" /\ configured
  /\ \/ \E v \in Verdicts : jobs' = [jobs EXCEPT ![n] = v] /\ UNCHANGED answers
     \/ Respond(n, Error(500))
  /\ UNCHANGED <<configured, rows>>

Row(n) == [run |-> n, verdict |-> jobs[n]]
Stored(n) == Append(rows, Row(n))

\* A variant that does not wait for the INSERT.
SaveUnawaited(n) ==
  /\ jobs[n] \in Verdicts
  /\ Respond(n, Reply(Row(n)))
  /\ rows' \in {rows, Stored(n)}
  /\ UNCHANGED configured

\* await saveRun(): the answer is sent after the INSERT, and an INSERT that
\* rejects, stored all the same or not, is answered with 500.
SaveRun(n) ==
  /\ jobs[n] \in Verdicts
  /\ \/ rows' = Stored(n) /\ Respond(n, Reply(Row(n)))
     \/ rows' \in {rows, Stored(n)} /\ Respond(n, Error(500))
  /\ UNCHANGED configured

\* The connection breaks before the answer: the isolate dies, or runs on.
Cut(n) ==
  /\ jobs[n] \notin {"none", "closed"} /\ answers[n] = Null
  /\ answers' = [answers EXCEPT ![n] = Lost]
  /\ jobs' \in {jobs, [jobs EXCEPT ![n] = "closed"]}
  /\ UNCHANGED <<configured, rows>>

-----------------------------------------------------------------------------
(* GET /tasks and GET /runs                                                *)

\* The newest of some rows, a page of them.  No view tells them apart by order.
Newest(places) == {k \in places : Cardinality({j \in places : j > k}) < PageSize}

\* The rows of one task or (Null) of all of them.
Listed(task) ==
  {rows[i] : i \in Newest({k \in DOMAIN rows : task # Null => rows[k].run = task})}

\* The table is read, or the query rejects, which no try block catches.
Lists(task) ==
  IF configured THEN {Reply(Listed(task)), ErrorPage} ELSE {Error(503)}

Works(n) == RefuseRun(n) \/ Ran(n) \/ SaveRun(n)
WorkerNext == \E n \in Jobs : Works(n) \/ Cut(n)
=============================================================================
