--------------------------- MODULE DurableLedger ---------------------------
(***************************************************************************)
(* The durable ledger (storage/store/src/durable-ledger.ts): the kernel's  *)
(* hash-chained Ledger in memory, a list of pending events, and an         *)
(* EventStore that flush() writes batches to.  Two stores exist.  SQLite's *)
(* append runs to its COMMIT before it yields; Postgres's yields, so that  *)
(* several batches can be on their way at once, each one transaction.      *)
(*                                                                         *)
(* SHA-256 is taken to be injective: the hash of an event is the sequence  *)
(* of the payloads up to it, and an event is identified with its hash.     *)
(***************************************************************************)
EXTENDS Naturals, Sequences, FiniteSets

CONSTANTS
  Stores,       \* the kinds of store to start with: "sqlite", "postgres"
  PayloadKinds, \* "json" survives JSON.stringify; "void" holds an undefined
  MaxDrafts,    \* bound on the events appended over all processes
  MaxRefusals,  \* bound on the transactions the database refuses
  MaxCrashes    \* bound on process deaths

ASSUME LedgerAssumption ==
  /\ Stores \subseteq {"sqlite", "postgres"}
  /\ PayloadKinds \subseteq {"json", "void"}
  /\ MaxDrafts \in Nat /\ MaxRefusals \in Nat /\ MaxCrashes \in Nat

VARIABLES
  store,    \* the kind of store
  durable,  \* the committed events, each as its hash; seq is the primary key
  flights,  \* batches handed to store.append and not settled, with their process
  proc,     \* the process: "down", "reading" (store.all), "up", or hydrate threw
  snap,     \* what store.all() returned
  log,      \* Ledger.events, as payloads
  pending,  \* DurableLedger.pending, as hashes
  drafts,   \* events appended so far
  refusals, \* transactions refused so far
  crashes,  \* process deaths so far, which also numbers the processes
  acked,    \* history: events of the batches whose flush() resolved
  past      \* history: every log a process ever held

ledgerVars == <<store, durable, flights, proc, snap, log, pending, drafts, refusals, crashes,
                acked, past>>

-----------------------------------------------------------------------------
(* The hash chain (kernel/events/src/ledger.ts)                            *)

Payloads == [n : 1..MaxDrafts, kind : PayloadKinds]

\* eventHash(payload, prevHash)
EventHash(payload, prev) == Append(prev, payload)

\* The payload as it comes back from the row: JSON.stringify leaves out the
\* undefined properties, which canonicalize had hashed.
ReadBack(payload) == [payload EXCEPT !.kind = "json"]

\* The event of a row: its payload is read back, its hash is the stored one.
PayloadOf(hash) == ReadBack(hash[Len(hash)])
PrevOf(hash) == SubSeq(hash, 1, Len(hash) - 1)

\* ORDER BY seq: an event's seq is the length of the chain before it.
InOrder(S) ==
  [i \in 1..Cardinality(S) |->
     CHOOSE h \in S : Cardinality({x \in S : Len(x) < Len(h)}) = i - 1]

\* verifyChain
VerifyChain(events) ==
  \A i \in DOMAIN events :
    LET prev == IF i = 1 THEN << >> ELSE events[i - 1]
    IN /\ events[i] = EventHash(PayloadOf(events[i]), prev)
       /\ PrevOf(events[i]) = prev

-----------------------------------------------------------------------------
LedgerInit ==
  /\ store \in Stores
  /\ durable = {} /\ flights = {} /\ snap = {}
  /\ proc = "down" /\ log = << >> /\ pending = << >>
  /\ drafts = 0 /\ refusals = 0 /\ crashes = 0
  /\ acked = {} /\ past = {<< >>}

\* hydrate(), up to the answer of store.all().
ReadAll ==
  /\ proc = "down"
  /\ proc' = "reading" /\ snap' = durable
  /\ UNCHANGED <<store, durable, flights, log, pending, drafts, refusals, crashes, acked, past>>

\* Variant: the events before the first bad one are salvaged.
Salvage ==
  /\ proc = "reading"
  /\ LET events == InOrder(snap)
         good == {k \in 0..Len(events) : VerifyChain(SubSeq(events, 1, k))}
         most == CHOOSE k \in good : \A x \in good : x <= k
     IN log' = [i \in 1..most |-> PayloadOf(events[i])]
  /\ proc' = "up"
  /\ UNCHANGED <<store, durable, flights, snap, pending, drafts, refusals, crashes, acked, past>>

\* Variant: neither the chain nor the rebuilt hashes are compared.
Trust ==
  /\ proc = "reading"
  /\ LET events == InOrder(snap)
     IN log' = [i \in DOMAIN events |-> PayloadOf(events[i])]
  /\ proc' = "up"
  /\ UNCHANGED <<store, durable, flights, snap, pending, drafts, refusals, crashes, acked, past>>

\* The rest of hydrate(): the chain is verified and rebuilt, or it throws.
Rebuild ==
  /\ proc = "reading"
  /\ LET events == InOrder(snap)
     IN \/ /\ VerifyChain(events)
           /\ log' = [i \in DOMAIN events |-> PayloadOf(events[i])]
           /\ proc' = "up"
        \/ /\ ~VerifyChain(events)
           /\ proc' = "refused" /\ UNCHANGED log
  /\ UNCHANGED <<store, durable, flights, snap, pending, drafts, refusals, crashes, acked, past>>

\* append(): the event is chained to the last one, and pending.
AppendEvent(kind) ==
  /\ proc = "up" /\ drafts < MaxDrafts
  /\ LET hash == EventHash([n |-> drafts + 1, kind |-> kind], log)
     IN /\ log' = hash
        /\ pending' = Append(pending, hash)
        /\ past' = past \cup {hash}
  /\ drafts' = drafts + 1
  /\ UNCHANGED <<store, durable, flights, proc, snap, refusals, crashes, acked>>

\* A transaction that inserts what a primary key forbids is rolled back.
Fits(batch) == \A h \in batch : \A r \in durable : Len(r) # Len(h)

\* COMMIT
Commit(batch) == durable' = durable \cup batch

Batch == {pending[i] : i \in DOMAIN pending}

\* Variant: the newest event of the batch is left out.
FlushShort ==
  /\ proc = "up" /\ store = "sqlite" /\ pending # << >>
  /\ Commit(Batch \ {log}) /\ acked' = acked \cup Batch
  /\ pending' = << >>
  /\ UNCHANGED <<store, flights, proc, snap, log, drafts, refusals, crashes, past>>

\* flush() on SQLite: BEGIN to COMMIT in one segment.
FlushNow ==
  /\ proc = "up" /\ store = "sqlite" /\ pending # << >>
  /\ Fits(Batch)
  /\ Commit(Batch) /\ acked' = acked \cup Batch
  /\ pending' = << >>
  /\ UNCHANGED <<store, flights, proc, snap, log, drafts, refusals, crashes, past>>

\* The same, when the database refuses: the batch is not pending any more.
FlushFails ==
  /\ proc = "up" /\ store = "sqlite" /\ pending # << >>
  /\ refusals < MaxRefusals /\ refusals' = refusals + 1
  /\ pending' = << >>
  /\ UNCHANGED <<store, durable, flights, proc, snap, log, drafts, crashes, acked, past>>

\* Variant: no early return when nothing is pending.
FlushSendsAny ==
  /\ proc = "up" /\ store = "postgres"
  /\ flights' = flights \cup {[batch |-> Batch, by |-> crashes]}
  /\ pending' = << >>
  /\ UNCHANGED <<store, durable, proc, snap, log, drafts, refusals, crashes, acked, past>>

\* flush() on Postgres, up to the transaction's first await.
FlushSends ==
  /\ proc = "up" /\ store = "postgres" /\ pending # << >>
  /\ flights' = flights \cup {[batch |-> Batch, by |-> crashes]}
  /\ pending' = << >>
  /\ UNCHANGED <<store, durable, proc, snap, log, drafts, refusals, crashes, acked, past>>

\* The database commits a transaction, of a process long dead perhaps; its
\* flush() resolves if the process is still there.
Lands(f) ==
  /\ Fits(f.batch)
  /\ Commit(f.batch)
  /\ flights' = flights \ {f}
  /\ acked' = IF proc = "up" /\ f.by = crashes THEN acked \cup f.batch ELSE acked
  /\ UNCHANGED <<store, proc, snap, log, pending, drafts, refusals, crashes, past>>

\* The database rolls a transaction back: a duplicate key, a lost connection.
Bounces(f) ==
  /\ ~Fits(f.batch) \/ f.by < crashes \/ refusals < MaxRefusals
  /\ refusals' = IF Fits(f.batch) /\ f.by = crashes THEN refusals + 1 ELSE refusals
  /\ flights' = flights \ {f}
  /\ UNCHANGED <<store, durable, proc, snap, log, pending, drafts, crashes, acked, past>>

\* The process dies with its memory; another one is started.
Crash ==
  /\ proc # "down" /\ crashes < MaxCrashes
  /\ proc' = "down" /\ log' = << >> /\ pending' = << >>
  /\ crashes' = crashes + 1
  /\ UNCHANGED <<store, durable, flights, snap, drafts, refusals, acked, past>>

LedgerNext ==
  \/ ReadAll \/ Rebuild
  \/ \E kind \in PayloadKinds : AppendEvent(kind)
  \/ FlushNow \/ FlushFails \/ FlushSends
  \/ \E f \in flights : Lands(f) \/ Bounces(f)
  \/ Crash

LedgerSpec == LedgerInit /\ [][LedgerNext]_ledgerVars

-----------------------------------------------------------------------------
(* Properties                                                              *)

Hashes == UNION {[1..k -> Payloads] : k \in 0..MaxDrafts}

\* Every variable has its type; no batch on its way is empty.
LedgerTypeOK ==
  /\ store \in Stores /\ proc \in {"down", "reading", "up", "refused"}
  /\ durable \subseteq Hashes /\ snap \subseteq Hashes /\ log \in Hashes
  /\ \A i \in DOMAIN pending : pending[i] \in Hashes
  /\ \A f \in flights : f.batch \subseteq Hashes /\ f.batch # {} /\ f.by \in 0..crashes
  /\ drafts \in 0..MaxDrafts /\ refusals \in 0..MaxRefusals /\ crashes \in 0..MaxCrashes
  /\ acked \subseteq Hashes /\ past \subseteq Hashes

\* Whatever the store did to the batches (dropped, reordered, committed after
\* the process was dead), a ledger that boots has exactly a log some process
\* held: nothing is missing inside it, nothing is mixed from two processes.
BootIsHistory == [][proc = "reading" /\ proc' = "up" => log' \in past]_ledgerVars

IsPrefixOf(h, l) == Len(h) <= Len(l) /\ h = SubSeq(l, 1, Len(h))

\* A ledger that boots holds every event whose flush() ever resolved: it never
\* boots by forgetting what was acknowledged.
AckedKept ==
  [][proc = "reading" /\ proc' = "up" => \A h \in acked : IsPrefixOf(h, log')]_ledgerVars

\* On SQLite, with no refused transaction and JSON payloads, the ledger is what
\* the executor takes it for: flush() makes the whole log stable, and a crash
\* cuts the log back to what was flushed.
Promised == INSTANCE EventLog WITH
  Payload <- Payloads,
  log <- IF proc = "up" THEN log
         ELSE LET events == InOrder(durable) IN [i \in DOMAIN events |-> PayloadOf(events[i])],
  stable <- Cardinality(durable),
  sound <- /\ store = "sqlite" /\ refusals = 0
           /\ \A l \in past : \A i \in DOMAIN l : l[i].kind = "json"
EventLogHolds == Promised!LogSpec

\* durable-ledger.ts: after a crash hydrate() brings the state back.
Reboots == proc # "refused"
=============================================================================
