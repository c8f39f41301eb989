------------------------------ MODULE EventLog ------------------------------
(***************************************************************************)
(* What the executor is promised of its ledger (LedgerLike with onPersist):*)
(* a log that grows, a prefix of it that is stable, and a crash that cuts  *)
(* the log back to that prefix.  The promise binds as long as the store    *)
(* is sound; nothing is said of the log once it is not.                    *)
(***************************************************************************)
EXTENDS Naturals, Sequences

CONSTANT Payload  \* what an event carries

VARIABLES
  log,     \* the events appended, oldest first
  stable,  \* how many of them a crash leaves
  sound    \* the store has kept its side so far

logVars == <<log, stable, sound>>

Start == log = << >> /\ stable = 0 /\ sound \in BOOLEAN

\* An event is appended; nothing about it is stable yet.
Grow == /\ \E p \in Payload : log' = Append(log, p)
        /\ UNCHANGED stable

\* persist(): everything appended so far is stable.
Persist == stable' = Len(log) /\ UNCHANGED log

\* The process dies, and the next one has the stable events only.
Cut == log' = SubSeq(log, 1, stable) /\ UNCHANGED stable

\* Once the store is not sound, anything may be in the log.
Betrayed == ~sound'

Promise == (sound /\ sound' /\ (Grow \/ Persist \/ Cut)) \/ Betrayed

LogSpec == Start /\ [][Promise]_logVars
=============================================================================
