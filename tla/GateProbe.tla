----------------------------- MODULE GateProbe ------------------------------
(***************************************************************************)
(* What the immune gate answers to one request, and would answer had it    *)
(* seen less of it: gate.ts keeps no state between two requests, so the    *)
(* state is a request and the configuration it meets, and does not move.   *)
(***************************************************************************)
EXTENDS ImmuneGate

CONSTANTS
  Asked,   \* the requests
  Settings \* the configurations of the gate

VARIABLE probe \* a request, and the configuration it meets

\* ImmuneGateConfig, with its defaults.
GateConfiguration == [level : ImmunityLevels, safeMode : BOOLEAN, emergencyLock : BOOLEAN]

\* What is absent is none of the words that say what was found.
ASSUME GateAssumption ==
  /\ Settings \subseteq GateConfiguration
  /\ None \notin {"differs", "illegal", "block", "quarantine", "kill"}

GateInit == probe \in [request : Asked, config : Settings]

GateSpec == GateInit /\ [][FALSE]_probe

\* The request with field f of its observation not observed.
Without(request, f) ==
  [principal |-> request.principal, capability |-> request.capability,
   observation |-> [g \in DOMAIN NoObservation |->
                      IF g = f THEN NoObservation[g] ELSE request.observation[g]],
   blastRadius |-> request.blastRadius]

\* Seeing more never makes the gate more lenient: a request that is allowed
\* would be allowed with any one part of its observation missing, and the level
\* of the decision does not fall when that part is added.  The drift of a
\* dependency is left out: it answers before the rules below it.  So is the level
\* under a configuration of level BLACK, which a hit of the firewall replaces by
\* the level of its own score (gate.ts:94-158).
MoreSignalsNeverAllow ==
  LET more == Evaluate(probe.config, probe.request)
  IN \A f \in DOMAIN NoObservation \ {"dependency"} :
       LET less == Evaluate(probe.config, Without(probe.request, f))
       IN /\ more.allowed => less.allowed
          /\ probe.config.level # "BLACK" =>
               ImmunityOrder[more.level] >= ImmunityOrder[less.level]
=============================================================================
