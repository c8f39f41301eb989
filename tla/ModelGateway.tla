---------------------------- MODULE ModelGateway ----------------------------
(***************************************************************************)
(* One invoke() of the model gateway (plugins/models/src/gateway.ts) over  *)
(* the router (plugins/models/src/router.ts): the models that satisfy the  *)
(* requirement, ordered by preferred provider, tried one after another     *)
(* while each provider answers or fails as it likes.                       *)
(***************************************************************************)
EXTENDS Naturals, Sequences, FiniteSetsExt, SequencesExt

CONSTANTS
  Models,       \* ModelInfo of discover(), in the order of registration
  Requirements, \* RoutingRequirement: needsTools, needsStructuredOutput and preferred,
                \* with any of the limits minContext, maxCost and maxLatency
  Registered    \* providers the gateway itself knows

IsList(s) == Len(s) \in Nat /\ DOMAIN s = 1..Len(s)

ASSUME GatewayAssumption ==
  /\ IsList(Models)
  /\ \A req \in Requirements : IsList(req.preferred)

VARIABLES
  requirement,
  tried,  \* attempts, as places in Models
  left,   \* the places of the candidates the loop has not reached
  answer  \* "pending", "answered", or "failed" for GatewayInvocationError

gatewayVars == <<requirement, tried, left, answer>>

Satisfies(m, req) ==
  /\ "minContext" \in DOMAIN req => req.minContext <= m.contextWindow
  /\ req.needsTools => m.supportsTools
  /\ req.needsStructuredOutput => m.supportsStructuredOutput
  /\ "maxCost" \in DOMAIN req => m.cost <= req.maxCost
  /\ "maxLatency" \in DOMAIN req => m.latency <= req.maxLatency

Candidates(req) == {i \in DOMAIN Models : Satisfies(Models[i], req)}

\* The place of a provider in preferredProviders, or behind all of them.
Rank(i, req) ==
  LET places == {p \in DOMAIN req.preferred : req.preferred[p] = Models[i].provider}
  IN IF places = {} THEN Len(req.preferred) + 1 ELSE Min(places)

\* ModelRouter.choose: rank, then cost, then latency, weighed into one number;
\* the first of the lowest.
Score(i, req) == 1000000 * Rank(i, req) + 1000 * Models[i].cost + Models[i].latency

Chosen(req) ==
  Min({i \in Candidates(req) : \A j \in Candidates(req) : Score(i, req) <= Score(j, req)})

Choose(req) == Models[Chosen(req)]

InTheOrderListed(i, j, req) == i < j \* a variant without the sort

\* invoke(): the candidates in order of rank; the sort is stable, so that of one
\* rank the first registered comes first, whatever score the router gives it.
Precedes(i, j, req) ==
  \/ Rank(i, req) < Rank(j, req)
  \/ Rank(i, req) = Rank(j, req) /\ i < j

\* The candidate that the loop comes to next.
Foremost == CHOOSE i \in left : \A j \in left \ {i} : Precedes(i, j, requirement)

GatewayInit ==
  /\ requirement \in Requirements
  /\ tried = << >> /\ answer = "pending"
  /\ left = Candidates(requirement)

\* A model whose provider the gateway does not know is passed over.
PassOver ==
  /\ answer = "pending" /\ left # {} /\ Models[Foremost].provider \notin Registered
  /\ left' = left \ {Foremost}
  /\ UNCHANGED <<requirement, tried, answer>>

\* provider.invoke() settles: the first answer is returned, a failure goes on.
Try(outcome) ==
  /\ answer = "pending" /\ left # {} /\ Models[Foremost].provider \in Registered
  /\ tried' = Append(tried, Foremost) /\ left' = left \ {Foremost}
  /\ answer' = outcome
  /\ UNCHANGED requirement

GiveUp ==
  /\ answer = "pending" /\ left = {}
  /\ answer' = "failed"
  /\ UNCHANGED <<requirement, tried, left>>

GatewayNext == PassOver \/ (\E outcome \in {"answered", "pending"} : Try(outcome)) \/ GiveUp

GatewaySpec == GatewayInit /\ [][GatewayNext]_gatewayVars

-----------------------------------------------------------------------------
Usable(req) == {i \in Candidates(req) : Models[i].provider \in Registered}

\* The gateway gives up only after every usable model was tried, tries none
\* twice and none that does not satisfy the requirement, and never one of a
\* less preferred provider while a preferred one is left (gateway.ts:45-77).
GatewayOrder ==
  /\ ToSet(tried) \subseteq Usable(requirement) /\ IsInjective(tried)
  /\ \A k \in DOMAIN tried, i \in Usable(requirement) \ ToSet(tried) :
       Rank(tried[k], requirement) <= Rank(i, requirement)
  /\ answer = "failed" => Usable(requirement) \subseteq ToSet(tried)
=============================================================================
