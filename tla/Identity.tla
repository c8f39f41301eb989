------------------------------ MODULE Identity ------------------------------
(***************************************************************************)
(* The identity aggregate (kernel/identity/src/identity-service.ts): the   *)
(* five lists of its state, each entity named by its place in its list, and*)
(* the events it emits.  Each operation checks, appends its events and then*)
(* changes the state in one synchronous step; a check that fails throws    *)
(* before anything changes, and is not a step.                             *)
(***************************************************************************)
EXTENDS Naturals, Sequences, FiniteSets, SequencesExt

CONSTANTS
  Roles,       \* role names
  MaxOf        \* bound on the length of each list

ASSUME IdentityAssumption == IsFiniteSet(Roles)

VARIABLES
  organizations, \* how many there are
  users,         \* user -> its organization
  memberships,   \* [org, user, roles], all of status active
  sessions,      \* [org, user, live]: live until expiresAt
  tokens,        \* [session, org, user, live]
  identityEvents \* eventLog

identityVars == <<organizations, users, memberships, sessions, tokens, identityEvents>>

IdentityInit ==
  /\ organizations = 0 /\ users = << >> /\ memberships = << >>
  /\ sessions = << >> /\ tokens = << >> /\ identityEvents = << >>

Emit(events) == identityEvents' = identityEvents \o events

CreateOrganization ==
  /\ organizations < MaxOf.organizations
  /\ Emit(<<[type |-> "organization.created"]>>)
  /\ organizations' = organizations + 1
  /\ UNCHANGED <<users, memberships, sessions, tokens>>

\* org: actor.organizationId, which requireOrganization looks up.
CreateUser(org) ==
  /\ org \in 1..organizations /\ Len(users) < MaxOf.users
  /\ Emit(<<[type |-> "user.created", org |-> org]>>)
  /\ users' = Append(users, org)
  /\ UNCHANGED <<organizations, memberships, sessions, tokens>>

RoleEvents(m, roles) == {[type |-> "role.assigned", membership |-> m, role |-> r] : r \in roles}

\* A variant whose roles name the membership before.
GrantMembershipBehind(org, user, roles) ==
  /\ org \in 1..organizations /\ user \in DOMAIN users
  /\ users[user] = org /\ Len(memberships) < MaxOf.memberships
  /\ Emit(<<[type |-> "membership.granted", org |-> org, user |-> user]>>
          \o SetToSeq(RoleEvents(Len(memberships), roles)))
  /\ memberships' = Append(memberships, [org |-> org, user |-> user, roles |-> roles])
  /\ UNCHANGED <<organizations, users, sessions, tokens>>

\* The membership is granted, and each role assigned by an event of its own.
GrantMembership(org, user, roles) ==
  /\ org \in 1..organizations /\ user \in DOMAIN users
  /\ users[user] = org \* "cross-tenant membership is denied"
  /\ Len(memberships) < MaxOf.memberships
  /\ Emit(<<[type |-> "membership.granted", org |-> org, user |-> user]>>
          \o SetToSeq(RoleEvents(Len(memberships) + 1, roles)))
  /\ memberships' = Append(memberships, [org |-> org, user |-> user, roles |-> roles])
  /\ UNCHANGED <<organizations, users, sessions, tokens>>

Member(org, user) ==
  \E m \in DOMAIN memberships : memberships[m].org = org /\ memberships[m].user = user

CreateSession(org, user) ==
  /\ org \in 1..organizations /\ user \in DOMAIN users
  /\ users[user] = org \* "cross-tenant session is denied"
  /\ Member(org, user) /\ Len(sessions) < MaxOf.sessions
  /\ Emit(<<[type |-> "session.created", org |-> org, user |-> user]>>)
  /\ sessions' = Append(sessions, [org |-> org, user |-> user, live |-> TRUE])
  /\ UNCHANGED <<organizations, users, memberships, tokens>>

\* A variant that does not compare the organizations.
IssueTokenAcross(org, session) ==
  /\ session \in DOMAIN sessions /\ Len(tokens) < MaxOf.tokens
  /\ Emit(<<[type |-> "token.issued", session |-> session, org |-> org,
             user |-> sessions[session].user]>>)
  /\ tokens' = Append(tokens, [session |-> session, org |-> org,
                               user |-> sessions[session].user, live |-> TRUE])
  /\ UNCHANGED <<organizations, users, memberships, sessions>>

\* A token takes its organization and user from the session, which may have
\* expired: only the organization of the actor is compared.
IssueToken(org, session) ==
  /\ session \in DOMAIN sessions /\ sessions[session].org = org
  /\ Len(tokens) < MaxOf.tokens
  /\ Emit(<<[type |-> "token.issued", session |-> session, org |-> org,
             user |-> sessions[session].user]>>)
  /\ tokens' = Append(tokens, [session |-> session, org |-> sessions[session].org,
                               user |-> sessions[session].user, live |-> TRUE])
  /\ UNCHANGED <<organizations, users, memberships, sessions>>

\* The clock passes the expiresAt of a session, or of a token.
SessionExpires(s) ==
  /\ sessions[s].live
  /\ sessions' = [sessions EXCEPT ![s].live = FALSE]
  /\ UNCHANGED <<organizations, users, memberships, tokens, identityEvents>>

TokenExpires(t) ==
  /\ tokens[t].live
  /\ tokens' = [tokens EXCEPT ![t].live = FALSE]
  /\ UNCHANGED <<organizations, users, memberships, sessions, identityEvents>>

\* authenticate(tokenId) returns a principal.  It looks at the expiry of the
\* session, never at the token's own.
Authenticates(t) ==
  /\ sessions[tokens[t].session].live
  /\ Member(tokens[t].org, tokens[t].user)

\* Organizations an actor may name: one too many does not exist.
Named == 1..MaxOf.organizations + 1

IdentityNext ==
  \/ CreateOrganization
  \/ \E org \in Named :
       \/ CreateUser(org)
       \/ \E u \in DOMAIN users : CreateSession(org, u)
            \/ \E roles \in SUBSET Roles : GrantMembership(org, u, roles)
       \/ \E s \in DOMAIN sessions : IssueToken(org, s)
  \/ \E s \in DOMAIN sessions : SessionExpires(s)
  \/ \E t \in DOMAIN tokens : TokenExpires(t)

IdentitySpec == IdentityInit /\ [][IdentityNext]_identityVars

-----------------------------------------------------------------------------
\* No sequence of calls by actors of different organizations leads a token
\* across tenants: its organization is the one of its session, of its user and
\* of a membership of that user, and the principal it authenticates therefore
\* never acts in another one (identity-service.ts:89-183).
TenantsApart ==
  /\ \A t \in DOMAIN tokens :
       LET session == sessions[tokens[t].session] IN
       /\ tokens[t].org = session.org /\ tokens[t].user = session.user
       /\ users[tokens[t].user] = tokens[t].org
       /\ session.live => Authenticates(t)
  /\ \A m \in DOMAIN memberships : users[memberships[m].user] = memberships[m].org

\* The events of a kind, and how many of its kind an event is: the number of the
\* entity it created.
Created(events, type) == {i \in 1..Len(events) : events[i].type = type}
Ordinal(events, i) == Cardinality(1..i \cap Created(events, events[i].type))

OrganizationsReplay ==
  organizations = Cardinality(Created(identityEvents, "organization.created"))

UsersReplay ==
  /\ Len(users) = Cardinality(Created(identityEvents, "user.created"))
  /\ \A i \in Created(identityEvents, "user.created") :
       users[Ordinal(identityEvents, i)] = identityEvents[i].org

MembershipsReplay ==
  /\ Len(memberships) = Cardinality(Created(identityEvents, "membership.granted"))
  /\ \A i \in Created(identityEvents, "membership.granted") :
       LET membership == memberships[Ordinal(identityEvents, i)] IN
       membership.org = identityEvents[i].org /\ membership.user = identityEvents[i].user

RolesReplay ==
  \A m \in DOMAIN memberships :
    memberships[m].roles =
      {identityEvents[i].role :
         i \in {j \in Created(identityEvents, "role.assigned") : identityEvents[j].membership = m}}

SessionsReplay ==
  /\ Len(sessions) = Cardinality(Created(identityEvents, "session.created"))
  /\ \A i \in Created(identityEvents, "session.created") :
       LET session == sessions[Ordinal(identityEvents, i)] IN
       session.org = identityEvents[i].org /\ session.user = identityEvents[i].user

TokensReplay ==
  /\ Len(tokens) = Cardinality(Created(identityEvents, "token.issued"))
  /\ \A i \in Created(identityEvents, "token.issued") :
       LET token == tokens[Ordinal(identityEvents, i)] IN
       /\ token.session = identityEvents[i].session
       /\ token.org = identityEvents[i].org /\ token.user = identityEvents[i].user

\* The events are replayable (identity-service.ts:34): in the order they were
\* emitted they rebuild every list of the state, roles included.
IdentityReplays ==
  /\ OrganizationsReplay /\ UsersReplay /\ MembershipsReplay /\ RolesReplay
  /\ SessionsReplay /\ TokensReplay
=============================================================================
