--------------------------- MODULE IdentityProofs ---------------------------
(***************************************************************************)
(* Tenants stay apart for every number of organizations, users, sessions   *)
(* and tokens.  The invariant strengthens TenantsApart with where the      *)
(* indices point: every session has a member of its organization behind it,*)
(* and every token a session; the lists only grow, so that what an entry   *)
(* points to never moves.  And the log replays: what an operation emits    *)
(* numbers what it adds, and names the roles of that membership alone.     *)
(***************************************************************************)
EXTENDS Identity, Induction, TLAPS

Memberships == [org : Nat, user : Nat, roles : SUBSET Roles]
Sessions == [org : Nat, user : Nat, live : BOOLEAN]
Tokens == [session : Nat, org : Nat, user : Nat, live : BOOLEAN]

\* The fields of the five lists.
IdentityTypeOK ==
  /\ organizations \in Nat /\ users \in Seq(Nat)
  /\ memberships \in Seq(Memberships)
  /\ sessions \in Seq(Sessions) /\ tokens \in Seq(Tokens)

MembersOfTheirOwn ==
  \A m \in DOMAIN memberships :
    /\ memberships[m].user \in DOMAIN users
    /\ users[memberships[m].user] = memberships[m].org

SessionsOfMembers ==
  \A s \in DOMAIN sessions :
    /\ sessions[s].user \in DOMAIN users
    /\ users[sessions[s].user] = sessions[s].org
    /\ Member(sessions[s].org, sessions[s].user)

TokensOfSessions ==
  \A t \in DOMAIN tokens :
    /\ tokens[t].session \in DOMAIN sessions
    /\ tokens[t].org = sessions[tokens[t].session].org
    /\ tokens[t].user = sessions[tokens[t].session].user

IdentityInv ==
  IdentityTypeOK /\ MembersOfTheirOwn /\ SessionsOfMembers /\ TokensOfSessions

-----------------------------------------------------------------------------
\* What a list holds after an element is added: all it held, and that element.
LEMMA Added ==
  ASSUME NEW T, NEW s \in Seq(T), NEW x \in T
  PROVE  /\ Append(s, x) \in Seq(T)
         /\ DOMAIN Append(s, x) = DOMAIN s \cup {Len(s) + 1}
         /\ Len(s) + 1 \notin DOMAIN s
         /\ \A i \in DOMAIN s : Append(s, x)[i] = s[i]
         /\ Append(s, x)[Len(s) + 1] = x
  OBVIOUS

\* What a list holds after one of its elements is replaced.
LEMMA Replaced ==
  ASSUME NEW T, NEW s \in Seq(T), NEW i \in DOMAIN s, NEW x \in T
  PROVE  LET r == [s EXCEPT ![i] = x]
         IN /\ r \in Seq(T) /\ DOMAIN r = DOMAIN s
            /\ r[i] = x /\ \A j \in DOMAIN s \ {i} : r[j] = s[j]
  OBVIOUS

\* The empty lists satisfy everything.
LEMMA IdentityStarts == IdentityInit => IdentityInv
  BY DEF IdentityInit, IdentityInv, IdentityTypeOK, MembersOfTheirOwn, SessionsOfMembers,
         TokensOfSessions

\* Each operation adds to one list at most, and what it adds was checked.
LEMMA IdentitySteps == IdentityInv /\ [IdentityNext]_identityVars => IdentityInv'
<1> SUFFICES ASSUME IdentityInv, [IdentityNext]_identityVars PROVE IdentityInv'
  OBVIOUS
<1> USE DEF IdentityInv
<1>1. CASE CreateOrganization
  BY <1>1 DEF CreateOrganization, IdentityTypeOK, MembersOfTheirOwn, SessionsOfMembers,
              TokensOfSessions, Member
<1>2. ASSUME NEW org \in Named, CreateUser(org) PROVE IdentityInv'
  <2>1. org \in Nat /\ users' = Append(users, org)
        /\ UNCHANGED <<organizations, memberships, sessions, tokens>>
    BY <1>2 DEF CreateUser, IdentityTypeOK
  <2>2. /\ users' \in Seq(Nat) /\ DOMAIN users \subseteq DOMAIN users'
        /\ \A u \in DOMAIN users : users'[u] = users[u]
    BY <2>1, Added DEF IdentityTypeOK
  <2>3. IdentityTypeOK'
    BY <2>1, <2>2 DEF IdentityTypeOK
  <2>4. MembersOfTheirOwn'
    BY <2>1, <2>2 DEF MembersOfTheirOwn
  <2>5. SessionsOfMembers'
    BY <2>1, <2>2 DEF SessionsOfMembers, Member
  <2>6. TokensOfSessions'
    BY <2>1 DEF TokensOfSessions
  <2> QED BY <2>3, <2>4, <2>5, <2>6
<1>3. ASSUME NEW org \in Named, NEW u \in DOMAIN users, CreateSession(org, u)
      PROVE IdentityInv'
  <2> DEFINE new == [org |-> org, user |-> u, live |-> TRUE]
  <2>1. /\ new \in Sessions /\ users[u] = org /\ Member(org, u)
        /\ sessions' = Append(sessions, new)
        /\ UNCHANGED <<organizations, users, memberships, tokens>>
    BY <1>3 DEF CreateSession, IdentityTypeOK, Sessions
  <2>2. /\ sessions' \in Seq(Sessions)
        /\ DOMAIN sessions' = DOMAIN sessions \cup {Len(sessions) + 1}
        /\ \A s \in DOMAIN sessions : sessions'[s] = sessions[s]
        /\ sessions'[Len(sessions) + 1] = new
    BY <2>1, Added DEF IdentityTypeOK
  <2>3. IdentityTypeOK' /\ MembersOfTheirOwn'
    BY <2>1, <2>2 DEF IdentityTypeOK, MembersOfTheirOwn
  <2>4. SessionsOfMembers'
    BY <2>1, <2>2 DEF SessionsOfMembers, Member
  <2>5. TokensOfSessions'
    BY <2>1, <2>2 DEF TokensOfSessions
  <2> QED BY <2>3, <2>4, <2>5
<1>4. ASSUME NEW org \in Named, NEW u \in DOMAIN users, NEW roles \in SUBSET Roles,
             GrantMembership(org, u, roles)
      PROVE IdentityInv'
  <2> DEFINE new == [org |-> org, user |-> u, roles |-> roles]
  <2>1. /\ new \in Memberships /\ users[u] = org
        /\ memberships' = Append(memberships, new)
        /\ UNCHANGED <<organizations, users, sessions, tokens>>
    BY <1>4 DEF GrantMembership, IdentityTypeOK, Memberships
  <2>2. /\ memberships' \in Seq(Memberships)
        /\ DOMAIN memberships' = DOMAIN memberships \cup {Len(memberships) + 1}
        /\ \A m \in DOMAIN memberships : memberships'[m] = memberships[m]
        /\ memberships'[Len(memberships) + 1] = new
    BY <2>1, Added DEF IdentityTypeOK
  <2>3. IdentityTypeOK' /\ MembersOfTheirOwn'
    BY <2>1, <2>2 DEF IdentityTypeOK, MembersOfTheirOwn
  <2>4. SessionsOfMembers'
    BY <2>1, <2>2 DEF SessionsOfMembers, Member
  <2>5. TokensOfSessions'
    BY <2>1 DEF TokensOfSessions
  <2> QED BY <2>3, <2>4, <2>5
<1>5. ASSUME NEW org \in Named, NEW s \in DOMAIN sessions, IssueToken(org, s)
      PROVE IdentityInv'
  <2> DEFINE new == [session |-> s, org |-> sessions[s].org, user |-> sessions[s].user,
                     live |-> TRUE]
  <2>1. sessions[s] \in Sessions /\ s \in Nat
    BY DEF IdentityTypeOK
  <2>2. /\ new \in Tokens
        /\ tokens' = Append(tokens, new)
        /\ UNCHANGED <<organizations, users, memberships, sessions>>
    BY <1>5, <2>1 DEF IssueToken, Tokens, Sessions
  <2>3. /\ tokens' \in Seq(Tokens)
        /\ DOMAIN tokens' = DOMAIN tokens \cup {Len(tokens) + 1}
        /\ \A t \in DOMAIN tokens : tokens'[t] = tokens[t]
        /\ tokens'[Len(tokens) + 1] = new
    BY <2>2, Added DEF IdentityTypeOK
  <2>4. IdentityTypeOK' /\ MembersOfTheirOwn' /\ SessionsOfMembers'
    BY <2>2, <2>3 DEF IdentityTypeOK, MembersOfTheirOwn, SessionsOfMembers, Member
  <2>5. TokensOfSessions'
    BY <2>2, <2>3 DEF TokensOfSessions
  <2> QED BY <2>4, <2>5
<1>6. ASSUME NEW s \in DOMAIN sessions, SessionExpires(s) PROVE IdentityInv'
  <2> DEFINE x == [sessions[s] EXCEPT !.live = FALSE]
  <2>1. sessions[s] \in Sessions
    BY DEF IdentityTypeOK
  <2>2. x \in Sessions /\ x.org = sessions[s].org /\ x.user = sessions[s].user
    BY <2>1 DEF Sessions
  <2>3. /\ sessions' = [sessions EXCEPT ![s] = x]
        /\ UNCHANGED <<organizations, users, memberships, tokens>>
    BY <1>6 DEF SessionExpires
  <2>4. /\ sessions' \in Seq(Sessions) /\ DOMAIN sessions' = DOMAIN sessions
        /\ \A i \in DOMAIN sessions : /\ sessions'[i].org = sessions[i].org
                                      /\ sessions'[i].user = sessions[i].user
    <3> HIDE DEF x
    <3> QED BY <2>2, <2>3, Replaced DEF IdentityTypeOK
  <2> HIDE DEF x
  <2>5. IdentityTypeOK' /\ MembersOfTheirOwn'
    BY <2>3, <2>4 DEF IdentityTypeOK, MembersOfTheirOwn
  <2>6. SessionsOfMembers'
    BY <2>3, <2>4 DEF SessionsOfMembers, Member
  <2>7. TokensOfSessions'
    BY <2>3, <2>4 DEF TokensOfSessions
  <2> QED BY <2>5, <2>6, <2>7
<1>7. ASSUME NEW t \in DOMAIN tokens, TokenExpires(t) PROVE IdentityInv'
  <2> DEFINE x == [tokens[t] EXCEPT !.live = FALSE]
  <2>1. tokens[t] \in Tokens
    BY DEF IdentityTypeOK
  <2>2. /\ x \in Tokens /\ x.org = tokens[t].org /\ x.user = tokens[t].user
        /\ x.session = tokens[t].session
    BY <2>1 DEF Tokens
  <2>3. /\ tokens' = [tokens EXCEPT ![t] = x]
        /\ UNCHANGED <<organizations, users, memberships, sessions>>
    BY <1>7 DEF TokenExpires
  <2>4. /\ tokens' \in Seq(Tokens) /\ DOMAIN tokens' = DOMAIN tokens
        /\ \A i \in DOMAIN tokens : /\ tokens'[i].org = tokens[i].org
                                    /\ tokens'[i].user = tokens[i].user
                                    /\ tokens'[i].session = tokens[i].session
    <3> HIDE DEF x
    <3> QED BY <2>2, <2>3, Replaced DEF IdentityTypeOK
  <2> HIDE DEF x
  <2>5. IdentityTypeOK' /\ MembersOfTheirOwn' /\ SessionsOfMembers'
    BY <2>3, <2>4 DEF IdentityTypeOK, MembersOfTheirOwn, SessionsOfMembers, Member
  <2>6. TokensOfSessions'
    BY <2>3, <2>4 DEF TokensOfSessions
  <2> QED BY <2>5, <2>6
<1>8. CASE UNCHANGED identityVars
  BY <1>8 DEF identityVars, IdentityTypeOK, MembersOfTheirOwn, SessionsOfMembers,
              TokensOfSessions, Member
<1> QED
  BY <1>1, <1>2, <1>3, <1>4, <1>5, <1>6, <1>7, <1>8 DEF IdentityNext

\* No sequence of calls of the identity service leads a token into another
\* tenant, for any number of organizations, users, roles, sessions and tokens.
THEOREM TenantsStayApart == IdentitySpec => []TenantsApart
<1>1. IdentityInv => TenantsApart
  BY DEF IdentityInv, TenantsApart, MembersOfTheirOwn, SessionsOfMembers, TokensOfSessions,
         Authenticates, Member
<1> QED
  BY <1>1, IdentityStarts, IdentitySteps, PTL DEF IdentitySpec

-----------------------------------------------------------------------------
\* The log.  An operation goes on with one event that creates an entity, and
\* with the roles of a membership; the entity's number is the event's among
\* those of its kind.

\* The events of the log: one kind for each list, and the roles.
IdentityEvents ==
  [type : {"organization.created"}]
  \cup [type : {"user.created"}, org : Nat]
  \cup [type : {"membership.granted"}, org : Nat, user : Nat]
  \cup [type : {"role.assigned"}, membership : Nat, role : Roles]
  \cup [type : {"session.created"}, org : Nat, user : Nat]
  \cup [type : {"token.issued"}, session : Nat, org : Nat, user : Nat]

\* The log goes on with an event that creates something, and with roles.
Continues(old, new, e) ==
  /\ Len(old) \in Nat /\ Len(new) \in Nat /\ Len(old) + 1 <= Len(new)
  /\ \A i \in 1..Len(old) : new[i] = old[i]
  /\ new[Len(old) + 1] = e
  /\ \A i \in Len(old) + 2..Len(new) : new[i].type = "role.assigned"

\* What the numbers of the events are when the log has gone on.
LEMMA OrdinalsGo ==
  ASSUME NEW old, NEW new, NEW e, Continues(old, new, e), NEW type, type # "role.assigned"
  PROVE  /\ IsFiniteSet(Created(old, type)) /\ Cardinality(Created(old, type)) \in Nat
         /\ e.type = type => /\ Created(new, type) = Created(old, type) \cup {Len(old) + 1}
                             /\ Cardinality(Created(new, type)) = Cardinality(Created(old, type)) + 1
                             /\ Ordinal(new, Len(old) + 1) = Cardinality(Created(old, type)) + 1
         /\ e.type # type => Created(new, type) = Created(old, type)
         /\ \A i \in Created(old, type) :
              /\ new[i] = old[i] /\ i \in 1..Len(old)
              /\ Ordinal(new, i) = Ordinal(old, i)
              /\ Ordinal(old, i) \in 1..Cardinality(Created(old, type))
<1> DEFINE n == Len(old)
           A == Created(old, type)
           B == Created(new, type)
<1>1. /\ n \in Nat /\ n + 1 \in 1..Len(new) /\ Len(new) \in Nat
      /\ \A i \in 1..n : i \in 1..Len(new) /\ new[i] = old[i]
      /\ new[n + 1] = e
      /\ \A i \in 1..Len(new) : i \in 1..n \/ i = n + 1 \/ new[i].type = "role.assigned"
  BY DEF Continues
<1>2. A = {i \in 1..n : old[i].type = type} /\ B = {i \in 1..Len(new) : new[i].type = type}
  BY DEF Created
<1> HIDE DEF n, A, B
<1>3. IsFiniteSet(1..n) /\ A \in SUBSET (1..n)
  <2>1. IsFiniteSet(1..n)
    BY <1>1, FS_Interval
  <2>2. A \in SUBSET (1..n)
    BY <1>2
  <2> QED BY <2>1, <2>2
<1>4. IsFiniteSet(A) /\ Cardinality(A) \in Nat
  BY ONLY <1>3, FS_Subset, FS_CardinalityType
<1>5. /\ e.type = type => B = A \cup {n + 1}
      /\ e.type # type => B = A
      /\ n + 1 \notin A
  BY <1>1, <1>2
<1>6. e.type = type => Cardinality(B) = Cardinality(A) + 1
  <2>1. Cardinality(A \cup {n + 1}) = Cardinality(A) + 1
    BY ONLY <1>4, <1>5, FS_AddElement
  <2> QED BY <1>5, <2>1
<1>7. e.type = type => Ordinal(new, n + 1) = Cardinality(A) + 1
  <2> SUFFICES ASSUME e.type = type PROVE Ordinal(new, n + 1) = Cardinality(A) + 1
    OBVIOUS
  <2>1. Ordinal(new, n + 1) = Cardinality(1..(n + 1) \cap B)
    BY <1>1 DEF Ordinal, B
  <2>2. 1..(n + 1) \cap B = B
    <3>1. \A i \in A : i \in 1..(n + 1)
      BY <1>1, <1>3
    <3>2. n + 1 \in 1..(n + 1) /\ B = A \cup {n + 1}
      BY <1>1, <1>5
    <3> QED BY <3>1, <3>2
  <2> QED BY <1>6, <2>1, <2>2
<1>8. ASSUME NEW i \in A
      PROVE  /\ new[i] = old[i] /\ i \in 1..n
             /\ Ordinal(new, i) = Ordinal(old, i)
             /\ Ordinal(old, i) \in 1..Cardinality(A)
  <2>1. i \in 1..n /\ new[i] = old[i] /\ old[i].type = type
    BY <1>1, <1>2
  <2>2. Ordinal(old, i) = Cardinality(1..i \cap A) /\ Ordinal(new, i) = Cardinality(1..i \cap B)
    BY <2>1 DEF Ordinal, A, B
  <2>3. 1..i \cap B = 1..i \cap A
    BY <1>1, <1>5, <2>1
  <2> DEFINE P == 1..i \cap A
  <2>4. P \in SUBSET A /\ i \in P
    BY <2>1
  <2> HIDE DEF P
  <2>5. IsFiniteSet(P) /\ Cardinality(P) \in Nat /\ Cardinality(P) <= Cardinality(A)
    BY ONLY <1>4, <2>4, FS_Subset, FS_CardinalityType
  <2>6. Cardinality(P) # 0
    BY ONLY <2>4, <2>5, FS_EmptySet
  <2>7. Cardinality(P) \in 1..Cardinality(A)
    BY ONLY <1>4, <2>5, <2>6
  <2> QED BY <2>1, <2>2, <2>3, <2>7 DEF P
<1> QED BY <1>4, <1>5, <1>6, <1>7, <1>8 DEF n, A, B

-----------------------------------------------------------------------------
\* What the log tells: the lists, and no role of a membership that is not there.
RolesKnown ==
  \A i \in Created(identityEvents, "role.assigned") :
    identityEvents[i].membership \in DOMAIN memberships

ReplayInv ==
  /\ IdentityTypeOK
  /\ identityEvents \in Seq(IdentityEvents)
  /\ IdentityReplays /\ RolesKnown

\* Two sequences in one.
LEMMA Joined ==
  ASSUME NEW S, NEW a \in Seq(S), NEW b \in Seq(S), NEW c, c = a \o b
  PROVE  /\ c \in Seq(S) /\ Len(a) \in Nat /\ Len(c) = Len(a) + Len(b)
         /\ \A i \in 1..Len(a) : c[i] = a[i]
         /\ \A i \in 1..Len(b) : c[Len(a) + i] = b[i]
  OBVIOUS

\* What creates one event, and what it emits.
LEMMA EmittedOne ==
  ASSUME NEW E, NEW old \in Seq(E), NEW e \in E, NEW new, new = old \o <<e>>
  PROVE  new \in Seq(E) /\ Len(new) = Len(old) + 1 /\ Continues(old, new, e)
  BY DEF Continues

\* What grants a membership, and the roles it emits.
HasRoles(old, new, m, roles) ==
  /\ \A i \in Len(old) + 2..Len(new) : new[i].membership = m /\ new[i].role \in roles
  /\ \A r \in roles : \E i \in Len(old) + 2..Len(new) : new[i].role = r
Tells(old, new, e, m, roles) == new = old \o (<<e>> \o SetToSeq(RoleEvents(m, roles)))

\* A log that tells of a membership has its roles, and nothing more.
LEMMA EmittedRoles ==
  ASSUME IdentityAssumption, NEW old \in Seq(IdentityEvents), NEW e \in IdentityEvents, NEW m \in Nat,
         NEW roles \in SUBSET Roles, NEW new, Tells(old, new, e, m, roles)
  PROVE  new \in Seq(IdentityEvents) /\ Continues(old, new, e) /\ HasRoles(old, new, m, roles)
<1> DEFINE S == RoleEvents(m, roles)
           a == SetToSeq(S)
           n == Len(old)
           k == Cardinality(S)
<1>1. IsFiniteSet(roles)
  BY FS_Subset DEF IdentityAssumption
<1>2. IsFiniteSet(S)
  <2> DEFINE f == [r \in roles |-> [type |-> "role.assigned", membership |-> m, role |-> r]]
  <2>1. f \in [roles -> S] /\ \A x \in S : \E r \in roles : f[r] = x
    BY DEF RoleEvents
  <2>2. \A a1, b1 \in roles : f[a1] = f[b1] => a1 = b1
    <3>1. \A r \in roles : f[r].role = r
      OBVIOUS
    <3> HIDE DEF f
    <3> QED BY <3>1
  <2> HIDE DEF f, S
  <2> QED BY ONLY <1>1, <2>1, <2>2, SameSize
<1>3. /\ k \in Nat /\ Len(a) = k /\ a \in [1..k -> S]
      /\ \A x \in S : \E i \in 1..k : a[i] = x
  <2> HIDE DEF S
  <2> QED BY <1>2, InSequence
<1>4. S \subseteq IdentityEvents
  BY DEF IdentityEvents, RoleEvents
<1>5. \A x \in S : x.type = "role.assigned" /\ x.membership = m /\ x.role \in roles
  BY DEF RoleEvents
<1>6. ASSUME NEW r \in roles PROVE \E x \in S : x.role = r
  <2>1. [type |-> "role.assigned", membership |-> m, role |-> r] \in S
    BY DEF RoleEvents
  <2> HIDE DEF S
  <2> QED BY <2>1
<1>7. new = old \o (<<e>> \o a)
  BY DEF Tells
<1> HIDE DEF S, a, k
<1>8. a \in Seq(IdentityEvents) /\ <<e>> \in Seq(IdentityEvents)
  BY <1>3, <1>4
<1>9. /\ <<e>> \o a \in Seq(IdentityEvents) /\ Len(<<e>> \o a) = k + 1
      /\ (<<e>> \o a)[1] = e /\ \A i \in 1..k : (<<e>> \o a)[i + 1] = a[i]
  BY <1>3, <1>8
<1> DEFINE b == <<e>> \o a
<1>10. b \in Seq(IdentityEvents) /\ Len(b) = k + 1 /\ b[1] = e /\ \A i \in 1..k : b[i + 1] = a[i]
  BY <1>9
<1> HIDE DEF b
<1>11. /\ new \in Seq(IdentityEvents) /\ n \in Nat /\ Len(new) = n + (k + 1)
       /\ \A i \in 1..n : new[i] = old[i]
       /\ \A i \in 1..(k + 1) : new[n + i] = b[i]
  <2>1. ASSUME NEW d \in Seq(IdentityEvents), new = old \o d
        PROVE  /\ new \in Seq(IdentityEvents) /\ n \in Nat /\ Len(new) = n + Len(d)
               /\ \A i \in 1..n : new[i] = old[i]
               /\ \A i \in 1..Len(d) : new[n + i] = d[i]
    BY ONLY <2>1, Joined
  <2>2. new = old \o b
    BY <1>7 DEF b
  <2>3. /\ new \in Seq(IdentityEvents) /\ n \in Nat /\ Len(new) = n + Len(b)
        /\ \A i \in 1..n : new[i] = old[i]
        /\ \A i \in 1..Len(b) : new[n + i] = b[i]
    BY ONLY <1>10, <2>1, <2>2
  <2> QED BY <1>3, <1>10, <2>3
<1>12. new[n + 1] = e
  BY <1>3, <1>10, <1>11
<1>13. ASSUME NEW i \in 1..k PROVE n + 1 + i \in n + 2..Len(new) /\ new[n + 1 + i] = a[i]
  <2>1. i + 1 \in 1..(k + 1) /\ n + 1 + i = n + (i + 1) /\ n + 1 + i \in n + 2..Len(new)
    BY <1>3, <1>11
  <2> QED BY <1>10, <1>11, <2>1
<1>14. ASSUME NEW i \in n + 2..Len(new)
       PROVE  new[i].type = "role.assigned" /\ new[i].membership = m /\ new[i].role \in roles
  <2> DEFINE j == i - (n + 1)
  <2>1. j \in 1..k /\ i = n + 1 + j
    BY <1>3, <1>11
  <2> HIDE DEF j
  <2>2. new[i] = a[j] /\ a[j] \in S
    BY <1>3, <1>13, <2>1
  <2> QED BY <1>5, <2>2
<1>15. ASSUME NEW r \in roles PROVE \E i \in n + 2..Len(new) : new[i].role = r
  <2>1. PICK x \in S : x.role = r
    BY <1>6
  <2>2. PICK i \in 1..k : a[i] = x
    BY <1>3, <2>1
  <2> DEFINE j == n + 1 + i
  <2>3. j \in n + 2..Len(new) /\ new[j].role = r
    BY <1>13, <2>1, <2>2
  <2> HIDE DEF j
  <2> QED BY <2>3
<1>16. Continues(old, new, e)
  <2>1. Len(new) \in Nat /\ n + 1 <= Len(new)
    BY <1>3, <1>11
  <2> QED BY <1>11, <1>12, <1>14, <2>1 DEF Continues, n
<1> QED BY <1>11, <1>14, <1>15, <1>16 DEF HasRoles, n

\* The log goes on with an event of another kind, or with one that creates
\* what is added to the list: the list is still what the log tells.
LEMMA OrganizationsGo ==
  ASSUME OrganizationsReplay, organizations \in Nat, NEW e, Continues(identityEvents, identityEvents', e),
         \/ e.type # "organization.created" /\ organizations' = organizations
         \/ e.type = "organization.created" /\ organizations' = organizations + 1
  PROVE  OrganizationsReplay'
<1> SUFFICES ASSUME NEW type, type = "organization.created" PROVE OrganizationsReplay'
  OBVIOUS
<1>1. organizations = Cardinality(Created(identityEvents, type))
  BY DEF OrganizationsReplay
<1>2. /\ e.type = type => Cardinality(Created(identityEvents', type))
                            = Cardinality(Created(identityEvents, type)) + 1
      /\ e.type # type => Created(identityEvents', type) = Created(identityEvents, type)
  <2>1. type # "role.assigned"
    OBVIOUS
  <2> QED BY <2>1, OrdinalsGo
<1>3. organizations' = Cardinality(Created(identityEvents', type))
  BY <1>1, <1>2
<1> QED BY <1>3 DEF OrganizationsReplay

\* The same for the users, each with its organization.
LEMMA UsersGo ==
  ASSUME UsersReplay, users \in Seq(Nat), NEW e, Continues(identityEvents, identityEvents', e),
         \/ e.type # "user.created" /\ users' = users
         \/ e.type = "user.created" /\ e.org \in Nat /\ users' = Append(users, e.org)
  PROVE  UsersReplay'
<1> SUFFICES ASSUME NEW type, type = "user.created" PROVE UsersReplay'
  OBVIOUS
<1> DEFINE n == Len(identityEvents)
           A == Created(identityEvents, type)
           B == Created(identityEvents', type)
<1>1. /\ Len(users) = Cardinality(A)
      /\ \A i \in A : users[Ordinal(identityEvents, i)] = identityEvents[i].org
  BY DEF UsersReplay
<1>2. /\ e.type = type => /\ B = A \cup {n + 1} /\ Cardinality(B) = Cardinality(A) + 1
                          /\ Ordinal(identityEvents', n + 1) = Cardinality(A) + 1
      /\ e.type # type => B = A
      /\ \A i \in A : /\ identityEvents'[i] = identityEvents[i]
                      /\ Ordinal(identityEvents', i) = Ordinal(identityEvents, i)
                      /\ Ordinal(identityEvents, i) \in 1..Cardinality(A)
  <2>1. type # "role.assigned"
    OBVIOUS
  <2> QED BY <2>1, OrdinalsGo
<1>3. identityEvents'[n + 1] = e
  BY DEF Continues
<1> HIDE DEF n, A, B
<1>4. CASE e.type # type
  BY <1>1, <1>2, <1>4 DEF UsersReplay, A, B
<1>5. CASE e.type = type
  <2>1. /\ Len(users') = Len(users) + 1 /\ users'[Len(users) + 1] = e.org
        /\ \A u \in 1..Len(users) : users'[u] = users[u]
    BY <1>5
  <2>2. ASSUME NEW i \in B PROVE users'[Ordinal(identityEvents', i)] = identityEvents'[i].org
    <3>1. CASE i \in A
      BY <1>1, <1>2, <2>1, <3>1
    <3>2. CASE i = n + 1
      BY <1>1, <1>2, <1>3, <1>5, <2>1, <3>2
    <3> QED BY <1>2, <1>5, <3>1, <3>2
  <2>3. Len(users') = Cardinality(B)
    BY <1>1, <1>2, <1>5, <2>1
  <2> QED BY <2>2, <2>3 DEF UsersReplay, B
<1> QED BY <1>4, <1>5

\* The same for the memberships.
LEMMA MembershipsGo ==
  ASSUME MembershipsReplay, memberships \in Seq(Memberships), NEW e,
         Continues(identityEvents, identityEvents', e),
         \/ e.type # "membership.granted" /\ memberships' = memberships
         \/ /\ e.type = "membership.granted"
            /\ \E new \in Memberships : /\ memberships' = Append(memberships, new)
                                        /\ new.org = e.org /\ new.user = e.user
  PROVE  MembershipsReplay'
<1> SUFFICES ASSUME NEW type, type = "membership.granted" PROVE MembershipsReplay'
  OBVIOUS
<1> DEFINE n == Len(identityEvents)
           A == Created(identityEvents, type)
           B == Created(identityEvents', type)
<1>1. /\ Len(memberships) = Cardinality(A)
      /\ \A i \in A : /\ memberships[Ordinal(identityEvents, i)].org = identityEvents[i].org
                      /\ memberships[Ordinal(identityEvents, i)].user = identityEvents[i].user
  BY DEF MembershipsReplay
<1>2. /\ e.type = type => /\ B = A \cup {n + 1} /\ Cardinality(B) = Cardinality(A) + 1
                          /\ Ordinal(identityEvents', n + 1) = Cardinality(A) + 1
      /\ e.type # type => B = A
      /\ \A i \in A : /\ identityEvents'[i] = identityEvents[i]
                      /\ Ordinal(identityEvents', i) = Ordinal(identityEvents, i)
                      /\ Ordinal(identityEvents, i) \in 1..Cardinality(A)
  <2>1. type # "role.assigned"
    OBVIOUS
  <2> QED BY <2>1, OrdinalsGo
<1>3. identityEvents'[n + 1] = e
  BY DEF Continues
<1> HIDE DEF n, A, B
<1>4. CASE e.type # type
  BY <1>1, <1>2, <1>4 DEF MembershipsReplay, A, B
<1>5. CASE e.type = type
  <2>0. PICK new \in Memberships : /\ memberships' = Append(memberships, new)
                                   /\ new.org = e.org /\ new.user = e.user
    BY <1>5
  <2>1. /\ Len(memberships') = Len(memberships) + 1 /\ memberships'[Len(memberships) + 1] = new
        /\ \A u \in 1..Len(memberships) : memberships'[u] = memberships[u]
    BY <2>0
  <2>2. ASSUME NEW i \in B
        PROVE  /\ memberships'[Ordinal(identityEvents', i)].org = identityEvents'[i].org
               /\ memberships'[Ordinal(identityEvents', i)].user = identityEvents'[i].user
    <3>1. CASE i \in A
      BY <1>1, <1>2, <2>1, <3>1
    <3>2. CASE i = n + 1
      BY <1>1, <1>2, <1>3, <1>5, <2>0, <2>1, <3>2
    <3> QED BY <1>2, <1>5, <3>1, <3>2
  <2>3. Len(memberships') = Cardinality(B)
    BY <1>1, <1>2, <1>5, <2>1
  <2> QED BY <2>2, <2>3 DEF MembershipsReplay, B
<1> QED BY <1>4, <1>5

\* The same for the sessions.
LEMMA SessionsGo ==
  ASSUME SessionsReplay, sessions \in Seq(Sessions), NEW e,
         Continues(identityEvents, identityEvents', e),
         \/ e.type # "session.created" /\ sessions' = sessions
         \/ /\ e.type = "session.created"
            /\ \E new \in Sessions : /\ sessions' = Append(sessions, new)
                                     /\ new.org = e.org /\ new.user = e.user
  PROVE  SessionsReplay'
<1> SUFFICES ASSUME NEW type, type = "session.created" PROVE SessionsReplay'
  OBVIOUS
<1> DEFINE n == Len(identityEvents)
           A == Created(identityEvents, type)
           B == Created(identityEvents', type)
<1>1. /\ Len(sessions) = Cardinality(A)
      /\ \A i \in A : /\ sessions[Ordinal(identityEvents, i)].org = identityEvents[i].org
                      /\ sessions[Ordinal(identityEvents, i)].user = identityEvents[i].user
  BY DEF SessionsReplay
<1>2. /\ e.type = type => /\ B = A \cup {n + 1} /\ Cardinality(B) = Cardinality(A) + 1
                          /\ Ordinal(identityEvents', n + 1) = Cardinality(A) + 1
      /\ e.type # type => B = A
      /\ \A i \in A : /\ identityEvents'[i] = identityEvents[i]
                      /\ Ordinal(identityEvents', i) = Ordinal(identityEvents, i)
                      /\ Ordinal(identityEvents, i) \in 1..Cardinality(A)
  <2>1. type # "role.assigned"
    OBVIOUS
  <2> QED BY <2>1, OrdinalsGo
<1>3. identityEvents'[n + 1] = e
  BY DEF Continues
<1> HIDE DEF n, A, B
<1>4. CASE e.type # type
  BY <1>1, <1>2, <1>4 DEF SessionsReplay, A, B
<1>5. CASE e.type = type
  <2>0. PICK new \in Sessions : /\ sessions' = Append(sessions, new)
                                /\ new.org = e.org /\ new.user = e.user
    BY <1>5
  <2>1. /\ Len(sessions') = Len(sessions) + 1 /\ sessions'[Len(sessions) + 1] = new
        /\ \A u \in 1..Len(sessions) : sessions'[u] = sessions[u]
    BY <2>0
  <2>2. ASSUME NEW i \in B
        PROVE  /\ sessions'[Ordinal(identityEvents', i)].org = identityEvents'[i].org
               /\ sessions'[Ordinal(identityEvents', i)].user = identityEvents'[i].user
    <3>1. CASE i \in A
      BY <1>1, <1>2, <2>1, <3>1
    <3>2. CASE i = n + 1
      BY <1>1, <1>2, <1>3, <1>5, <2>0, <2>1, <3>2
    <3> QED BY <1>2, <1>5, <3>1, <3>2
  <2>3. Len(sessions') = Cardinality(B)
    BY <1>1, <1>2, <1>5, <2>1
  <2> QED BY <2>2, <2>3 DEF SessionsReplay, B
<1> QED BY <1>4, <1>5

\* The same for the tokens.
LEMMA TokensGo ==
  ASSUME TokensReplay, tokens \in Seq(Tokens), NEW e,
         Continues(identityEvents, identityEvents', e),
         \/ e.type # "token.issued" /\ tokens' = tokens
         \/ /\ e.type = "token.issued"
            /\ \E new \in Tokens : /\ tokens' = Append(tokens, new) /\ new.session = e.session
                                   /\ new.org = e.org /\ new.user = e.user
  PROVE  TokensReplay'
<1> SUFFICES ASSUME NEW type, type = "token.issued" PROVE TokensReplay'
  OBVIOUS
<1> DEFINE n == Len(identityEvents)
           A == Created(identityEvents, type)
           B == Created(identityEvents', type)
<1>1. /\ Len(tokens) = Cardinality(A)
      /\ \A i \in A : /\ tokens[Ordinal(identityEvents, i)].session = identityEvents[i].session
                      /\ tokens[Ordinal(identityEvents, i)].org = identityEvents[i].org
                      /\ tokens[Ordinal(identityEvents, i)].user = identityEvents[i].user
  BY DEF TokensReplay
<1>2. /\ e.type = type => /\ B = A \cup {n + 1} /\ Cardinality(B) = Cardinality(A) + 1
                          /\ Ordinal(identityEvents', n + 1) = Cardinality(A) + 1
      /\ e.type # type => B = A
      /\ \A i \in A : /\ identityEvents'[i] = identityEvents[i]
                      /\ Ordinal(identityEvents', i) = Ordinal(identityEvents, i)
                      /\ Ordinal(identityEvents, i) \in 1..Cardinality(A)
  <2>1. type # "role.assigned"
    OBVIOUS
  <2> QED BY <2>1, OrdinalsGo
<1>3. identityEvents'[n + 1] = e
  BY DEF Continues
<1> HIDE DEF n, A, B
<1>4. CASE e.type # type
  BY <1>1, <1>2, <1>4 DEF TokensReplay, A, B
<1>5. CASE e.type = type
  <2>0. PICK new \in Tokens : /\ tokens' = Append(tokens, new) /\ new.session = e.session
                              /\ new.org = e.org /\ new.user = e.user
    BY <1>5
  <2>1. /\ Len(tokens') = Len(tokens) + 1 /\ tokens'[Len(tokens) + 1] = new
        /\ \A u \in 1..Len(tokens) : tokens'[u] = tokens[u]
    BY <2>0
  <2>2. ASSUME NEW i \in B
        PROVE  /\ tokens'[Ordinal(identityEvents', i)].session = identityEvents'[i].session
               /\ tokens'[Ordinal(identityEvents', i)].org = identityEvents'[i].org
               /\ tokens'[Ordinal(identityEvents', i)].user = identityEvents'[i].user
    <3>1. CASE i \in A
      BY <1>1, <1>2, <2>1, <3>1
    <3>2. CASE i = n + 1
      BY <1>1, <1>2, <1>3, <1>5, <2>0, <2>1, <3>2
    <3> QED BY <1>2, <1>5, <3>1, <3>2
  <2>3. Len(tokens') = Cardinality(B)
    BY <1>1, <1>2, <1>5, <2>1
  <2> QED BY <2>2, <2>3 DEF TokensReplay, B
<1> QED BY <1>4, <1>5

\* The roles that an event names are of a membership that is there, and those
\* of a new membership are its own.
LEMMA RolesGo ==
  ASSUME RolesReplay, RolesKnown, memberships \in Seq(Memberships), NEW e,
         Continues(identityEvents, identityEvents', e), e.type # "role.assigned",
         \/ /\ Len(identityEvents') = Len(identityEvents) + 1 /\ memberships' = memberships
         \/ \E new \in Memberships :
              /\ memberships' = Append(memberships, new)
              /\ \A i \in Len(identityEvents) + 2..Len(identityEvents') :
                   /\ identityEvents'[i].membership = Len(memberships) + 1
                   /\ identityEvents'[i].role \in new.roles
              /\ \A r \in new.roles : \E i \in Len(identityEvents) + 2..Len(identityEvents') :
                   identityEvents'[i].role = r
  PROVE  RolesReplay' /\ RolesKnown'
<1> DEFINE n == Len(identityEvents)
           k == Len(identityEvents')
           A == Created(identityEvents, "role.assigned")
           B == Created(identityEvents', "role.assigned")
           Of(m) == {identityEvents[i].role : i \in {j \in A : identityEvents[j].membership = m}}
           OfNew(m) == {identityEvents'[i].role : i \in {j \in B : identityEvents'[j].membership = m}}
<1>1. /\ n \in Nat /\ k \in Nat /\ n + 1 <= k
      /\ \A i \in 1..n : identityEvents'[i] = identityEvents[i]
      /\ identityEvents'[n + 1] = e
      /\ \A i \in n + 2..k : identityEvents'[i].type = "role.assigned"
  BY DEF Continues
<1>2. /\ A = {i \in 1..n : identityEvents[i].type = "role.assigned"}
      /\ B = {i \in 1..k : identityEvents'[i].type = "role.assigned"}
  BY DEF Created
<1>3. /\ \A m \in DOMAIN memberships : memberships[m].roles = Of(m)
      /\ \A i \in A : identityEvents[i].membership \in DOMAIN memberships
  BY DEF RolesReplay, RolesKnown
<1> HIDE DEF n, k, A, B
<1>4. B = A \cup (n + 2..k)
  <2>1. \A i \in 1..k : i \in 1..n \/ i = n + 1 \/ i \in n + 2..k
    BY <1>1
  <2>2. \A i : i \in 1..n \/ i \in n + 2..k => i \in 1..k
    BY <1>1
  <2> QED BY <1>1, <1>2, <2>1, <2>2
<1>5. \A i \in A : identityEvents'[i] = identityEvents[i]
  BY <1>1, <1>2
<1>6. CASE k = n + 1 /\ memberships' = memberships
  <2>1. B = A
    BY <1>1, <1>4, <1>6
  <2>2. \A m : OfNew(m) = Of(m)
    BY <1>5, <2>1
  <2>3. \A m \in DOMAIN memberships' : memberships'[m].roles = OfNew(m)
    <3> HIDE DEF Of, OfNew
    <3> QED BY <1>3, <1>6, <2>2
  <2>4. \A i \in B : identityEvents'[i].membership \in DOMAIN memberships'
    BY <1>3, <1>5, <1>6, <2>1
  <2> QED BY <2>3, <2>4 DEF RolesReplay, RolesKnown, B
<1>7. ASSUME NEW new \in Memberships, memberships' = Append(memberships, new),
             \A i \in n + 2..k : /\ identityEvents'[i].membership = Len(memberships) + 1
                                 /\ identityEvents'[i].role \in new.roles,
             \A r \in new.roles : \E i \in n + 2..k : identityEvents'[i].role = r
      PROVE  RolesReplay' /\ RolesKnown'
  <2> DEFINE l == Len(memberships) + 1
  <2>1. /\ DOMAIN memberships' = DOMAIN memberships \cup {l} /\ l \notin DOMAIN memberships
        /\ memberships'[l] = new
        /\ \A m \in DOMAIN memberships : memberships'[m] = memberships[m]
    BY <1>7, Added
  <2>2. \A i \in n + 2..k : identityEvents'[i].membership = l
    BY <1>7
  <2> HIDE DEF l
  <2>3. ASSUME NEW m \in DOMAIN memberships PROVE OfNew(m) = Of(m)
    <3>1. {j \in B : identityEvents'[j].membership = m} = {j \in A : identityEvents[j].membership = m}
      BY <1>4, <1>5, <2>1, <2>2
    <3> QED BY <1>5, <3>1
  <2>4. OfNew(l) = new.roles
    <3>1. {j \in B : identityEvents'[j].membership = l} = n + 2..k
      BY <1>3, <1>4, <1>5, <2>1, <2>2
    <3>2. OfNew(l) = {identityEvents'[i].role : i \in n + 2..k}
      BY <3>1
    <3>3. \A x : x \in OfNew(l) <=> \E i \in n + 2..k : identityEvents'[i].role = x
      BY <3>2
    <3> HIDE DEF OfNew
    <3>4. ASSUME NEW x \in OfNew(l) PROVE x \in new.roles
      <4>1. PICK i \in n + 2..k : identityEvents'[i].role = x
        BY <3>3, <3>4
      <4> QED BY <1>7, <4>1
    <3>5. ASSUME NEW x \in new.roles PROVE x \in OfNew(l)
      BY <1>7, <3>3, <3>5
    <3> QED BY <3>4, <3>5
  <2>5. \A m \in DOMAIN memberships' : memberships'[m].roles = OfNew(m)
    <3> HIDE DEF Of, OfNew
    <3> QED BY <1>3, <2>1, <2>3, <2>4
  <2>6. \A i \in B : identityEvents'[i].membership \in DOMAIN memberships'
    BY <1>3, <1>4, <1>5, <2>1, <2>2
  <2> QED BY <2>5, <2>6 DEF RolesReplay, RolesKnown, B
<1> QED BY <1>6, <1>7 DEF n, k

\* The number of an event is one of those of its kind.
LEMMA OrdinalsIn ==
  ASSUME NEW E, NEW log \in Seq(E), NEW type, NEW i \in Created(log, type)
  PROVE  Ordinal(log, i) \in 1..Cardinality(Created(log, type))
<1> DEFINE A == Created(log, type)
           P == 1..i \cap A
<1>1. Len(log) \in Nat /\ i \in 1..Len(log) /\ log[i].type = type /\ A \in SUBSET (1..Len(log))
  BY DEF Created
<1>2. IsFiniteSet(1..Len(log))
  BY <1>1, FS_Interval
<1>3. Ordinal(log, i) = Cardinality(P)
  BY <1>1 DEF Ordinal
<1>4. P \in SUBSET A /\ i \in P
  BY <1>1
<1> HIDE DEF A, P
<1>5. IsFiniteSet(A)
  BY ONLY <1>1, <1>2, FS_Subset
<1>6. /\ IsFiniteSet(P) /\ Cardinality(P) \in Nat /\ Cardinality(A) \in Nat
      /\ Cardinality(P) <= Cardinality(A)
  BY ONLY <1>4, <1>5, FS_Subset, FS_CardinalityType
<1>7. Cardinality(P) # 0
  BY ONLY <1>4, <1>6, FS_EmptySet
<1> QED BY <1>3, <1>6, <1>7 DEF A

\* Nothing is told of the empty lists.
LEMMA ReplayStarts == IdentityInit => ReplayInv
<1> SUFFICES ASSUME IdentityInit PROVE ReplayInv
  OBVIOUS
<1>1. IdentityTypeOK /\ identityEvents \in Seq(IdentityEvents)
  BY IdentityStarts DEF IdentityInv, IdentityInit
<1>2. \A type : Created(identityEvents, type) = {}
  BY DEF IdentityInit, Created
<1>3. /\ organizations = 0 /\ Len(users) = 0 /\ Len(memberships) = 0 /\ Len(sessions) = 0
      /\ Len(tokens) = 0 /\ DOMAIN memberships = {}
  BY DEF IdentityInit
<1>4. Cardinality({}) = 0
  BY FS_EmptySet
<1>5. \A type : Cardinality(Created(identityEvents, type)) = 0
  BY <1>2, <1>4
<1> QED
  BY <1>1, <1>2, <1>3, <1>5
     DEF ReplayInv, IdentityReplays, RolesKnown, OrganizationsReplay, UsersReplay, MembershipsReplay,
         RolesReplay, SessionsReplay, TokensReplay

\* An operation that emits one event and no role.
LEMMA ReplayOne ==
  ASSUME ReplayInv, IdentityTypeOK', NEW e \in IdentityEvents, Emit(<<e>>),
         e.type # "role.assigned", e.type # "membership.granted", memberships' = memberships,
         \/ e.type # "organization.created" /\ organizations' = organizations
         \/ e.type = "organization.created" /\ organizations' = organizations + 1,
         \/ e.type # "user.created" /\ users' = users
         \/ e.type = "user.created" /\ e.org \in Nat /\ users' = Append(users, e.org),
         \/ e.type # "session.created" /\ sessions' = sessions
         \/ /\ e.type = "session.created"
            /\ \E new \in Sessions : /\ sessions' = Append(sessions, new)
                                     /\ new.org = e.org /\ new.user = e.user,
         \/ e.type # "token.issued" /\ tokens' = tokens
         \/ /\ e.type = "token.issued"
            /\ \E new \in Tokens : /\ tokens' = Append(tokens, new) /\ new.session = e.session
                                   /\ new.org = e.org /\ new.user = e.user
  PROVE  ReplayInv'
<1>1. /\ identityEvents \in Seq(IdentityEvents) /\ IdentityTypeOK /\ RolesKnown
      /\ OrganizationsReplay /\ UsersReplay /\ MembershipsReplay /\ RolesReplay
      /\ SessionsReplay /\ TokensReplay
  BY DEF ReplayInv, IdentityReplays
<1>2. /\ organizations \in Nat /\ users \in Seq(Nat) /\ memberships \in Seq(Memberships)
      /\ sessions \in Seq(Sessions) /\ tokens \in Seq(Tokens)
  BY <1>1 DEF IdentityTypeOK
<1>3. identityEvents' = identityEvents \o <<e>>
  BY DEF Emit
<1>4. /\ identityEvents' \in Seq(IdentityEvents) /\ Len(identityEvents') = Len(identityEvents) + 1
      /\ Continues(identityEvents, identityEvents', e)
  BY ONLY <1>1, <1>3, e \in IdentityEvents, EmittedOne
<1>5. OrganizationsReplay'
  BY <1>1, <1>2, <1>4, OrganizationsGo
<1>6. UsersReplay'
  BY <1>1, <1>2, <1>4, UsersGo
<1>7. MembershipsReplay'
  BY <1>1, <1>2, <1>4, MembershipsGo
<1>8. RolesReplay' /\ RolesKnown'
  BY <1>1, <1>2, <1>4, RolesGo
<1>9. SessionsReplay'
  BY <1>1, <1>2, <1>4, SessionsGo
<1>10. TokensReplay'
  BY <1>1, <1>2, <1>4, TokensGo
<1> QED BY <1>4, <1>5, <1>6, <1>7, <1>8, <1>9, <1>10 DEF ReplayInv, IdentityReplays

\* A membership and its roles.
LEMMA ReplayGrant ==
  ASSUME IdentityAssumption, ReplayInv, IdentityTypeOK', NEW org \in Nat, NEW u \in DOMAIN users,
         NEW roles \in SUBSET Roles, GrantMembership(org, u, roles)
  PROVE  ReplayInv'
<1> DEFINE e == [type |-> "membership.granted", org |-> org, user |-> u]
           m == Len(memberships) + 1
           new == [org |-> org, user |-> u, roles |-> roles]
<1>1. /\ identityEvents \in Seq(IdentityEvents) /\ IdentityTypeOK /\ RolesKnown
      /\ OrganizationsReplay /\ UsersReplay /\ MembershipsReplay /\ RolesReplay
      /\ SessionsReplay /\ TokensReplay
  BY DEF ReplayInv, IdentityReplays
<1>2. /\ organizations \in Nat /\ users \in Seq(Nat) /\ memberships \in Seq(Memberships)
      /\ sessions \in Seq(Sessions) /\ tokens \in Seq(Tokens)
  BY <1>1 DEF IdentityTypeOK
<1>3. /\ identityEvents' = identityEvents \o
           (<<e>> \o SetToSeq(RoleEvents(m, roles)))
      /\ memberships' = Append(memberships, new)
      /\ UNCHANGED <<organizations, users, sessions, tokens>>
  BY DEF GrantMembership, Emit
<1>4. u \in Nat /\ m \in Nat
  BY <1>2
<1>5. /\ e \in IdentityEvents /\ e.type = "membership.granted" /\ e.org = org /\ e.user = u
      /\ e.type \notin {"organization.created", "user.created", "role.assigned", "session.created",
                        "token.issued"}
  BY <1>4 DEF IdentityEvents
<1>6. new \in Memberships /\ new.org = e.org /\ new.user = e.user /\ new.roles = roles
  BY <1>4 DEF Memberships
<1> HIDE DEF e, new
<1>7. /\ identityEvents' \in Seq(IdentityEvents) /\ Continues(identityEvents, identityEvents', e)
      /\ HasRoles(identityEvents, identityEvents', m, roles)
  <2>1. Tells(identityEvents, identityEvents', e, m, roles)
    BY <1>3 DEF Tells
  <2> HIDE DEF m
  <2> QED BY <1>1, <1>4, <1>5, <2>1, EmittedRoles
<1>8. OrganizationsReplay'
  BY <1>1, <1>2, <1>3, <1>5, <1>7, OrganizationsGo
<1>9. UsersReplay'
  BY <1>1, <1>2, <1>3, <1>5, <1>7, UsersGo
<1>10. MembershipsReplay'
  BY <1>1, <1>2, <1>3, <1>5, <1>6, <1>7, MembershipsGo
<1>11. RolesReplay' /\ RolesKnown'
  <2>1. /\ memberships' = Append(memberships, new)
        /\ \A i \in Len(identityEvents) + 2..Len(identityEvents') :
             /\ identityEvents'[i].membership = Len(memberships) + 1
             /\ identityEvents'[i].role \in new.roles
        /\ \A r \in new.roles : \E i \in Len(identityEvents) + 2..Len(identityEvents') :
             identityEvents'[i].role = r
    BY <1>3, <1>6, <1>7 DEF HasRoles
  <2> QED BY ONLY <1>1, <1>2, <1>5, <1>6, <1>7, <2>1, RolesGo
<1>12. SessionsReplay'
  BY <1>1, <1>2, <1>3, <1>5, <1>7, SessionsGo
<1>13. TokensReplay'
  BY <1>1, <1>2, <1>3, <1>5, <1>7, TokensGo
<1> QED BY <1>7, <1>8, <1>9, <1>10, <1>11, <1>12, <1>13 DEF ReplayInv, IdentityReplays

\* Each operation tells what it adds, and the clock changes nothing that is told.
LEMMA ReplaySteps ==
  IdentityAssumption /\ ReplayInv /\ [IdentityNext]_identityVars /\ IdentityTypeOK' => ReplayInv'
<1> SUFFICES ASSUME IdentityAssumption, ReplayInv, [IdentityNext]_identityVars, IdentityTypeOK'
             PROVE  ReplayInv'
  OBVIOUS
<1>0. /\ IdentityTypeOK /\ users \in Seq(Nat) /\ sessions \in Seq(Sessions) /\ tokens \in Seq(Tokens)
      /\ organizations \in Nat /\ organizations' \in Nat
  BY DEF ReplayInv, IdentityTypeOK
<1>1. CASE CreateOrganization
  <2> DEFINE e == [type |-> "organization.created"]
  <2>1. /\ Emit(<<e>>) /\ organizations' = organizations + 1
        /\ UNCHANGED <<users, memberships, sessions, tokens>>
    BY <1>1 DEF CreateOrganization
  <2>2. /\ e \in IdentityEvents /\ e.type = "organization.created"
        /\ e.type \notin {"user.created", "membership.granted", "role.assigned", "session.created",
                          "token.issued"}
    BY DEF IdentityEvents
  <2> HIDE DEF e
  <2> QED BY <2>1, <2>2, ReplayOne
<1>2. ASSUME NEW org \in Named, CreateUser(org) PROVE ReplayInv'
  <2> DEFINE e == [type |-> "user.created", org |-> org]
  <2>0. org \in Nat
    BY <1>0, <1>2 DEF CreateUser
  <2>1. /\ Emit(<<e>>) /\ users' = Append(users, org)
        /\ UNCHANGED <<organizations, memberships, sessions, tokens>>
    BY <1>2 DEF CreateUser
  <2>2. /\ e \in IdentityEvents /\ e.type = "user.created" /\ e.org = org
        /\ e.type \notin {"organization.created", "membership.granted", "role.assigned",
                          "session.created", "token.issued"}
    BY <2>0 DEF IdentityEvents
  <2> HIDE DEF e
  <2> QED BY <2>0, <2>1, <2>2, ReplayOne
<1>3. ASSUME NEW org \in Named, NEW u \in DOMAIN users, CreateSession(org, u) PROVE ReplayInv'
  <2> DEFINE e == [type |-> "session.created", org |-> org, user |-> u]
             new == [org |-> org, user |-> u, live |-> TRUE]
  <2>0. org \in Nat /\ u \in Nat
    BY <1>0, <1>3 DEF CreateSession
  <2>1. /\ Emit(<<e>>) /\ sessions' = Append(sessions, new)
        /\ UNCHANGED <<organizations, users, memberships, tokens>>
    BY <1>3 DEF CreateSession
  <2>2. /\ e \in IdentityEvents /\ e.type = "session.created" /\ e.org = org /\ e.user = u
        /\ e.type \notin {"organization.created", "membership.granted", "role.assigned",
                          "user.created", "token.issued"}
    BY <2>0 DEF IdentityEvents
  <2>3. new \in Sessions /\ new.org = org /\ new.user = u
    BY <2>0 DEF Sessions
  <2> HIDE DEF e, new
  <2> QED BY <2>1, <2>2, <2>3, ReplayOne
<1>4. ASSUME NEW org \in Named, NEW u \in DOMAIN users, NEW roles \in SUBSET Roles,
             GrantMembership(org, u, roles)
      PROVE ReplayInv'
  <2>1. org \in Nat
    BY <1>0, <1>4 DEF GrantMembership
  <2> QED BY <1>4, <2>1, ReplayGrant
<1>5. ASSUME NEW org \in Named, NEW s \in DOMAIN sessions, IssueToken(org, s) PROVE ReplayInv'
  <2> DEFINE e == [type |-> "token.issued", session |-> s, org |-> org, user |-> sessions[s].user]
             new == [session |-> s, org |-> sessions[s].org, user |-> sessions[s].user, live |-> TRUE]
  <2>0. sessions[s] \in Sessions /\ s \in Nat
    BY <1>0
  <2>00. org = sessions[s].org /\ sessions[s].org \in Nat /\ sessions[s].user \in Nat
    BY <1>5, <2>0 DEF IssueToken, Sessions
  <2>1. /\ Emit(<<e>>) /\ tokens' = Append(tokens, new)
        /\ UNCHANGED <<organizations, users, memberships, sessions>>
    BY <1>5 DEF IssueToken
  <2>2. /\ e \in IdentityEvents /\ e.type = "token.issued" /\ e.session = s /\ e.org = org
        /\ e.user = sessions[s].user
        /\ e.type \notin {"organization.created", "membership.granted", "role.assigned",
                          "user.created", "session.created"}
    BY <2>0, <2>00 DEF IdentityEvents
  <2>3. new \in Tokens /\ new.session = s /\ new.org = org /\ new.user = sessions[s].user
    BY <2>0, <2>00 DEF Tokens
  <2> HIDE DEF e, new
  <2> QED BY <2>1, <2>2, <2>3, ReplayOne
<1>6. ASSUME UNCHANGED <<organizations, users, memberships, identityEvents>>,
             Len(sessions') = Len(sessions) /\ Len(tokens') = Len(tokens),
             \A s \in DOMAIN sessions : /\ sessions'[s].org = sessions[s].org
                                        /\ sessions'[s].user = sessions[s].user,
             \A t \in DOMAIN tokens : /\ tokens'[t].org = tokens[t].org
                                      /\ tokens'[t].user = tokens[t].user
                                      /\ tokens'[t].session = tokens[t].session
      PROVE  ReplayInv'
  <2>1. \A type : \A i \in Created(identityEvents, type) :
          Ordinal(identityEvents, i) \in 1..Cardinality(Created(identityEvents, type))
    BY OrdinalsIn DEF ReplayInv
  <2>2. SessionsReplay'
    <3> SUFFICES ASSUME NEW type, type = "session.created" PROVE SessionsReplay'
      OBVIOUS
    <3>1. /\ Len(sessions) = Cardinality(Created(identityEvents, type))
          /\ \A i \in Created(identityEvents, type) :
               /\ sessions[Ordinal(identityEvents, i)].org = identityEvents[i].org
               /\ sessions[Ordinal(identityEvents, i)].user = identityEvents[i].user
      BY DEF ReplayInv, IdentityReplays, SessionsReplay
    <3>2. \A i \in Created(identityEvents, type) : Ordinal(identityEvents, i) \in DOMAIN sessions
      BY <1>0, <2>1, <3>1
    <3> QED BY <1>6, <3>1, <3>2 DEF SessionsReplay
  <2>3. TokensReplay'
    <3> SUFFICES ASSUME NEW type, type = "token.issued" PROVE TokensReplay'
      OBVIOUS
    <3>1. /\ Len(tokens) = Cardinality(Created(identityEvents, type))
          /\ \A i \in Created(identityEvents, type) :
               /\ tokens[Ordinal(identityEvents, i)].session = identityEvents[i].session
               /\ tokens[Ordinal(identityEvents, i)].org = identityEvents[i].org
               /\ tokens[Ordinal(identityEvents, i)].user = identityEvents[i].user
      BY DEF ReplayInv, IdentityReplays, TokensReplay
    <3>2. \A i \in Created(identityEvents, type) : Ordinal(identityEvents, i) \in DOMAIN tokens
      BY <1>0, <2>1, <3>1
    <3> QED BY <1>6, <3>1, <3>2 DEF TokensReplay
  <2> QED
    BY <1>6, <2>2, <2>3 DEF ReplayInv, IdentityReplays, RolesKnown, OrganizationsReplay, UsersReplay,
                            MembershipsReplay, RolesReplay
<1>7. ASSUME NEW s \in DOMAIN sessions, SessionExpires(s) PROVE ReplayInv'
  BY <1>0, <1>6, <1>7 DEF SessionExpires
<1>8. ASSUME NEW t \in DOMAIN tokens, TokenExpires(t) PROVE ReplayInv'
  BY <1>0, <1>6, <1>8 DEF TokenExpires
<1>9. CASE UNCHANGED identityVars
  BY <1>6, <1>9 DEF identityVars
<1> QED
  BY <1>1, <1>2, <1>3, <1>4, <1>5, <1>7, <1>8, <1>9 DEF IdentityNext

\* The log rebuilds every list, for any number of organizations, users, roles,
\* sessions and tokens.
THEOREM IdentityReplaysHolds == IdentitySpec => []IdentityReplays
<1>1. IdentityInit => IdentityInv /\ ReplayInv
  BY IdentityStarts, ReplayStarts
<1>2. IdentityInv /\ ReplayInv /\ [IdentityNext]_identityVars => (IdentityInv /\ ReplayInv)'
  BY IdentityAssumption, IdentitySteps, ReplaySteps DEF IdentityInv
<1>3. ReplayInv => IdentityReplays
  BY DEF ReplayInv
<1> QED
  BY <1>1, <1>2, <1>3, PTL DEF IdentitySpec
=============================================================================
