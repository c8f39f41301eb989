---------------------------- MODULE LedgerProofs ----------------------------
(***************************************************************************)
(* The durable ledger, for every number of events, failures and crashes.   *)
(* What a boot accepts is settled by three facts of the rows, however the  *)
(* batches arrived: every row is a log that some process held, no two rows *)
(* have the same seq, and the rows hold all that was acknowledged.  The    *)
(* chain that verifies is then the list of the prefixes of its last row.   *)
(***************************************************************************)
EXTENDS DurableLedger, Induction, FiniteSetTheorems, SequenceTheorems, TLAPS

-----------------------------------------------------------------------------
(* Numbers and sequences                                                   *)

\* The first j elements of a sequence.
LEMMA Cut ==
  ASSUME NEW X, NEW K \in Seq(X), NEW j \in 0..Len(K)
  PROVE  /\ SubSeq(K, 1, j) \in Seq(X)
         /\ Len(SubSeq(K, 1, j)) = j
         /\ \A i \in 1..j : SubSeq(K, 1, j)[i] = K[i]
<1>1. \A i \in 1..j : K[i] \in X
  BY ElementOfSeq, LenProperties
<1>2. j \in Int /\ 1 \in Int
  BY LenProperties
<1> QED BY <1>1, <1>2, SubSeqProperties

\* What is cut from a sequence does not see what is appended to it.
LEMMA CutOfAppend ==
  ASSUME NEW X, NEW K \in Seq(X), NEW x \in X, NEW j \in 0..Len(K)
  PROVE  SubSeq(Append(K, x), 1, j) = SubSeq(K, 1, j)
<1>1. Append(K, x) \in Seq(X) /\ Len(Append(K, x)) = Len(K) + 1
      /\ \A i \in 1..Len(K) : Append(K, x)[i] = K[i]
  BY AppendProperties
<1>2. j \in 0..Len(Append(K, x))
  BY <1>1, LenProperties
<1>3. /\ SubSeq(Append(K, x), 1, j) \in Seq(X)
      /\ Len(SubSeq(Append(K, x), 1, j)) = j
      /\ \A i \in 1..j : SubSeq(Append(K, x), 1, j)[i] = Append(K, x)[i]
  BY <1>1, <1>2, Cut
<1>4. /\ SubSeq(K, 1, j) \in Seq(X)
      /\ Len(SubSeq(K, 1, j)) = j
      /\ \A i \in 1..j : SubSeq(K, 1, j)[i] = K[i]
  BY Cut
<1>5. \A i \in 1..j : Append(K, x)[i] = K[i]
  BY <1>1, LenProperties
<1> QED BY <1>3, <1>4, <1>5, SeqEqual

\* A cut of a cut.
LEMMA CutOfCut ==
  ASSUME NEW X, NEW K \in Seq(X), NEW j \in 0..Len(K), NEW i \in 0..j
  PROVE  SubSeq(SubSeq(K, 1, j), 1, i) = SubSeq(K, 1, i)
<1>1. i \in 0..Len(K)
  BY LenProperties
<1>2. /\ SubSeq(K, 1, j) \in Seq(X) /\ Len(SubSeq(K, 1, j)) = j
      /\ \A m \in 1..j : SubSeq(K, 1, j)[m] = K[m]
  BY Cut
<1>3. /\ SubSeq(K, 1, i) \in Seq(X) /\ Len(SubSeq(K, 1, i)) = i
      /\ \A m \in 1..i : SubSeq(K, 1, i)[m] = K[m]
  BY <1>1, Cut
<1>4. /\ SubSeq(SubSeq(K, 1, j), 1, i) \in Seq(X) /\ Len(SubSeq(SubSeq(K, 1, j), 1, i)) = i
      /\ \A m \in 1..i : SubSeq(SubSeq(K, 1, j), 1, i)[m] = SubSeq(K, 1, j)[m]
  BY <1>2, Cut
<1>5. \A m \in 1..i : m \in 1..j
  OBVIOUS
<1> QED BY <1>2, <1>3, <1>4, <1>5, SeqEqual

-----------------------------------------------------------------------------
(* The events in the order of their seq                                    *)

\* No two events have the same seq.
OnePerSeq(S) == \A a, b \in S : Len(a) = Len(b) => a = b

\* The events of S before the one with hash h.
Before(S, h) == {x \in S : Len(x) < Len(h)}

\* Events of different seq are put in order: the list has each of them, in a
\* place of its own.
LEMMA OrderIsOnto ==
  ASSUME NEW S, IsFiniteSet(S), OnePerSeq(S), \A h \in S : Len(h) \in Nat
  PROVE  /\ Cardinality(S) \in Nat
         /\ DOMAIN InOrder(S) = 1..Cardinality(S)
         /\ \A i \in 1..Cardinality(S) : InOrder(S)[i] \in S
         /\ \A h \in S : \E i \in 1..Cardinality(S) : InOrder(S)[i] = h
<1> DEFINE n == Cardinality(S)
           r == [h \in S |-> Cardinality(Before(S, h)) + 1]
<1>1. n \in Nat
  BY FS_CardinalityType
<1>2. ASSUME NEW h \in S
      PROVE  /\ IsFiniteSet(Before(S, h))
             /\ Cardinality(Before(S, h)) \in Nat
             /\ Cardinality(Before(S, h)) < n
  <2>1. Before(S, h) \in SUBSET S /\ h \notin Before(S, h)
    BY DEF Before
  <2>2. IsFiniteSet(Before(S, h)) /\ Cardinality(Before(S, h)) <= n
        /\ (n = Cardinality(Before(S, h)) => S = Before(S, h))
    BY <2>1, FS_Subset
  <2>3. Cardinality(Before(S, h)) \in Nat
    BY <2>2, FS_CardinalityType
  <2>4. Cardinality(Before(S, h)) # n
    BY <2>1, <2>2
  <2> HIDE DEF n
  <2> QED BY <2>2, <2>3, <2>4, <1>1
<1>3. r \in [S -> 1..n]
  <2>1. \A h \in S : Cardinality(Before(S, h)) + 1 \in 1..n
    <3> HIDE DEF n
    <3> QED BY <1>1, <1>2
  <2> QED BY <2>1
<1>4. ASSUME NEW a \in S, NEW b \in S, Len(a) < Len(b)
      PROVE  Cardinality(Before(S, a)) < Cardinality(Before(S, b))
  <2>1. Before(S, a) \in SUBSET Before(S, b) /\ a \in Before(S, b) /\ a \notin Before(S, a)
    BY <1>4 DEF Before
  <2>2. /\ Cardinality(Before(S, a)) <= Cardinality(Before(S, b))
        /\ Cardinality(Before(S, b)) = Cardinality(Before(S, a)) => Before(S, b) = Before(S, a)
    BY <2>1, <1>2, FS_Subset
  <2>3. Cardinality(Before(S, a)) # Cardinality(Before(S, b))
    BY <2>1, <2>2
  <2> QED BY <2>2, <2>3, <1>2
<1>5. ASSUME NEW a \in S, NEW b \in S, Cardinality(Before(S, a)) = Cardinality(Before(S, b))
      PROVE  a = b
  <2>1. ~(Len(a) < Len(b)) /\ ~(Len(b) < Len(a))
    BY <1>2, <1>4, <1>5
  <2>2. Len(a) = Len(b)
    BY <2>1
  <2> QED BY <2>2 DEF OnePerSeq
<1>6. r \in Injection(S, 1..n)
  <2>1. \A a, b \in S : r[a] = r[b] => a = b
    BY <1>2, <1>5
  <2>2. DOMAIN r = S
    OBVIOUS
  <2> HIDE DEF r
  <2> QED BY <1>3, <2>1, <2>2 DEF Injection, IsInjective
<1>7. IsFiniteSet(1..n) /\ Cardinality(1..n) = n
  <2> HIDE DEF n
  <2>1. n \in Int /\ 1 \in Int /\ (1 > n => n = 0)
    BY <1>1
  <2> QED BY <1>1, <2>1, FS_Interval
<1>8. r \in Surjection(S, 1..n)
  <2> HIDE DEF r
  <2> QED BY <1>6, <1>7, FS_Injection
<1>9. \A i \in 1..n : \E h \in S : Cardinality(Before(S, h)) = i - 1
  <2>1. \A i \in 1..n : \E h \in S : r[h] = i
    BY <1>8 DEF Surjection
  <2>2. \A h \in S : r[h] = Cardinality(Before(S, h)) + 1
    OBVIOUS
  <2>3. ASSUME NEW i \in 1..n PROVE \E h \in S : Cardinality(Before(S, h)) = i - 1
    <3>1. PICK h \in S : r[h] = i
      BY <2>1
    <3>2. Cardinality(Before(S, h)) + 1 = i /\ Cardinality(Before(S, h)) \in Nat
      BY <3>1, <2>2, <1>2
    <3>3. Cardinality(Before(S, h)) = i - 1
      BY ONLY <3>2
    <3> QED BY <3>3
  <2> QED BY <2>3
<1>10. DOMAIN InOrder(S) = 1..n
  BY DEF InOrder
<1>11. ASSUME NEW i \in 1..n
       PROVE  InOrder(S)[i] \in S /\ Cardinality(Before(S, InOrder(S)[i])) = i - 1
  <2>1. InOrder(S)[i] = CHOOSE h \in S : Cardinality(Before(S, h)) = i - 1
    BY DEF InOrder, Before
  <2>2. \E h \in S : Cardinality(Before(S, h)) = i - 1
    BY <1>9
  <2> QED BY <2>1, <2>2
<1>12. ASSUME NEW h \in S PROVE \E i \in 1..n : InOrder(S)[i] = h
  <2>1. r[h] \in 1..n /\ r[h] - 1 = Cardinality(Before(S, h))
    BY <1>2, <1>3
  <2>2. InOrder(S)[r[h]] \in S
        /\ Cardinality(Before(S, InOrder(S)[r[h]])) = Cardinality(Before(S, h))
    BY <1>11, <2>1
  <2>3. InOrder(S)[r[h]] = h
    BY <2>2, <1>5
  <2> QED BY <2>1, <2>3
<1> QED BY <1>1, <1>10, <1>11, <1>12

\* The cuts of K to its first elements, up to m of them.
Cuts(K, m) == {SubSeq(K, 1, j) : j \in 1..m}

\* There are as many cuts as lengths.
LEMMA CutsCount ==
  ASSUME NEW X, NEW K \in Seq(X), NEW m \in 0..Len(K)
  PROVE  IsFiniteSet(Cuts(K, m)) /\ Cardinality(Cuts(K, m)) = m
<1> DEFINE f == [j \in 1..m |-> SubSeq(K, 1, j)]
<1>1. \A j \in 1..m : j \in 0..Len(K) /\ Len(SubSeq(K, 1, j)) = j
  BY Cut, LenProperties
<1>2. f \in [1..m -> Cuts(K, m)]
  BY DEF Cuts
<1>3. \A a, b \in 1..m : f[a] = f[b] => a = b
  BY <1>1
<1>4. \A h \in Cuts(K, m) : \E j \in 1..m : f[j] = h
  BY DEF Cuts
<1>5. DOMAIN f = 1..m
  OBVIOUS
<1>6. f \in Bijection(1..m, Cuts(K, m))
  <2> HIDE DEF f
  <2> QED BY <1>2, <1>3, <1>4, <1>5 DEF Bijection, Injection, IsInjective, Surjection
<1>7. ExistsBijection(1..m, Cuts(K, m))
  BY <1>6 DEF ExistsBijection
<1>8. m \in Nat
  BY LenProperties
<1>9. IsFiniteSet(1..m) /\ Cardinality(1..m) = m
  <2>1. m \in Int /\ 1 \in Int /\ (1 > m => m = 0)
    BY <1>8
  <2> QED BY <1>8, <2>1, FS_Interval
<1> QED BY <1>7, <1>9, FS_Bijection

\* The cuts of a log, in order, are the log again, one event after another.
LEMMA OrderOfCuts ==
  ASSUME NEW X, NEW K \in Seq(X)
  PROVE  InOrder(Cuts(K, Len(K))) = [i \in 1..Len(K) |-> SubSeq(K, 1, i)]
<1> DEFINE S == Cuts(K, Len(K))
<1>1. Len(K) \in Nat /\ Len(K) \in 0..Len(K)
  BY LenProperties
<1>2. Cardinality(S) = Len(K)
  BY <1>1, CutsCount
<1>3. \A j \in 1..Len(K) : SubSeq(K, 1, j) \in S /\ Len(SubSeq(K, 1, j)) = j
  BY <1>1, Cut DEF Cuts
<1>4. ASSUME NEW j \in 1..Len(K)
      PROVE  Before(S, SubSeq(K, 1, j)) = Cuts(K, j - 1)
  <2>1. \A i \in 1..Len(K) : Len(SubSeq(K, 1, i)) < Len(SubSeq(K, 1, j)) <=> i \in 1..j - 1
    BY <1>3, <1>1
  <2>2. \A i \in 1..j - 1 : i \in 1..Len(K)
    BY <1>1
  <2> QED BY <2>1, <2>2 DEF Before, Cuts
<1>5. \A j \in 1..Len(K) : Cardinality(Before(S, SubSeq(K, 1, j))) = j - 1
  <2>1. \A j \in 1..Len(K) : j - 1 \in 0..Len(K)
    BY <1>1
  <2> HIDE DEF S
  <2> QED BY <1>4, <2>1, CutsCount
<1>6. ASSUME NEW i \in 1..Len(K)
      PROVE  (CHOOSE h \in S : Cardinality(Before(S, h)) = i - 1) = SubSeq(K, 1, i)
  <2>1. \A h \in S : \E j \in 1..Len(K) : h = SubSeq(K, 1, j)
    BY DEF Cuts
  <2>2. \A h \in S : Cardinality(Before(S, h)) = i - 1 => h = SubSeq(K, 1, i)
    <3> HIDE DEF S
    <3>1. ASSUME NEW h \in S, Cardinality(Before(S, h)) = i - 1 PROVE h = SubSeq(K, 1, i)
      <4>1. PICK j \in 1..Len(K) : h = SubSeq(K, 1, j)
        BY <2>1
      <4>2. j - 1 = i - 1
        BY <4>1, <3>1, <1>5
      <4>3. j = i
        BY <4>2
      <4> QED BY <4>1, <4>3
    <3> QED BY <3>1
  <2>3. SubSeq(K, 1, i) \in S /\ Cardinality(Before(S, SubSeq(K, 1, i))) = i - 1
    BY <1>3, <1>5
  <2> HIDE DEF S
  <2> QED BY <2>2, <2>3
<1>7. InOrder(S) = [i \in 1..Len(K) |-> CHOOSE h \in S : Cardinality(Before(S, h)) = i - 1]
  BY <1>2 DEF InOrder, Before
<1> HIDE DEF S
<1>8. InOrder(S) = [i \in 1..Len(K) |-> SubSeq(K, 1, i)]
  BY <1>6, <1>7
<1> QED BY <1>8 DEF S

\* verifyChain accepts the rows in order only if they are the cuts of one log:
\* the log that the payloads read back make.
LEMMA ChainIsOneLog ==
  ASSUME NEW S, IsFiniteSet(S), OnePerSeq(S), \A h \in S : Len(h) \in Nat,
         VerifyChain(InOrder(S)),
         NEW L, L = [i \in DOMAIN InOrder(S) |-> PayloadOf(InOrder(S)[i])],
         NEW X, \A i \in DOMAIN InOrder(S) : PayloadOf(InOrder(S)[i]) \in X
  PROVE  /\ L \in Seq(X)
         /\ S = Cuts(L, Len(L))
<1> DEFINE n == Cardinality(S)
           events == InOrder(S)
<1>1. /\ n \in Nat /\ DOMAIN events = 1..n
      /\ \A i \in 1..n : events[i] \in S
      /\ \A h \in S : \E i \in 1..n : events[i] = h
  BY OrderIsOnto
<1>2. \A i \in 1..n :
        events[i] = Append(IF i = 1 THEN << >> ELSE events[i - 1], PayloadOf(events[i]))
  BY <1>1 DEF VerifyChain, EventHash
<1> HIDE DEF events, n
<1>3. L = [i \in 1..n |-> PayloadOf(events[i])]
  BY <1>1 DEF events
<1>4. \A i \in 1..n : PayloadOf(events[i]) \in X
  BY <1>1 DEF events
<1>5. L \in Seq(X) /\ Len(L) = n /\ \A i \in 1..n : L[i] = PayloadOf(events[i])
  <2>1. L \in Seq(X)
    BY <1>1, <1>3, <1>4, IsASeq
  <2>2. DOMAIN L = 1..n
    BY <1>3
  <2>3. Len(L) = n
    BY <2>1, <2>2, <1>1, LenProperties
  <2> QED BY <2>1, <2>3, <1>3
<1>6. \A i \in 1..n : events[i] = SubSeq(L, 1, i)
  <2> DEFINE Bad == {i \in 1..n : events[i] # SubSeq(L, 1, i)}
  <2>1. SUFFICES ASSUME Bad # {} PROVE FALSE
    OBVIOUS
  <2>2. Bad \in SUBSET Nat
    BY <1>1
  <2>3. PICK m \in Bad : \A k \in Bad : m <= k
    <3> HIDE DEF Bad
    <3> QED BY <2>1, <2>2, LeastNat
  <2>4. m \in 1..n /\ events[m] # SubSeq(L, 1, m)
    OBVIOUS
  <2>5. SubSeq(L, 1, m) = Append(SubSeq(L, 1, m - 1), L[m])
    <3>1. m - 1 \in 0..Len(L) /\ m \in 0..Len(L) /\ m \in Nat /\ L[m] \in X
      BY <2>4, <1>1, <1>5, ElementOfSeq
    <3>2. /\ SubSeq(L, 1, m) \in Seq(X) /\ Len(SubSeq(L, 1, m)) = m
          /\ \A i \in 1..m : SubSeq(L, 1, m)[i] = L[i]
      BY <3>1, <1>5, Cut
    <3>3. /\ SubSeq(L, 1, m - 1) \in Seq(X) /\ Len(SubSeq(L, 1, m - 1)) = m - 1
          /\ \A i \in 1..m - 1 : SubSeq(L, 1, m - 1)[i] = L[i]
      BY <3>1, <1>5, Cut
    <3> DEFINE K == SubSeq(L, 1, m - 1)
    <3>4. /\ Append(K, L[m]) \in Seq(X) /\ Len(Append(K, L[m])) = m
          /\ \A i \in 1..m - 1 : Append(K, L[m])[i] = K[i]
          /\ Append(K, L[m])[m] = L[m]
      <4>1. K \in Seq(X) /\ Len(K) = m - 1
        BY <3>3
      <4> HIDE DEF K
      <4> QED BY <4>1, <3>1, AppendProperties
    <3>5. \A i \in 1..m : SubSeq(L, 1, m)[i] = Append(K, L[m])[i]
      <4>1. ASSUME NEW i \in 1..m PROVE SubSeq(L, 1, m)[i] = Append(K, L[m])[i]
        <5>1. CASE i = m BY <5>1, <3>2, <3>4, <3>1
        <5>2. CASE i # m
          <6>1. i \in 1..m - 1
            BY <5>2, <3>1
          <6> QED BY <6>1, <3>2, <3>3, <3>4
        <5> QED BY <5>1, <5>2
      <4> QED BY <4>1
    <3> HIDE DEF K
    <3>6. SubSeq(L, 1, m) = Append(K, L[m])
      BY <3>2, <3>4, <3>5, SeqEqual
    <3> QED BY <3>6 DEF K
  <2>6. SubSeq(L, 1, m - 1) = IF m = 1 THEN << >> ELSE events[m - 1]
    <3>1. CASE m = 1
      BY <3>1, SubSeqEmpty
    <3>2. CASE m # 1
      <4>1. m - 1 \in 1..n /\ m - 1 < m
        BY <3>2, <2>4, <1>1
      <4>2. m - 1 \notin Bad
        <5> HIDE DEF Bad
        <5> QED BY <4>1, <2>2, <2>3, <2>4
      <4> QED BY <3>2, <4>1, <4>2
    <3> QED BY <3>1, <3>2
  <2> HIDE DEF Bad
  <2>7. events[m] = SubSeq(L, 1, m)
    BY <2>4, <2>5, <2>6, <1>2, <1>5
  <2> QED BY <2>4, <2>7
<1>7. S = Cuts(L, Len(L))
  <2>1. Cuts(L, Len(L)) = {events[i] : i \in 1..n}
    BY <1>5, <1>6 DEF Cuts
  <2>2. S = {events[i] : i \in 1..n}
    BY <1>1
  <2> QED BY <2>1, <2>2
<1> QED BY <1>5, <1>7

\* Every log that is a chain is a sequence of at most as many payloads as drafts.
LEMMA HashesAreLogs ==
  ASSUME NEW h
  PROVE  h \in Hashes <=> h \in Seq(Payloads) /\ Len(h) \in 0..MaxDrafts
<1>1. ASSUME h \in Hashes PROVE h \in Seq(Payloads) /\ Len(h) \in 0..MaxDrafts
  <2>1. PICK k \in 0..MaxDrafts : h \in [1..k -> Payloads]
    BY <1>1 DEF Hashes
  <2>2. k \in Nat
    BY LedgerAssumption
  <2>3. h = [i \in 1..k |-> h[i]] /\ \A i \in 1..k : h[i] \in Payloads
    BY <2>1
  <2>4. h \in Seq(Payloads)
    BY <2>1, <2>2
  <2>5. Len(h) = k
    BY <2>1, <2>2, <2>4, LenProperties
  <2> QED BY <2>1, <2>4, <2>5
<1>2. ASSUME h \in Seq(Payloads), Len(h) \in 0..MaxDrafts PROVE h \in Hashes
  <2>1. h \in [1..Len(h) -> Payloads]
    BY <1>2, LenProperties
  <2> QED BY <1>2, <2>1 DEF Hashes
<1> QED BY <1>1, <1>2

\* The empty log is one.
LEMMA EmptyLog == << >> \in Seq(Payloads) /\ Len(<< >>) = 0 /\ << >> \in Hashes
<1>1. << >> \in Seq(Payloads) /\ Len(<< >>) = 0
  BY EmptySeq
<1>2. 0 \in 0..MaxDrafts
  BY LedgerAssumption
<1> QED BY <1>1, <1>2, HashesAreLogs

-----------------------------------------------------------------------------
(* The inductive invariant                                                 *)

\* What is pending is the end of the log, and only an open ledger has it.
PendingIsTail ==
  /\ pending \in Seq(Hashes) /\ Len(pending) <= Len(log)
  /\ \A i \in 1..Len(pending) : pending[i] = SubSeq(log, 1, Len(log) - Len(pending) + i)
  /\ proc # "up" => pending = << >>

\* No two events of a batch, of the rows or of what was read have the same seq.
Numbered ==
  /\ IsFiniteSet(durable) /\ OnePerSeq(durable)
  /\ IsFiniteSet(snap) /\ OnePerSeq(snap)
  /\ \A f \in flights : IsFiniteSet(f.batch) /\ OnePerSeq(f.batch)

\* Whatever the store holds or was sent is a log that some process held.
Held ==
  /\ << >> \in past /\ log \in past
  /\ durable \subseteq past /\ snap \subseteq past
  /\ \A i \in 1..Len(pending) : pending[i] \in past
  /\ \A f \in flights : f.batch \subseteq past
  /\ \A h \in past : Len(h) <= drafts

\* The store holds what was acknowledged, and so does what was read of it.
Answered == acked \subseteq durable /\ (proc = "reading" => acked \subseteq snap)

LInv == LedgerTypeOK /\ PendingIsTail /\ Numbered /\ Held /\ Answered

\* Nothing is stored, pending or on its way at first.
LEMMA InitLInv == LedgerInit => LInv
<1> SUFFICES ASSUME LedgerInit PROVE LInv
  OBVIOUS
<1>1. << >> \in Hashes /\ Len(<< >>) = 0
  BY EmptyLog
<1>2. << >> \in Seq(Hashes)
  BY EmptySeq
<1>3. LedgerTypeOK
  BY <1>1, LedgerAssumption DEF LedgerInit, LedgerTypeOK
<1>4. PendingIsTail
  BY <1>1, <1>2 DEF LedgerInit, PendingIsTail
<1>5. Numbered
  BY FS_EmptySet DEF LedgerInit, Numbered, OnePerSeq
<1>6. Held
  BY <1>1 DEF LedgerInit, Held
<1>7. Answered
  BY DEF LedgerInit, Answered
<1> QED BY <1>3, <1>4, <1>5, <1>6, <1>7 DEF LInv

\* What hydrate() makes of the rows it read: if the chain verifies, the log is
\* of the cuts that were read, and one of them, or empty.
LEMMA RebuildLog ==
  ASSUME LInv, Rebuild, VerifyChain(InOrder(snap))
  PROVE  /\ log' \in Seq(Payloads) /\ log' \in Hashes /\ log' \in past
         /\ snap = Cuts(log', Len(log'))
         /\ proc' = "up"
<1>1. \A h \in snap : h \in Seq(Payloads) /\ Len(h) \in Nat
  BY HashesAreLogs, LedgerAssumption DEF LInv, LedgerTypeOK
<1>2. log' = [i \in DOMAIN InOrder(snap) |-> PayloadOf(InOrder(snap)[i])] /\ proc' = "up"
  BY DEF Rebuild
<1>3. IsFiniteSet(snap) /\ OnePerSeq(snap)
  BY DEF LInv, Numbered
<1> DEFINE X == {PayloadOf(InOrder(snap)[i]) : i \in DOMAIN InOrder(snap)}
<1>4. log' \in Seq(X) /\ snap = Cuts(log', Len(log'))
  <2>1. \A i \in DOMAIN InOrder(snap) : PayloadOf(InOrder(snap)[i]) \in X
    OBVIOUS
  <2> HIDE DEF X
  <2> QED BY <1>1, <1>2, <1>3, <2>1, ChainIsOneLog
<1> HIDE DEF X
<1>5. Len(log') \in Nat
  BY <1>4, LenProperties
<1>6. CASE Len(log') = 0
  <2>1. log' = << >>
    BY <1>4, <1>6, EmptySeq
  <2>2. << >> \in past /\ << >> \in Hashes /\ << >> \in Seq(Payloads)
    BY EmptyLog DEF LInv, Held
  <2> QED BY <1>2, <1>4, <2>1, <2>2
<1>7. CASE Len(log') # 0
  <2>1. Len(log') \in 1..Len(log')
    BY <1>5, <1>7
  <2>2. SubSeq(log', 1, Len(log')) = log'
    BY <1>4, SubSeqFull
  <2>3. log' \in snap
    BY <1>4, <2>1, <2>2 DEF Cuts
  <2>4. log' \in past /\ log' \in Hashes
    BY <2>3 DEF LInv, Held, LedgerTypeOK
  <2> QED BY <1>1, <1>2, <1>4, <2>3, <2>4
<1> QED BY <1>6, <1>7

-----------------------------------------------------------------------------
(* The steps                                                               *)

\* flush() sends a set of events of different seq, each held by the process.
LEMMA BatchFacts ==
  ASSUME LInv
  PROVE  /\ IsFiniteSet(Batch) /\ OnePerSeq(Batch)
         /\ Batch \subseteq past /\ Batch \subseteq Hashes
         /\ pending # << >> => Batch # {}
<1>1. /\ pending \in Seq(Hashes) /\ Len(pending) \in Nat /\ DOMAIN pending = 1..Len(pending)
      /\ pending \in [1..Len(pending) -> Hashes]
      /\ log \in Seq(Payloads) /\ Len(log) \in Nat /\ Len(pending) <= Len(log)
  BY HashesAreLogs, LenProperties DEF LInv, PendingIsTail, LedgerTypeOK
<1>2. \A i \in 1..Len(pending) : Len(pending[i]) = Len(log) - Len(pending) + i
  <2>1. ASSUME NEW i \in 1..Len(pending)
        PROVE  Len(pending[i]) = Len(log) - Len(pending) + i
    <3>1. Len(log) - Len(pending) + i \in 0..Len(log)
      BY <1>1
    <3>2. pending[i] = SubSeq(log, 1, Len(log) - Len(pending) + i)
      BY DEF LInv, PendingIsTail
    <3> QED BY <1>1, <3>1, <3>2, Cut
  <2> QED BY <2>1
<1>3. OnePerSeq(Batch)
  <2>1. ASSUME NEW i \in 1..Len(pending), NEW j \in 1..Len(pending),
               Len(pending[i]) = Len(pending[j])
        PROVE  i = j
    <3>1. Len(log) - Len(pending) + i = Len(log) - Len(pending) + j
      BY <2>1, <1>2
    <3> QED BY <3>1, <1>1
  <2>2. \A a \in Batch : \E i \in 1..Len(pending) : a = pending[i]
    BY <1>1 DEF Batch
  <2> QED BY <2>1, <2>2 DEF OnePerSeq
<1>4. IsFiniteSet(Batch)
  <2>1. pending \in Surjection(1..Len(pending), Batch)
    BY <1>1 DEF Surjection, Batch
  <2>2. IsFiniteSet(1..Len(pending))
    BY <1>1, FS_Interval
  <2> QED BY <2>1, <2>2, FS_Surjection
<1>5. Batch \subseteq past /\ Batch \subseteq Hashes
  BY <1>1 DEF Batch, LInv, Held, LedgerTypeOK
<1>6. pending # << >> => Batch # {}
  <2>1. SUFFICES ASSUME pending # << >> PROVE Batch # {}
    OBVIOUS
  <2>2. 1 \in 1..Len(pending)
    BY <1>1, <2>1, EmptySeq
  <2> QED BY <1>1, <2>2 DEF Batch
<1> QED BY <1>3, <1>4, <1>5, <1>6

\* A transaction that commits keeps the seqs of the rows apart.
LEMMA CommitFacts ==
  ASSUME NEW b, Fits(b), IsFiniteSet(durable), OnePerSeq(durable), IsFiniteSet(b), OnePerSeq(b)
  PROVE  IsFiniteSet(durable \cup b) /\ OnePerSeq(durable \cup b)
<1>1. IsFiniteSet(durable \cup b)
  BY FS_Union
<1>2. OnePerSeq(durable \cup b)
  BY DEF OnePerSeq, Fits
<1> QED BY <1>1, <1>2

\* append() adds one event to the log and to what is pending.
LEMMA StepAppend ==
  ASSUME LInv, NEW kind \in PayloadKinds, AppendEvent(kind)
  PROVE  LInv'
<1> DEFINE p == [n |-> drafts + 1, kind |-> kind]
<1>1. /\ log \in Seq(Payloads) /\ Len(log) \in Nat /\ Len(log) <= drafts /\ log \in Hashes
      /\ pending \in Seq(Hashes) /\ Len(pending) \in Nat /\ Len(pending) <= Len(log)
  BY HashesAreLogs, LenProperties DEF LInv, PendingIsTail, LedgerTypeOK, Held
<1>2. drafts \in Nat /\ drafts < MaxDrafts /\ drafts' = drafts + 1 /\ MaxDrafts \in Nat
  BY LedgerAssumption DEF LInv, LedgerTypeOK, AppendEvent
<1>3. p \in Payloads
  BY <1>2 DEF Payloads
<1>4. log' = Append(log, p) /\ pending' = Append(pending, log') /\ past' = past \cup {log'}
  BY DEF AppendEvent, EventHash
<1> HIDE DEF p
<1>5. log' \in Seq(Payloads) /\ Len(log') = Len(log) + 1
  BY <1>1, <1>3, <1>4, AppendProperties
<1>6. log' \in Hashes
  <2>1. Len(log') \in 0..MaxDrafts
    BY <1>1, <1>2, <1>5
  <2> QED BY <1>5, <2>1, HashesAreLogs
<1>7. /\ pending' \in Seq(Hashes) /\ Len(pending') = Len(pending) + 1
      /\ \A i \in 1..Len(pending) : pending'[i] = pending[i]
      /\ pending'[Len(pending) + 1] = log'
  BY <1>1, <1>4, <1>6, AppendProperties
<1>8. \A i \in 1..Len(pending') : i \in 1..Len(pending) \/ i = Len(pending) + 1
  BY <1>1, <1>7
<1>9. LedgerTypeOK'
  <2>1. \A i \in DOMAIN pending' : pending'[i] \in Hashes
    BY <1>7, ElementOfSeq, LenProperties
  <2>2. drafts' \in 0..MaxDrafts
    BY <1>2
  <2>3. past' \subseteq Hashes
    BY <1>4, <1>6 DEF LInv, LedgerTypeOK
  <2> QED BY <1>6, <2>1, <2>2, <2>3 DEF LInv, LedgerTypeOK, AppendEvent
<1>10. PendingIsTail'
  <2>1. ASSUME NEW i \in 1..Len(pending')
        PROVE  pending'[i] = SubSeq(log', 1, Len(log') - Len(pending') + i)
    <3>1. CASE i \in 1..Len(pending)
      <4>1. pending'[i] = SubSeq(log, 1, Len(log) - Len(pending) + i)
        BY <3>1, <1>7 DEF LInv, PendingIsTail
      <4>2. Len(log) - Len(pending) + i \in 0..Len(log)
            /\ Len(log') - Len(pending') + i = Len(log) - Len(pending) + i
        BY <3>1, <1>1, <1>5, <1>7
      <4> QED BY <4>1, <4>2, <1>1, <1>3, <1>4, CutOfAppend
    <3>2. CASE i = Len(pending) + 1
      <4>1. Len(log') - Len(pending') + i = Len(log')
        BY <3>2, <1>1, <1>5, <1>7
      <4>2. SubSeq(log', 1, Len(log')) = log'
        BY <1>5, SubSeqFull
      <4> QED BY <3>2, <4>1, <4>2, <1>7
    <3> QED BY <3>1, <3>2, <1>8
  <2>2. Len(pending') <= Len(log')
    BY <1>1, <1>5, <1>7
  <2> QED BY <1>7, <2>1, <2>2 DEF PendingIsTail, AppendEvent
<1>11. Numbered'
  BY DEF LInv, Numbered, AppendEvent
<1>12. Held'
  <2>1. \A h \in past' : Len(h) <= drafts'
    <3>1. \A h \in past : Len(h) \in Nat
      BY HashesAreLogs, LedgerAssumption DEF LInv, LedgerTypeOK
    <3>2. \A h \in past : Len(h) <= drafts
      BY DEF LInv, Held
    <3> QED BY <3>1, <3>2, <1>1, <1>2, <1>4, <1>5
  <2>2. \A i \in 1..Len(pending') : pending'[i] \in past'
    BY <1>4, <1>7, <1>8 DEF LInv, Held
  <2> QED BY <2>1, <2>2, <1>4 DEF LInv, Held, AppendEvent
<1>13. Answered'
  BY DEF LInv, Answered, AppendEvent
<1> QED BY <1>9, <1>10, <1>11, <1>12, <1>13 DEF LInv

\* hydrate(): the log is the one that the rows it read make, or stays empty.
LEMMA StepRebuild == LInv /\ Rebuild => LInv'
<1> SUFFICES ASSUME LInv, Rebuild PROVE LInv'
  OBVIOUS
<1>1. proc = "reading" /\ pending = << >> /\ Len(pending) = 0
  BY EmptyLog DEF LInv, PendingIsTail, Rebuild
<1>2. \/ /\ log' \in Hashes /\ log' \in past /\ proc' = "up"
      \/ /\ log' = log /\ proc' = "refused"
  BY RebuildLog DEF Rebuild
<1>3. log' \in Hashes /\ log' \in past /\ proc' \in {"up", "refused"} /\ Len(log') \in Nat
  <2>1. log' \in Hashes /\ log' \in past /\ proc' \in {"up", "refused"}
    BY <1>2 DEF LInv, LedgerTypeOK, Held
  <2> QED BY <2>1, HashesAreLogs, LedgerAssumption
<1>4. pending' = << >>
  BY <1>1 DEF Rebuild
<1>5. LedgerTypeOK'
  BY <1>3 DEF LInv, LedgerTypeOK, Rebuild
<1>6. PendingIsTail'
  BY <1>1, <1>3, <1>4 DEF LInv, PendingIsTail
<1>7. Numbered'
  BY DEF LInv, Numbered, Rebuild
<1>8. Held'
  BY <1>3 DEF LInv, Held, Rebuild
<1>9. Answered'
  BY <1>3 DEF LInv, Answered, Rebuild
<1> QED BY <1>5, <1>6, <1>7, <1>8, <1>9 DEF LInv

\* flush() on SQLite commits a batch that fits, all of it, before it resolves.
LEMMA StepFlushNow == LInv /\ FlushNow => LInv'
<1> SUFFICES ASSUME LInv, FlushNow PROVE LInv'
  OBVIOUS
<1>1. durable' = durable \cup Batch /\ acked' = acked \cup Batch /\ pending' = << >> /\ proc = "up"
  BY DEF FlushNow, Commit
<1>2. << >> \in Seq(Hashes) /\ Len(<< >>) = 0 /\ Len(log) \in Nat
  BY EmptySeq, HashesAreLogs, LenProperties DEF LInv, LedgerTypeOK
<1>3. /\ IsFiniteSet(Batch) /\ OnePerSeq(Batch)
      /\ Batch \subseteq past /\ Batch \subseteq Hashes
  BY BatchFacts
<1>4. LedgerTypeOK'
  BY <1>1, <1>2, <1>3 DEF LInv, LedgerTypeOK, FlushNow
<1>5. PendingIsTail'
  BY <1>1, <1>2 DEF LInv, PendingIsTail, FlushNow
<1>6. Numbered'
  BY <1>1, <1>3, CommitFacts DEF LInv, Numbered, FlushNow
<1>7. Held'
  BY <1>1, <1>2, <1>3 DEF LInv, Held, FlushNow
<1>8. Answered'
  BY <1>1 DEF LInv, Answered, FlushNow
<1> QED BY <1>4, <1>5, <1>6, <1>7, <1>8 DEF LInv

\* flush() when the database refuses, or when the batch is on its way: what was
\* pending is pending no more.
LEMMA StepFlush == LInv /\ (FlushFails \/ FlushSends) => LInv'
<1> SUFFICES ASSUME LInv, FlushFails \/ FlushSends PROVE LInv'
  OBVIOUS
<1>1. << >> \in Seq(Hashes) /\ Len(<< >>) = 0 /\ Len(log) \in Nat
  BY EmptySeq, HashesAreLogs, LenProperties DEF LInv, LedgerTypeOK
<1>2. /\ IsFiniteSet(Batch) /\ OnePerSeq(Batch)
      /\ Batch \subseteq past /\ Batch \subseteq Hashes
      /\ pending # << >> => Batch # {}
  BY BatchFacts
<1>3. pending' = << >>
      /\ UNCHANGED <<store, durable, proc, snap, log, drafts, crashes, acked, past>>
  BY DEF FlushFails, FlushSends
<1>4. \A f \in flights' : f \in flights \/ (f = [batch |-> Batch, by |-> crashes] /\ Batch # {})
  BY <1>2 DEF FlushFails, FlushSends
<1>5. refusals' \in 0..MaxRefusals
  BY LedgerAssumption DEF LInv, LedgerTypeOK, FlushFails, FlushSends
<1>6. crashes \in 0..crashes
  BY LedgerAssumption DEF LInv, LedgerTypeOK
<1>7. LedgerTypeOK'
  BY <1>1, <1>2, <1>3, <1>4, <1>5, <1>6 DEF LInv, LedgerTypeOK
<1>8. PendingIsTail'
  BY <1>1, <1>3 DEF LInv, PendingIsTail
<1>9. Numbered'
  BY <1>2, <1>3, <1>4 DEF LInv, Numbered
<1>10. Held'
  BY <1>1, <1>2, <1>3, <1>4 DEF LInv, Held
<1>11. Answered'
  BY <1>3 DEF LInv, Answered
<1> QED BY <1>7, <1>8, <1>9, <1>10, <1>11 DEF LInv

\* A batch on its way settles: all of it is committed, if it fits, or none.
LEMMA StepSettle ==
  ASSUME LInv, NEW f \in flights, Lands(f) \/ Bounces(f)
  PROVE  LInv'
<1>1. /\ f.batch \subseteq Hashes /\ f.batch \subseteq past
      /\ IsFiniteSet(f.batch) /\ OnePerSeq(f.batch)
  BY DEF LInv, LedgerTypeOK, Held, Numbered
<1>2. /\ flights' = flights \ {f}
      /\ UNCHANGED <<store, proc, snap, log, pending, drafts, crashes, past>>
  BY DEF Lands, Bounces
<1>3. (durable' = durable \/ (durable' = durable \cup f.batch /\ Fits(f.batch)))
  BY DEF Lands, Bounces, Commit
<1>4. refusals' \in 0..MaxRefusals
  <2>1. CASE Lands(f)
    BY <2>1 DEF Lands, LInv, LedgerTypeOK
  <2>2. CASE Bounces(f)
    <3>1. refusals \in Nat /\ refusals <= MaxRefusals /\ MaxRefusals \in Nat
          /\ f.by \in 0..crashes /\ crashes \in Nat
      BY LedgerAssumption DEF LInv, LedgerTypeOK
    <3> QED BY <2>2, <3>1 DEF Bounces
  <2> QED BY <2>1, <2>2
<1>5. /\ acked' \subseteq acked \cup f.batch
      /\ acked' # acked => proc = "up" /\ durable' = durable \cup f.batch
  BY DEF Lands, Bounces, Commit
<1>6. LedgerTypeOK'
  <2>1. durable' \subseteq Hashes /\ acked' \subseteq Hashes
    BY <1>1, <1>3, <1>5 DEF LInv, LedgerTypeOK
  <2> QED BY <1>2, <1>4, <2>1 DEF LInv, LedgerTypeOK
<1>7. PendingIsTail'
  BY <1>2 DEF LInv, PendingIsTail
<1>8. Numbered'
  <2>1. IsFiniteSet(durable') /\ OnePerSeq(durable')
    BY <1>1, <1>3, CommitFacts DEF LInv, Numbered
  <2> QED BY <1>2, <2>1 DEF LInv, Numbered
<1>9. Held'
  BY <1>1, <1>2, <1>3 DEF LInv, Held
<1>10. Answered'
  BY <1>2, <1>3, <1>5 DEF LInv, Answered
<1> QED BY <1>6, <1>7, <1>8, <1>9, <1>10 DEF LInv

\* hydrate() reads the rows, and a crash loses the memory of the process.
LEMMA StepProcess == LInv /\ (ReadAll \/ Crash) => LInv'
<1> SUFFICES ASSUME LInv, ReadAll \/ Crash PROVE LInv'
  OBVIOUS
<1>1. << >> \in Seq(Hashes) /\ Len(<< >>) = 0 /\ << >> \in Hashes
  BY EmptySeq, EmptyLog
<1>2. CASE ReadAll
  <2>1. LedgerTypeOK'
    BY <1>2 DEF LInv, LedgerTypeOK, ReadAll
  <2>2. PendingIsTail'
    BY <1>2 DEF LInv, PendingIsTail, ReadAll
  <2>3. Numbered'
    BY <1>2 DEF LInv, Numbered, ReadAll
  <2>4. Held'
    BY <1>2 DEF LInv, Held, ReadAll
  <2>5. Answered'
    BY <1>2 DEF LInv, Answered, ReadAll
  <2> QED BY <2>1, <2>2, <2>3, <2>4, <2>5 DEF LInv
<1>3. CASE Crash
  <2>1. crashes' \in 0..MaxCrashes /\ \A f \in flights : f.by \in 0..crashes'
    BY <1>3, LedgerAssumption DEF LInv, LedgerTypeOK, Crash
  <2>2. LedgerTypeOK'
    BY <1>1, <1>3, <2>1 DEF LInv, LedgerTypeOK, Crash
  <2>3. PendingIsTail'
    BY <1>1, <1>3 DEF LInv, PendingIsTail, Crash
  <2>4. Numbered'
    BY <1>3 DEF LInv, Numbered, Crash
  <2>5. Held'
    BY <1>1, <1>3 DEF LInv, Held, Crash
  <2>6. Answered'
    BY <1>3 DEF LInv, Answered, Crash
  <2> QED BY <2>2, <2>3, <2>4, <2>5, <2>6 DEF LInv
<1> QED BY <1>2, <1>3

\* Every step, and a step that changes nothing.
LEMMA StepLInv == LInv /\ [LedgerNext]_ledgerVars => LInv'
<1> SUFFICES ASSUME LInv, [LedgerNext]_ledgerVars PROVE LInv'
  OBVIOUS
<1>1. CASE UNCHANGED ledgerVars
  BY <1>1 DEF ledgerVars, LInv, LedgerTypeOK, PendingIsTail, Numbered, Held, Answered
<1>2. CASE LedgerNext
  BY <1>2, StepAppend, StepRebuild, StepFlushNow, StepFlush, StepSettle, StepProcess DEF LedgerNext
<1> QED BY <1>1, <1>2

\* However batches are dropped, reordered or committed after the death of their
\* process, the rows are logs that were held, of different seqs, and among them
\* all that was acknowledged (durable-ledger.ts:32-63).
THEOREM LedgerInductive == LedgerSpec => []LInv
BY InitLInv, StepLInv, PTL DEF LedgerSpec

\* The types, for every number of events, failures and crashes.
THEOREM LedgerTypes == LedgerSpec => []LedgerTypeOK
BY LedgerInductive, PTL DEF LInv

-----------------------------------------------------------------------------
(* What a boot accepts                                                     *)

\* Only hydrate() takes the process from reading to up.
LEMMA BootIsRebuild ==
  ASSUME [LedgerNext]_ledgerVars, proc = "reading", proc' = "up"
  PROVE  Rebuild /\ VerifyChain(InOrder(snap))
BY DEF LedgerNext, ledgerVars, ReadAll, Rebuild, AppendEvent, FlushNow, FlushFails, FlushSends, Lands,
       Bounces, Crash

\* A ledger that boots has exactly a log that some process held: no event is
\* missing in it, and none is another process's (durable-ledger.ts:32-45).
THEOREM BootRecalls == LedgerSpec => BootIsHistory
<1>1. ASSUME LInv, [LedgerNext]_ledgerVars, proc = "reading", proc' = "up" PROVE log' \in past
  BY <1>1, BootIsRebuild, RebuildLog
<1>2. LInv /\ [LedgerNext]_ledgerVars => [proc = "reading" /\ proc' = "up" => log' \in past]_ledgerVars
  BY <1>1
<1> QED BY <1>2, LedgerInductive, PTL DEF LedgerSpec, BootIsHistory

\* A ledger that boots has every event whose flush() resolved, in whatever
\* process that was (durable-ledger.ts:32-63).
THEOREM BootForgetsNothing == LedgerSpec => AckedKept
<1>1. ASSUME LInv, [LedgerNext]_ledgerVars, proc = "reading", proc' = "up", NEW h \in acked
      PROVE  IsPrefixOf(h, log')
  <2>1. Rebuild /\ VerifyChain(InOrder(snap))
    BY <1>1, BootIsRebuild
  <2>2. log' \in Seq(Payloads) /\ snap = Cuts(log', Len(log'))
    BY <1>1, <2>1, RebuildLog
  <2>3. h \in snap
    BY <1>1 DEF LInv, Answered
  <2>4. PICK j \in 1..Len(log') : h = SubSeq(log', 1, j)
    BY <2>2, <2>3 DEF Cuts
  <2>5. j \in 0..Len(log') /\ Len(log') \in Nat
    BY <2>2, LenProperties
  <2>6. Len(h) = j
    BY <2>2, <2>4, <2>5, Cut
  <2>7. Len(h) <= Len(log') /\ h = SubSeq(log', 1, Len(h))
    BY <2>4, <2>5, <2>6
  <2> QED BY <2>7 DEF IsPrefixOf
<1>2. LInv /\ [LedgerNext]_ledgerVars =>
        [proc = "reading" /\ proc' = "up" => \A h \in acked : IsPrefixOf(h, log')]_ledgerVars
  BY <1>1
<1> QED BY <1>2, LedgerInductive, PTL DEF LedgerSpec, AckedKept

-----------------------------------------------------------------------------
(* The promise of the executor's ledger                                    *)

\* SQLite, no refused transaction so far, and payloads that JSON keeps.
Sound ==
  /\ store = "sqlite" /\ refusals = 0
  /\ \A l \in past : \A i \in DOMAIN l : l[i].kind = "json"

\* The log as the next process will read it.
Stored == LET events == InOrder(durable) IN [i \in DOMAIN events |-> PayloadOf(events[i])]

\* The log the executor sees.
Seen == IF proc = "up" THEN log ELSE Stored

\* While the store is sound, its rows are the log but for what is pending.
Kept ==
  Sound =>
    /\ flights = {}
    /\ proc = "up" => durable = Cuts(log, Len(log) - Len(pending))
    /\ proc = "reading" => snap = durable

\* A store that is not sound will not be again.
LEMMA SoundBefore == ASSUME LInv, [LedgerNext]_ledgerVars, Sound' PROVE Sound
<1>1. store' = store /\ past \subseteq past'
  BY DEF LedgerNext, ledgerVars, ReadAll, Rebuild, AppendEvent, FlushNow, FlushFails, FlushSends, Lands,
         Bounces, Crash
<1>2. refusals' = 0 => refusals = 0
  <2>1. refusals \in Nat
    BY LedgerAssumption DEF LInv, LedgerTypeOK
  <2>2. ASSUME NEW f \in flights, Bounces(f)
        PROVE  refusals' = refusals \/ refusals' = refusals + 1
    BY <2>2 DEF Bounces
  <2>3. refusals' = refusals \/ refusals' = refusals + 1
    BY <2>2 DEF LedgerNext, ledgerVars, ReadAll, Rebuild, AppendEvent, FlushNow, FlushFails, FlushSends,
           Lands, Crash
  <2> QED BY <2>1, <2>3
<1> QED BY <1>1, <1>2 DEF Sound

\* The rows and the log keep step while the store is sound.
LEMMA StepKept == LInv /\ Kept /\ [LedgerNext]_ledgerVars => Kept'
<1> SUFFICES ASSUME LInv, Kept, [LedgerNext]_ledgerVars, Sound'
    PROVE  /\ flights' = {}
           /\ proc' = "up" => durable' = Cuts(log', Len(log') - Len(pending'))
           /\ proc' = "reading" => snap' = durable'
  BY DEF Kept
<1>1. /\ store = "sqlite" /\ refusals' = 0 /\ flights = {}
      /\ proc = "up" => durable = Cuts(log, Len(log) - Len(pending))
      /\ proc = "reading" => snap = durable
  <2>1. Sound
    BY SoundBefore
  <2> QED BY <2>1 DEF Kept, Sound
<1>2. /\ log \in Seq(Payloads) /\ Len(log) \in Nat
      /\ pending \in Seq(Hashes) /\ Len(pending) \in Nat /\ Len(pending) <= Len(log)
      /\ DOMAIN pending = 1..Len(pending)
      /\ \A i \in 1..Len(pending) : pending[i] = SubSeq(log, 1, Len(log) - Len(pending) + i)
  BY HashesAreLogs, LenProperties DEF LInv, PendingIsTail, LedgerTypeOK
<1>3. CASE UNCHANGED ledgerVars
  BY <1>1, <1>3 DEF ledgerVars
<1>4. CASE ReadAll
  BY <1>1, <1>4 DEF ReadAll
<1>5. CASE Rebuild
  <2>1. flights' = {} /\ durable' = durable /\ snap = durable /\ proc' # "reading" /\ pending' = << >>
    BY <1>1, <1>5 DEF Rebuild, LInv, PendingIsTail
  <2>2. ASSUME proc' = "up" PROVE durable' = Cuts(log', Len(log') - Len(pending'))
    <3>1. VerifyChain(InOrder(snap))
      BY <1>5, <2>2 DEF Rebuild
    <3>2. snap = Cuts(log', Len(log')) /\ log' \in Seq(Payloads)
      BY <1>5, <3>1, RebuildLog
    <3>3. Len(log') - Len(pending') = Len(log')
      <4>1. Len(log') \in Nat /\ Len(pending') = 0
        BY <3>2, <2>1, LenProperties, EmptyLog
      <4> QED BY <4>1
    <3> QED BY <2>1, <3>2, <3>3
  <2> QED BY <2>1, <2>2
<1>6. ASSUME NEW kind \in PayloadKinds, AppendEvent(kind)
      PROVE  durable' = Cuts(log', Len(log') - Len(pending'))
  <2> DEFINE p == [n |-> drafts + 1, kind |-> kind]
             m == Len(log) - Len(pending)
  <2>1. log' = Append(log, p) /\ pending' = Append(pending, log') /\ durable' = durable /\ proc = "up"
    BY <1>6 DEF AppendEvent, EventHash
  <2>2. p \in Payloads
    BY <1>6, LedgerAssumption DEF Payloads, AppendEvent, LInv, LedgerTypeOK
  <2> HIDE DEF p
  <2>3. Len(log') = Len(log) + 1 /\ log' \in Seq(Payloads)
    BY <2>1, <2>2, <1>2, AppendProperties
  <2>4. Len(pending') = Len(pending) + 1
    <3>1. LInv'
      BY <1>6, StepAppend
    <3>2. log' \in Hashes
      BY <3>1 DEF LInv, LedgerTypeOK
    <3> QED BY <2>1, <3>2, <1>2, AppendProperties
  <2>5. Len(log') - Len(pending') = m /\ m \in 0..Len(log)
    BY <1>2, <2>3, <2>4
  <2>6. \A j \in 1..m : SubSeq(log', 1, j) = SubSeq(log, 1, j)
    <3>1. \A j \in 1..m : j \in 0..Len(log)
      BY <1>2, <2>5
    <3> HIDE DEF m
    <3> QED BY <3>1, <2>1, <2>2, <1>2, CutOfAppend
  <2> HIDE DEF m
  <2>7. Cuts(log', m) = Cuts(log, m)
    BY <2>6 DEF Cuts
  <2> QED BY <1>1, <2>1, <2>5, <2>7 DEF m
<1>7. CASE FlushNow
  <2> DEFINE m == Len(log) - Len(pending)
  <2>1. /\ proc = "up" /\ durable' = durable \cup Batch /\ log' = log /\ pending' = << >>
        /\ UNCHANGED <<proc, flights>>
    BY <1>7 DEF FlushNow, Commit
  <2>2. Len(log') - Len(pending') = Len(log)
    BY <1>2, <2>1, EmptyLog
  <2>3. Batch = {SubSeq(log, 1, m + i) : i \in 1..Len(pending)}
    BY <1>2 DEF Batch
  <2>4. m \in Nat /\ Len(log) = m + Len(pending)
    BY <1>2
  <2>5. Cuts(log, m) \cup Batch = Cuts(log, Len(log))
    <3> HIDE DEF m
    <3>1. ASSUME NEW h \in Cuts(log, m) PROVE h \in Cuts(log, Len(log))
      <4>1. PICK j \in 1..m : h = SubSeq(log, 1, j)
        BY <3>1 DEF Cuts
      <4>2. j \in 1..Len(log)
        BY <2>4, <1>2
      <4> QED BY <4>1, <4>2 DEF Cuts
    <3>2. ASSUME NEW h \in Batch PROVE h \in Cuts(log, Len(log))
      <4>1. PICK i \in 1..Len(pending) : h = SubSeq(log, 1, m + i)
        BY <3>2, <2>3
      <4>2. m + i \in 1..Len(log)
        BY <2>4, <1>2
      <4> QED BY <4>1, <4>2 DEF Cuts
    <3>3. ASSUME NEW h \in Cuts(log, Len(log)) PROVE h \in Cuts(log, m) \cup Batch
      <4>1. PICK j \in 1..Len(log) : h = SubSeq(log, 1, j)
        BY <3>3 DEF Cuts
      <4>2. CASE j <= m
        <5>1. j \in 1..m
          BY <4>2, <2>4, <1>2
        <5> QED BY <4>1, <5>1 DEF Cuts
      <4>3. CASE ~(j <= m)
        <5>1. j - m \in 1..Len(pending) /\ m + (j - m) = j
          BY <4>3, <2>4, <1>2
        <5>2. SubSeq(log, 1, j) = SubSeq(log, 1, m + (j - m))
          BY <5>1
        <5> QED BY <4>1, <5>1, <5>2, <2>3
      <4> QED BY <4>2, <4>3
    <3> QED BY <3>1, <3>2, <3>3
  <2> QED BY <1>1, <2>1, <2>2, <2>5
<1>8. CASE FlushFails
  <2>1. refusals \in Nat
    BY LedgerAssumption DEF LInv, LedgerTypeOK
  <2> QED BY <1>1, <1>8, <2>1 DEF FlushFails
<1>9. CASE FlushSends
  BY <1>1, <1>9 DEF FlushSends
<1>10. CASE Crash
  BY <1>1, <1>10 DEF Crash
<1>11. \A f \in flights : ~(Lands(f) \/ Bounces(f))
  BY <1>1
<1>12. ASSUME NEW kind \in PayloadKinds, AppendEvent(kind)
       PROVE  flights' = {} /\ proc' = "up"
  BY <1>1, <1>12 DEF AppendEvent
<1> QED BY <1>3, <1>4, <1>5, <1>6, <1>7, <1>8, <1>9, <1>10, <1>11, <1>12 DEF LedgerNext

\* The rows that are the cuts of a log of JSON payloads are read back as that
\* log.
LEMMA StoredIsCut ==
  ASSUME NEW K \in Seq(Payloads), durable = Cuts(K, Len(K)), \A i \in 1..Len(K) : K[i].kind = "json"
  PROVE  Stored = K /\ Cardinality(durable) = Len(K)
<1>1. Len(K) \in Nat /\ Len(K) \in 0..Len(K) /\ DOMAIN K = 1..Len(K) /\ K \in [1..Len(K) -> Payloads]
  BY LenProperties
<1>2. Cardinality(durable) = Len(K)
  BY <1>1, CutsCount
<1>3. InOrder(durable) = [i \in 1..Len(K) |-> SubSeq(K, 1, i)]
  BY OrderOfCuts
<1>4. ASSUME NEW i \in 1..Len(K) PROVE PayloadOf(SubSeq(K, 1, i)) = K[i]
  <2>1. i \in 0..Len(K) /\ i \in 1..i
    BY <1>1
  <2>2. Len(SubSeq(K, 1, i)) = i /\ SubSeq(K, 1, i)[i] = K[i]
    BY <2>1, Cut
  <2>3. PayloadOf(SubSeq(K, 1, i)) = [K[i] EXCEPT !.kind = "json"]
    BY <2>2 DEF PayloadOf, ReadBack
  <2>4. K[i] \in [n : 1..MaxDrafts, kind : PayloadKinds] /\ K[i].kind = "json"
    BY <1>1 DEF Payloads
  <2> QED BY <2>3, <2>4
<1>5. Stored = [i \in 1..Len(K) |-> PayloadOf(SubSeq(K, 1, i))]
  BY <1>3 DEF Stored
<1>6. Stored = [i \in 1..Len(K) |-> K[i]]
  BY <1>4, <1>5
<1>7. Stored = K
  BY <1>1, <1>6
<1> QED BY <1>2, <1>7

\* A crash of an open ledger leaves what the rows hold of its log.
LEMMA CrashCuts ==
  ASSUME LInv, Kept, Sound, proc = "up"
  PROVE  Stored = SubSeq(log, 1, Cardinality(durable))
<1> DEFINE m == Len(log) - Len(pending)
           K == SubSeq(log, 1, m)
<1>1. /\ log \in Seq(Payloads) /\ Len(log) \in Nat /\ Len(pending) \in Nat
      /\ Len(pending) <= Len(log) /\ DOMAIN log = 1..Len(log)
  BY HashesAreLogs, LenProperties DEF LInv, PendingIsTail, LedgerTypeOK
<1>2. m \in 0..Len(log) /\ durable = Cuts(log, m)
  BY <1>1 DEF Kept
<1> HIDE DEF m
<1>3. K \in Seq(Payloads) /\ Len(K) = m /\ \A i \in 1..m : K[i] = log[i]
  BY <1>1, <1>2, Cut
<1>4. durable = Cuts(K, Len(K))
  <2>1. \A j \in 1..m : j \in 0..m
    BY <1>1, <1>2
  <2>2. \A j \in 1..m : SubSeq(K, 1, j) = SubSeq(log, 1, j)
    BY <2>1, <1>1, <1>2, CutOfCut
  <2> HIDE DEF K
  <2>3. Cuts(K, m) = Cuts(log, m)
    BY <2>2 DEF Cuts
  <2> QED BY <1>2, <1>3, <2>3
<1>5. \A i \in 1..Len(K) : K[i].kind = "json"
  <2>1. \A i \in DOMAIN log : log[i].kind = "json"
    BY DEF LInv, Held, Sound
  <2>2. \A i \in 1..m : i \in DOMAIN log
    BY <1>1, <1>2
  <2> HIDE DEF K
  <2> QED BY <1>3, <2>1, <2>2
<1> HIDE DEF K
<1>6. Stored = K /\ Cardinality(durable) = m
  BY <1>3, <1>4, <1>5, StoredIsCut
<1> QED BY <1>6 DEF K

\* The ledger starts as the executor expects it: empty.
LEMMA InitPromised == LedgerInit => Promised!Start
<1> SUFFICES ASSUME LedgerInit PROVE Promised!Start
  OBVIOUS
<1>1. proc = "down" /\ durable = {} /\ Cardinality(durable) = 0
  BY FS_EmptySet DEF LedgerInit
<1>2. DOMAIN InOrder(durable) = {}
  <2>1. InOrder(durable) = [i \in 1..0 |-> CHOOSE h \in durable :
                                          Cardinality({x \in durable : Len(x) < Len(h)}) = i - 1]
    BY <1>1 DEF InOrder
  <2> QED BY <2>1
<1>3. Stored = << >>
  BY <1>2 DEF Stored
<1> QED BY <1>1, <1>3 DEF Promised!Start, Stored

\* Every step of a sound store is one the executor was promised, or none that
\* it sees.
LEMMA StepPromised ==
  ASSUME LInv, Kept, [LedgerNext]_ledgerVars
  PROVE  [Promised!Promise]_(Promised!logVars)
<1>1. LInv' /\ Kept'
  BY StepLInv, StepKept
<1>2. CASE ~Sound'
  BY <1>2 DEF Promised!Promise, Promised!Betrayed, Sound
<1>3. CASE Sound'
  <2>1. Sound /\ Sound'
    BY <1>3, SoundBefore
  <2> DEFINE Stutters == Seen' = Seen /\ Cardinality(durable)' = Cardinality(durable)
             Grows == /\ \E p \in Payloads : Seen' = Append(Seen, p)
                      /\ Cardinality(durable)' = Cardinality(durable)
             Persists == Cardinality(durable)' = Len(Seen) /\ Seen' = Seen
             IsCut == /\ Seen' = SubSeq(Seen, 1, Cardinality(durable))
                      /\ Cardinality(durable)' = Cardinality(durable)
  <2>2. SUFFICES Stutters \/ Grows \/ Persists \/ IsCut
    BY <2>1 DEF Promised!Promise, Promised!logVars, Promised!Grow, Promised!Persist, Promised!Cut,
                Sound, Seen, Stored
  <2>3. /\ flights = {} /\ store = "sqlite" /\ refusals' = 0
        /\ proc = "up" => durable = Cuts(log, Len(log) - Len(pending))
        /\ proc = "reading" => snap = durable
    BY <2>1 DEF Kept, Sound
  <2>4. CASE UNCHANGED ledgerVars \/ ReadAll
    <3>1. durable' = durable /\ log' = log /\ (proc' = "up" <=> proc = "up")
      BY <2>4 DEF ledgerVars, ReadAll
    <3> QED BY <3>1 DEF Seen, Stored
  <2>5. CASE Rebuild
    <3>1. durable' = durable /\ Stored' = Stored /\ Seen = Stored
      BY <2>5 DEF Rebuild, Seen, Stored
    <3>2. CASE VerifyChain(InOrder(snap))
      <4>1. log' = Stored /\ proc' = "up"
        BY <2>3, <2>5, <3>2 DEF Rebuild, Stored
      <4> QED BY <3>1, <4>1 DEF Seen
    <3>3. CASE ~VerifyChain(InOrder(snap))
      BY <2>5, <3>1, <3>3 DEF Rebuild, Seen
    <3> QED BY <3>2, <3>3
  <2>6. ASSUME NEW kind \in PayloadKinds, AppendEvent(kind) PROVE Grows
    <3>1. [n |-> drafts + 1, kind |-> kind] \in Payloads
      BY <2>6, LedgerAssumption DEF Payloads, AppendEvent, LInv, LedgerTypeOK
    <3>2. /\ log' = Append(log, [n |-> drafts + 1, kind |-> kind])
          /\ proc = "up" /\ proc' = "up" /\ durable' = durable
      BY <2>6 DEF AppendEvent, EventHash
    <3> QED BY <3>1, <3>2 DEF Seen
  <2>7. CASE FlushNow
    <3>1. /\ proc = "up" /\ proc' = "up" /\ log' = log /\ pending' = << >>
      BY <2>7 DEF FlushNow
    <3>2. log \in Seq(Payloads) /\ Len(log) \in Nat /\ Len(log) \in 0..Len(log)
      BY HashesAreLogs, LenProperties DEF LInv, LedgerTypeOK
    <3>3. durable' = Cuts(log, Len(log))
      <4>1. durable' = Cuts(log', Len(log') - Len(pending'))
        BY <1>1, <2>1, <3>1 DEF Kept
      <4>2. Len(log') - Len(pending') = Len(log)
        BY <3>1, <3>2, EmptyLog
      <4> QED BY <3>1, <4>1, <4>2
    <3>4. Cardinality(durable') = Len(log)
      BY <3>2, <3>3, CutsCount
    <3> QED BY <3>1, <3>4 DEF Seen
  <2>8. CASE FlushFails
    <3>1. refusals \in Nat
      BY LedgerAssumption DEF LInv, LedgerTypeOK
    <3> QED BY <2>3, <2>8, <3>1 DEF FlushFails
  <2>9. CASE FlushSends
    BY <2>3, <2>9 DEF FlushSends
  <2>10. CASE Crash
    <3>1. durable' = durable /\ proc' = "down" /\ Stored' = Stored /\ Seen' = Stored
      BY <2>10 DEF Crash, Stored, Seen
    <3>2. CASE proc = "up"
      <4>1. Seen = log /\ Stored = SubSeq(log, 1, Cardinality(durable))
        BY <2>1, <3>2, CrashCuts DEF Seen
      <4> QED BY <3>1, <4>1
    <3>3. CASE proc # "up"
      BY <3>1, <3>3 DEF Seen
    <3> QED BY <3>2, <3>3
  <2>11. \A f \in flights : ~(Lands(f) \/ Bounces(f))
    BY <2>3
  <2> HIDE DEF Stutters, Grows, Persists, IsCut
  <2> QED BY <2>4, <2>5, <2>6, <2>7, <2>8, <2>9, <2>10, <2>11 DEF LedgerNext, Stutters
<1> QED BY <1>2, <1>3

\* On SQLite, with no refused transaction and payloads that JSON keeps, the
\* durable ledger is what the executor takes it for: flush() makes the log
\* stable, and a crash cuts it back to what was stable (durable-ledger.ts:32-63).
THEOREM LedgerKeepsPromise == LedgerSpec => EventLogHolds
<1>1. LedgerInit => Kept
  BY DEF LedgerInit, Kept
<1>2. LedgerSpec => [](LInv /\ Kept)
  BY <1>1, InitLInv, StepLInv, StepKept, PTL DEF LedgerSpec
<1> QED BY <1>2, InitPromised, StepPromised, PTL DEF LedgerSpec, EventLogHolds, Promised!LogSpec
=============================================================================
