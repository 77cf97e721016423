---------------------------- MODULE TxPoolProofs ----------------------------
(***************************************************************************)
(* Proofs about the transaction pool, for any transactions, prices, nonces *)
(* and limits.                                                             *)
(***************************************************************************)
EXTENDS TxPool, FiniteSetTheorems, TLAPS

\* The sizes of intervals.
LEMMA FirstNaturals ==
    ASSUME NEW n \in Nat
    PROVE  IsFiniteSet(1 .. n) /\ Cardinality(1 .. n) = n
BY FS_Interval

LEMMA ShortInterval ==
    ASSUME NEW a \in Nat, NEW b \in Nat, NEW m \in Nat, b <= a + m
    PROVE  /\ IsFiniteSet(a + 1 .. b)
           /\ Cardinality(a + 1 .. b) \in Nat
           /\ Cardinality(a + 1 .. b) <= m
<1>1. /\ IsFiniteSet(a + 1 .. b)
      /\ Cardinality(a + 1 .. b) = IF a + 1 > b THEN 0 ELSE b - (a + 1) + 1
  <2>1. a + 1 \in Int /\ b \in Int
    OBVIOUS
  <2> QED
    BY <2>1, FS_Interval
<1> QED
  BY <1>1

\* A part of a list holds what the list has at its positions.
LEMMA PartOfList ==
    ASSUME NEW S, NEW s \in Seq(S), NEW m \in Nat \ {0}, NEW n \in Nat, n <= Len(s)
    PROVE  /\ SubSeq(s, m, n) \in Seq(S)
           /\ Len(SubSeq(s, m, n)) = IF m <= n THEN n - m + 1 ELSE 0
           /\ \A i \in 1 .. n - m + 1 : SubSeq(s, m, n)[i] = s[m + i - 1]
           /\ Range(SubSeq(s, m, n)) = {s[i] : i \in m .. n}
<1>1. \A i \in m .. n : s[i] \in S
  OBVIOUS
<1>2. /\ SubSeq(s, m, n) \in Seq(S)
      /\ Len(SubSeq(s, m, n)) = IF m <= n THEN n - m + 1 ELSE 0
      /\ \A i \in 1 .. n - m + 1 : SubSeq(s, m, n)[i] = s[m + i - 1]
  BY <1>1
<1>3. DOMAIN SubSeq(s, m, n) = 1 .. n - m + 1
  BY <1>2
<1>4. ASSUME NEW x \in Range(SubSeq(s, m, n)) PROVE x \in {s[i] : i \in m .. n}
  <2>1. PICK i \in 1 .. n - m + 1 : x = SubSeq(s, m, n)[i]
    BY <1>3 DEF Range
  <2>2. x = s[m + i - 1] /\ m + i - 1 \in m .. n
    BY <1>2, <2>1
  <2> QED
    BY <2>2
<1>5. ASSUME NEW i \in m .. n PROVE s[i] \in Range(SubSeq(s, m, n))
  <2>1. i - m + 1 \in 1 .. n - m + 1 /\ m + (i - m + 1) - 1 = i
    OBVIOUS
  <2>2. SubSeq(s, m, n)[i - m + 1] = s[i]
    BY <1>2, <2>1
  <2> QED
    BY <1>3, <2>1, <2>2 DEF Range
<1> QED
  BY <1>2, <1>4, <1>5

LEMMA FrontOfList ==
    ASSUME NEW S, NEW s \in Seq(S), NEW n \in Nat, n <= Len(s)
    PROVE  Range(SubSeq(s, 1, n)) = {s[i] : i \in 1 .. n}
<1>1. 1 \in Nat \ {0}
  OBVIOUS
<1> QED
  BY <1>1, PartOfList

\* A list has at least as many entries as different members.
LEMMA MembersOfList ==
    ASSUME NEW S, NEW s \in Seq(S)
    PROVE  /\ Range(s) \in SUBSET S
           /\ IsFiniteSet(Range(s))
           /\ Cardinality(Range(s)) <= Len(s)
<1>1. s \in [1 .. Len(s) -> S] /\ Len(s) \in Nat /\ DOMAIN s = 1 .. Len(s)
  OBVIOUS
<1>2. s \in Surjection(1 .. Len(s), Range(s))
  BY <1>1 DEF Surjection, Range
<1>3. IsFiniteSet(1 .. Len(s)) /\ Cardinality(1 .. Len(s)) = Len(s)
  BY <1>1, FirstNaturals
<1>4. IsFiniteSet(Range(s)) /\ Cardinality(Range(s)) <= Len(s)
  BY <1>2, <1>3, FS_Surjection
<1> QED
  BY <1>1, <1>4 DEF Range

\* A list without repetitions
Different(list) == \A i, j \in 1 .. Len(list) : i # j => list[i] # list[j]

\* The transactions of q from a that are not processed, each of them once
ListFrom(a, q, state, list) ==
    /\ list \in Seq(Tx)
    /\ \A i \in 1 .. Len(list) :
          list[i] \in q /\ From[list[i]] = a /\ Nonce[list[i]] >= state[a]
    /\ Different(list)
    /\ \A t \in q : From[t] = a /\ Nonce[t] >= state[a] =>
          \E i \in 1 .. Len(list) : list[i] = t

\* The list checkQueue makes for an address has each of its transactions once.
LEMMA ListOfAddress ==
    ASSUME NEW q \in SUBSET Tx, NEW state, NEW s \in SortedLists(q, state),
           NEW a \in Addr
    PROVE  ListFrom(a, q, state, s[a])
<1> DEFINE own == {t \in q : From[t] = a /\ Nonce[t] >= state[a]}
           n == Cardinality(own)
<1>1. s[a] \in Bijection(1 .. n, own)
  BY DEF SortedLists, SortedQueues
<1>2. IsFiniteSet(own) /\ n \in Nat
  BY TxPoolAssumption, FS_Subset, FS_CardinalityType
<1>3. /\ s[a] \in [1 .. n -> own]
      /\ \A i, j \in 1 .. n : i # j => s[a][i] # s[a][j]
  BY <1>1, Zenon DEF Bijection, Injection, IsInjective
<1>8. \A t \in own : \E i \in 1 .. n : s[a][i] = t
  BY <1>1 DEF Bijection, Surjection
<1> HIDE DEF n
<1> HIDE DEF own
<1>4. /\ own \in SUBSET Tx
      /\ \A t \in own : t \in q /\ From[t] = a /\ Nonce[t] >= state[a]
      /\ \A t \in q : From[t] = a /\ Nonce[t] >= state[a] => t \in own
  BY DEF own
<1>5. s[a] \in [1 .. n -> Tx]
  BY <1>3, <1>4
<1>6. s[a] \in Seq(Tx) /\ Len(s[a]) = n
  BY <1>2, <1>5
<1> QED
  BY <1>3, <1>4, <1>6, <1>8 DEF ListFrom, Different

\* The positions checkQueue moves are before those it keeps, and it keeps at
\* most maxQueued.
LEMMA Positions ==
    ASSUME NEW s \in Seq(Tx), NEW guessed
    PROVE  /\ ReadyIn(s, guessed) \in 0 .. Len(s)
           /\ MovedIn(s, guessed) \in 0 .. ReadyIn(s, guessed)
           /\ \E last \in Nat :
                 /\ last <= Len(s)
                 /\ last <= ReadyIn(s, guessed) + MaxQueued
                 /\ ReadyIn(s, guessed) <= MaxQueued =>
                       last = SmallerOf(ReadyIn(s, guessed) + MaxQueued, Len(s))
                 /\ Range(KeptIn(s, guessed)) =
                       {s[i] : i \in ReadyIn(s, guessed) + 1 .. last}
<1> DEFINE k == ReadyIn(s, guessed)
           front == {i \in DOMAIN s : Nonce[s[i]] <= guessed}
<1>1. Len(s) \in Nat /\ DOMAIN s = 1 .. Len(s)
  OBVIOUS
<1>2. IsFiniteSet(1 .. Len(s)) /\ Cardinality(1 .. Len(s)) = Len(s)
  BY <1>1, FirstNaturals
<1>3. front \in SUBSET (1 .. Len(s))
  BY <1>1
<1>4. Cardinality(front) \in Nat /\ Cardinality(front) <= Len(s)
  BY <1>2, <1>3, FS_Subset, FS_CardinalityType
<1>5. k \in 0 .. Len(s)
  BY <1>1, <1>4 DEF ReadyIn
<1> HIDE DEF k
<1>6. MaxQueued \in Nat
  BY TxPoolAssumption
<1>7. MovedIn(s, guessed) \in 0 .. k
  BY <1>5, <1>6 DEF MovedIn, SmallerOf, k
<1>8. \E last \in Nat :
         /\ last <= Len(s) /\ last <= k + MaxQueued
         /\ k <= MaxQueued => last = SmallerOf(k + MaxQueued, Len(s))
         /\ Range(KeptIn(s, guessed)) = {s[i] : i \in k + 1 .. last}
  <2>1. CASE k > MaxQueued
    <3>1. KeptIn(s, guessed) = << >>
      BY <2>1 DEF KeptIn, k
    <3>2. Range(<< >>) = {}
      BY DEF Range
    <3>3. k + 1 .. 0 = {}
      BY <1>5
    <3>4. Range(KeptIn(s, guessed)) = {s[i] : i \in k + 1 .. 0}
      BY <3>1, <3>2, <3>3
    <3> QED
      BY <2>1, <3>4, <1>1, <1>5, <1>6
  <2>2. CASE ~ (k > MaxQueued)
    <3> DEFINE last == SmallerOf(k + MaxQueued, Len(s))
    <3>1. last \in Nat /\ last <= Len(s) /\ last <= k + MaxQueued
      BY <1>1, <1>5, <1>6 DEF SmallerOf
    <3>5. last = SmallerOf(k + MaxQueued, Len(s))
      OBVIOUS
    <3>2. KeptIn(s, guessed) = SubSeq(s, k + 1, last)
      BY <2>2, Zenon DEF KeptIn, k
    <3> HIDE DEF last
    <3>3. k + 1 \in Nat \ {0}
      BY <1>5
    <3>4. Range(SubSeq(s, k + 1, last)) = {s[i] : i \in k + 1 .. last}
      BY <3>1, <3>3, PartOfList
    <3> QED
      BY <3>1, <3>2, <3>4, <3>5
  <2> QED
    BY <2>1, <2>2
<1> QED
  BY <1>5, <1>7, <1>8 DEF k

\* checkQueue takes what it moves and what it keeps from the queue, does not do
\* both with a transaction, and keeps at most maxQueued for an address.
Divides(q, n, s) ==
    /\ MovedBy(n, s) \in SUBSET q
    /\ KeptBy(n, s) \in SUBSET q
    /\ MovedBy(n, s) \cap KeptBy(n, s) = {}
    /\ \A a \in Addr : Cardinality({t \in KeptBy(n, s) : From[t] = a}) <= MaxQueued

LEMMA CheckQueueSets ==
    ASSUME NEW q \in SUBSET Tx, NEW state, NEW n, NEW s \in SortedLists(q, state)
    PROVE  Divides(q, n, s)
<1> DEFINE moved(a) == Range(SubSeq(s[a], 1, MovedIn(s[a], n[a])))
           kept(a) == Range(KeptIn(s[a], n[a]))
           k(a) == ReadyIn(s[a], n[a])
<1>1. ASSUME NEW a \in Addr
      PROVE  /\ moved(a) \in SUBSET q /\ \A t \in moved(a) : From[t] = a
             /\ kept(a) \in SUBSET q /\ \A t \in kept(a) : From[t] = a
             /\ moved(a) \cap kept(a) = {}
             /\ Cardinality(kept(a)) <= MaxQueued
  <2> DEFINE l == s[a]
             r == k(a)
             e == MovedIn(s[a], n[a])
  <2>1. /\ l \in Seq(Tx)
        /\ \A i \in 1 .. Len(l) : l[i] \in q /\ From[l[i]] = a
        /\ \A i, j \in 1 .. Len(l) : i # j => l[i] # l[j]
    <3>1. ListFrom(a, q, state, s[a])
      BY ListOfAddress
    <3> QED
      BY <3>1 DEF ListFrom, Different
  <2>2. Len(l) \in Nat /\ MaxQueued \in Nat
    BY <2>1, TxPoolAssumption
  <2>3. r \in 0 .. Len(l) /\ e \in 0 .. r
    BY <2>1, Positions
  <2>4. PICK last \in Nat : /\ last <= Len(l) /\ last <= r + MaxQueued
                            /\ kept(a) = {l[i] : i \in r + 1 .. last}
    BY <2>1, Positions
  <2> HIDE DEF l, r, e
  <2>5. Range(SubSeq(l, 1, e)) = {l[i] : i \in 1 .. e}
    <3>1. e \in Nat /\ e <= Len(l)
      BY <2>2, <2>3
    <3> QED
      BY <2>1, <3>1, FrontOfList
  <2>6. moved(a) = {l[i] : i \in 1 .. e}
    BY <2>5 DEF l, e
  <2> HIDE DEF moved, kept
  <2>7. moved(a) \in SUBSET q /\ \A t \in moved(a) : From[t] = a
    BY <2>1, <2>2, <2>3, <2>6
  <2>8. kept(a) \in SUBSET q /\ \A t \in kept(a) : From[t] = a
    BY <2>1, <2>2, <2>3, <2>4
  <2>9. ASSUME NEW t \in moved(a), t \in kept(a) PROVE FALSE
    <3>1. PICK i \in 1 .. e : t = l[i]
      BY <2>6
    <3>2. PICK j \in r + 1 .. last : t = l[j]
      BY <2>4, <2>9
    <3>3. i \in 1 .. Len(l) /\ j \in 1 .. Len(l) /\ i # j
      BY <2>2, <2>3, <2>4
    <3> QED
      BY <2>1, <3>1, <3>2, <3>3, Zenon
  <2>10. Cardinality(kept(a)) <= MaxQueued
    <3> DEFINE f == [i \in r + 1 .. last |-> l[i]]
    <3>1. f \in Surjection(r + 1 .. last, kept(a))
      BY <2>4 DEF Surjection
    <3>2. IsFiniteSet(r + 1 .. last) /\ Cardinality(r + 1 .. last) <= MaxQueued
          /\ Cardinality(r + 1 .. last) \in Nat
      <4>1. r \in Nat /\ last \in Nat
        BY <2>2, <2>3
      <4> QED
        BY <4>1, <2>2, <2>4, ShortInterval
    <3> HIDE DEF f
    <3>3. IsFiniteSet(kept(a)) /\ Cardinality(kept(a)) <= Cardinality(r + 1 .. last)
      BY <3>1, <3>2, FS_Surjection
    <3>4. Cardinality(kept(a)) \in Nat
      BY <3>3, FS_CardinalityType
    <3> QED
      BY <2>2, <3>2, <3>3, <3>4
  <2> QED
    BY <2>7, <2>8, <2>9, <2>10
<1>2. /\ MovedBy(n, s) = UNION {moved(a) : a \in Addr}
      /\ KeptBy(n, s) = UNION {kept(a) : a \in Addr}
  BY DEF MovedBy, KeptBy
<1> HIDE DEF moved, kept
<1>3. MovedBy(n, s) \in SUBSET q /\ KeptBy(n, s) \in SUBSET q
  BY <1>1, <1>2
<1>4. ASSUME NEW t \in MovedBy(n, s), t \in KeptBy(n, s) PROVE FALSE
  <2>1. PICK a \in Addr : t \in moved(a)
    BY <1>2
  <2>2. PICK b \in Addr : t \in kept(b)
    BY <1>2, <1>4
  <2>3. a = b
    BY <1>1, <2>1, <2>2
  <2> QED
    BY <1>1, <2>1, <2>2, <2>3
<1>5. ASSUME NEW a \in Addr
      PROVE  Cardinality({t \in KeptBy(n, s) : From[t] = a}) <= MaxQueued
  <2>1. {t \in KeptBy(n, s) : From[t] = a} = kept(a)
    BY <1>1, <1>2
  <2> QED
    BY <1>1, <2>1
<1> QED
  BY <1>3, <1>4, <1>5 DEF Divides

\* What checkQueue moves is not processed.
LEMMA MovedOnesValid ==
    ASSUME NEW q \in SUBSET Tx, NEW state, NEW n, NEW s \in SortedLists(q, state),
           NEW t \in MovedBy(n, s)
    PROVE  Nonce[t] >= state[From[t]]
<1>1. PICK a \in Addr : t \in Range(SubSeq(s[a], 1, MovedIn(s[a], n[a])))
  BY DEF MovedBy
<1> DEFINE l == s[a]
           e == MovedIn(s[a], n[a])
<1>2. ListFrom(a, q, state, l)
  BY ListOfAddress, Zenon
<1>3. l \in Seq(Tx) /\ Len(l) \in Nat
  BY <1>2 DEF ListFrom
<1>4. e \in Nat /\ e <= Len(l)
  BY <1>3, Positions
<1> HIDE DEF l, e
<1>5. Range(SubSeq(l, 1, e)) = {l[i] : i \in 1 .. e}
  BY <1>3, <1>4, FrontOfList
<1>6. PICK i \in 1 .. e : t = l[i]
  BY <1>1, <1>5 DEF l, e
<1>7. i \in 1 .. Len(l)
  BY <1>3, <1>4
<1> QED
  BY <1>2, <1>6, <1>7 DEF ListFrom

\* A part of a list without repetitions has as many members as positions.
LEMMA MembersOfPart ==
    ASSUME NEW l \in Seq(Tx), NEW a \in Nat, NEW b \in Nat, a <= b, b <= Len(l),
           Different(l)
    PROVE  Cardinality({l[i] : i \in a + 1 .. b}) = b - a
<1> DEFINE P == a + 1 .. b
           T == {l[i] : i \in P}
           f == [i \in P |-> l[i]]
<1>1. IsFiniteSet(P) /\ Cardinality(P) = b - a
  <2>1. /\ IsFiniteSet(a + 1 .. b)
        /\ Cardinality(a + 1 .. b) = IF a + 1 > b THEN 0 ELSE b - (a + 1) + 1
    <3>1. a + 1 \in Int /\ b \in Int
      OBVIOUS
    <3> QED
      BY <3>1, FS_Interval
  <2> QED
    BY <2>1
<1>2. \A i \in P : i \in 1 .. Len(l)
  OBVIOUS
<1>3. f \in Surjection(P, T)
  BY DEF Surjection
<1>4. f \in Injection(P, T)
  BY <1>2 DEF Injection, IsInjective, Different
<1> HIDE DEF P, T, f
<1>5. Cardinality(T) = Cardinality(P)
  BY <1>1, <1>3, <1>4, FS_Surjection
<1> QED
  BY <1>1, <1>5 DEF P, T

\* A transaction that checkQueue neither moves nor keeps is beyond the limit:
\* its sender has maxQueued others waiting, or more than that were moved.
Crowded(n, s, a) ==
    \/ Cardinality({u \in KeptBy(n, s) : From[u] = a}) = MaxQueued
    \/ Cardinality({u \in MovedBy(n, s) : From[u] = a}) > MaxQueued

LEMMA LostOnes ==
    ASSUME NEW q \in SUBSET Tx, NEW state, NEW n, NEW s \in SortedLists(q, state),
           NEW t \in q, Nonce[t] >= state[From[t]],
           t \notin MovedBy(n, s), t \notin KeptBy(n, s)
    PROVE  Crowded(n, s, From[t])
<1> DEFINE a == From[t]
           l == s[a]
           k == ReadyIn(s[a], n[a])
           e == MovedIn(s[a], n[a])
<1>1. a \in Addr
  BY TxPoolAssumption
<1>2. /\ MovedBy(n, s) = UNION {Range(SubSeq(s[b], 1, MovedIn(s[b], n[b]))) : b \in Addr}
      /\ KeptBy(n, s) = UNION {Range(KeptIn(s[b], n[b])) : b \in Addr}
  BY DEF MovedBy, KeptBy
<1>3. \A b \in Addr : ListFrom(b, q, state, s[b])
  BY ListOfAddress
<1>4. ListFrom(a, q, state, l)
  BY <1>1, <1>3
<1>5. Len(l) \in Nat /\ MaxQueued \in Nat /\ l \in Seq(Tx) /\ Different(l)
  BY <1>4, TxPoolAssumption DEF ListFrom
<1>6. k \in 0 .. Len(l) /\ e \in 0 .. k /\ e = SmallerOf(k, MaxQueued + 1)
  BY <1>5, Positions DEF MovedIn
<1>7. PICK last \in Nat : /\ last <= Len(l)
                          /\ k <= MaxQueued => last = SmallerOf(k + MaxQueued, Len(l))
                          /\ Range(KeptIn(l, n[a])) = {l[i] : i \in k + 1 .. last}
  BY <1>5, Positions, Zenon
<1>8. Range(SubSeq(l, 1, e)) = {l[i] : i \in 1 .. e}
  <2>1. e \in Nat /\ e <= Len(l)
    BY <1>5, <1>6
  <2> HIDE DEF l, e
  <2> QED
    BY <1>5, <2>1, FrontOfList
<1>9. {l[i] : i \in 1 .. e} \in SUBSET MovedBy(n, s)
  BY <1>1, <1>2, <1>8
<1>10. {l[i] : i \in k + 1 .. last} \in SUBSET KeptBy(n, s)
  BY <1>1, <1>2, <1>7
<1>11. Divides(q, n, s)
  BY CheckQueueSets
<1>12. PICK i \in 1 .. Len(l) : l[i] = t
  BY <1>4 DEF ListFrom
<1> HIDE DEF l, k, e
<1>13. i > e /\ ~ (i \in k + 1 .. last)
  BY <1>5, <1>6, <1>9, <1>10, <1>12
<1>14. CASE k > MaxQueued
  <2> DEFINE M == {l[j] : j \in 1 .. e}
             U == {u \in MovedBy(n, s) : From[u] = a}
  <2>1. e = MaxQueued + 1
    BY <1>5, <1>6, <1>14 DEF SmallerOf
  <2>2. Cardinality(M) = e
    <3>1. 0 \in Nat /\ e \in Nat /\ 0 <= e /\ e <= Len(l) /\ e - 0 = e
      BY <1>5, <1>6
    <3>2. Cardinality({l[j] : j \in 0 + 1 .. e}) = e - 0
      BY <1>5, <3>1, MembersOfPart, Zenon
    <3>3. 0 + 1 .. e = 1 .. e
      OBVIOUS
    <3> QED
      BY <3>1, <3>2, <3>3
  <2>3. M \in SUBSET U
    <3>1. \A j \in 1 .. e : From[l[j]] = a
      BY <1>4, <1>5, <1>6 DEF ListFrom
    <3> QED
      BY <1>9, <3>1
  <2>4. IsFiniteSet(U)
    <3>1. U \in SUBSET Tx
      BY <1>11 DEF Divides
    <3> QED
      BY <3>1, TxPoolAssumption, FS_Subset
  <2> HIDE DEF M, U
  <2>5. Cardinality(M) <= Cardinality(U) /\ Cardinality(U) \in Nat
    BY <2>3, <2>4, FS_Subset, FS_CardinalityType
  <2>6. Cardinality(U) > MaxQueued
    BY <1>5, <2>1, <2>2, <2>5
  <2> QED
    BY <2>6 DEF U, Crowded
<1>15. CASE ~ (k > MaxQueued)
  <2> DEFINE K == {l[j] : j \in k + 1 .. last}
             U == {u \in KeptBy(n, s) : From[u] = a}
  <2>1. e = k
    BY <1>5, <1>6, <1>15 DEF SmallerOf
  <2>2. last = k + MaxQueued
    <3>1. last = SmallerOf(k + MaxQueued, Len(l))
      BY <1>5, <1>6, <1>7, <1>15
    <3> QED
      BY <1>5, <1>6, <1>13, <2>1, <3>1 DEF SmallerOf
  <2>3. Cardinality(K) = MaxQueued
    <3>1. k \in Nat /\ last \in Nat /\ k <= last /\ last <= Len(l) /\ last - k = MaxQueued
      BY <1>5, <1>6, <1>7, <2>2
    <3>2. Cardinality(K) = last - k
      BY <1>5, <3>1, MembersOfPart
    <3> QED
      BY <3>1, <3>2
  <2>4. K \in SUBSET U
    <3>1. \A j \in k + 1 .. last : From[l[j]] = a
      BY <1>4, <1>5, <1>6, <1>7 DEF ListFrom
    <3> QED
      BY <1>10, <3>1
  <2>5. IsFiniteSet(U)
    <3>1. U \in SUBSET Tx
      BY <1>11 DEF Divides
    <3> QED
      BY <3>1, TxPoolAssumption, FS_Subset
  <2>6. Cardinality(U) <= MaxQueued
    BY <1>1, <1>11 DEF Divides
  <2> HIDE DEF K, U
  <2>7. Cardinality(K) <= Cardinality(U) /\ Cardinality(U) \in Nat
    BY <2>4, <2>5, FS_Subset, FS_CardinalityType
  <2>8. Cardinality(U) = MaxQueued
    BY <1>5, <2>3, <2>6, <2>7
  <2> QED
    BY <2>8 DEF U, Crowded
<1> QED
  BY <1>14, <1>15

-----------------------------------------------------------------------------
\* A list that falls in price.
Falling(list) ==
    \A i, j \in DOMAIN list : i < j => Price[list[i]] >= Price[list[j]]

\* The elements of two lists put one after the other.
LEMMA TwoLists ==
    ASSUME NEW S, NEW u \in Seq(S), NEW v \in Seq(S)
    PROVE  /\ u \o v \in Seq(S) /\ Len(u \o v) = Len(u) + Len(v)
           /\ \A i \in 1 .. Len(u) + Len(v) :
                (u \o v)[i] = IF i <= Len(u) THEN u[i] ELSE v[i - Len(u)]
OBVIOUS

\* addPriced adds the transaction to the list, loses none and keeps its order.
LEMMA InsertionFacts ==
    ASSUME NEW list \in Seq(Tx), Falling(list), NEW tx \in Tx,
           NEW new \in Insertions(list, tx)
    PROVE  /\ new \in Seq(Tx)
           /\ Range(list) \cup {tx} \in SUBSET Range(new)
           /\ Falling(new)
<1> DEFINE n == Len(list)
<1>1. n \in Nat /\ DOMAIN list = 1 .. n /\ \A i \in 1 .. n : list[i] \in Tx
  OBVIOUS
<1>2. PICK k \in 1 .. n + 1 :
         /\ \A j \in 1 .. k - 1 : Price[list[j]] >= Price[tx]
         /\ \A j \in k .. n : Price[list[j]] <= Price[tx]
         /\ new = SubSeq(list, 1, k - 1) \o <<tx>> \o SubSeq(list, k, Len(list))
  BY Zenon DEF Insertions
<1> DEFINE front == SubSeq(list, 1, k - 1)
           back == SubSeq(list, k, n)
<1>3. /\ front \in Seq(Tx) /\ Len(front) = k - 1
      /\ \A i \in 1 .. k - 1 : front[i] = list[i]
  <2>1. k - 1 \in Nat /\ k - 1 <= Len(list) /\ 1 \in Nat \ {0}
    BY <1>1, <1>2
  <2>2. /\ front \in Seq(Tx)
        /\ Len(front) = IF 1 <= k - 1 THEN (k - 1) - 1 + 1 ELSE 0
        /\ \A i \in 1 .. (k - 1) - 1 + 1 : front[i] = list[1 + i - 1]
    BY <2>1, PartOfList
  <2> QED
    BY <1>2, <2>1, <2>2
<1>4. /\ back \in Seq(Tx) /\ Len(back) = n - k + 1
      /\ \A i \in 1 .. n - k + 1 : back[i] = list[k + i - 1]
  <2>1. k \in Nat \ {0} /\ n \in Nat /\ n <= Len(list)
    BY <1>1, <1>2
  <2>2. /\ back \in Seq(Tx)
        /\ Len(back) = IF k <= n THEN n - k + 1 ELSE 0
        /\ \A i \in 1 .. n - k + 1 : back[i] = list[k + i - 1]
    BY <2>1, PartOfList
  <2> QED
    BY <1>2, <2>1, <2>2
<1>5. new = (front \o <<tx>>) \o back
  BY <1>2
<1>pos. /\ k \in Int /\ 1 <= k /\ k <= n + 1 /\ n \in Nat
        /\ \A j \in 1 .. k - 1 : Price[list[j]] >= Price[tx]
        /\ \A j \in k .. n : Price[list[j]] <= Price[tx]
  BY <1>1, <1>2
<1> HIDE DEF front, back, n
<1>6. <<tx>> \in Seq(Tx) /\ Len(<<tx>>) = 1 /\ <<tx>>[1] = tx
  OBVIOUS
<1>7. /\ front \o <<tx>> \in Seq(Tx) /\ Len(front \o <<tx>>) = k
      /\ \A i \in 1 .. k : (front \o <<tx>>)[i] = IF i <= k - 1 THEN front[i] ELSE tx
  <2>1. /\ front \o <<tx>> \in Seq(Tx)
        /\ Len(front \o <<tx>>) = Len(front) + Len(<<tx>>)
        /\ \A i \in 1 .. Len(front) + Len(<<tx>>) : (front \o <<tx>>)[i] =
              IF i <= Len(front) THEN front[i] ELSE <<tx>>[i - Len(front)]
    BY <1>3, <1>6, TwoLists, Zenon
  <2> QED
    BY <1>pos, <1>3, <1>6, <2>1
<1>8. /\ new \in Seq(Tx) /\ Len(new) = n + 1
      /\ \A i \in 1 .. n + 1 : new[i] =
            IF i < k THEN list[i] ELSE IF i = k THEN tx ELSE list[i - 1]
  <2> DEFINE h == front \o <<tx>>
  <2>1. h \in Seq(Tx) /\ Len(h) = k
        /\ \A i \in 1 .. k : h[i] = IF i <= k - 1 THEN front[i] ELSE tx
    BY <1>7
  <2>2. new = h \o back
    BY <1>5
  <2> HIDE DEF h
  <2>3. /\ h \o back \in Seq(Tx)
        /\ Len(h \o back) = Len(h) + Len(back)
        /\ \A i \in 1 .. Len(h) + Len(back) :
              (h \o back)[i] = IF i <= Len(h) THEN h[i] ELSE back[i - Len(h)]
    BY <1>4, <2>1, TwoLists, Zenon
  <2>4. Len(new) = n + 1
    BY <1>pos, <1>4, <2>1, <2>2, <2>3
  <2>5. ASSUME NEW i \in 1 .. n + 1
        PROVE  new[i] = IF i < k THEN list[i] ELSE IF i = k THEN tx ELSE list[i - 1]
    <3>1. new[i] = IF i <= k THEN h[i] ELSE back[i - k]
      <4>1. i \in 1 .. Len(h) + Len(back)
        BY <1>1, <1>pos, <1>4, <2>1
      <4> QED
        BY <2>1, <2>2, <2>3, <4>1
    <3>2. i > k => i - k \in 1 .. n - k + 1 /\ k + (i - k) - 1 = i - 1
      BY <1>1, <1>pos
    <3>3. i > k => back[i - k] = list[i - 1]
      BY <1>4, <3>2
    <3>4. i <= k => h[i] = IF i < k THEN list[i] ELSE tx
      BY <1>1, <1>pos, <1>3, <2>1
    <3> QED
      BY <1>1, <1>pos, <3>1, <3>3, <3>4
  <2> QED
    BY <2>2, <2>3, <2>4, <2>5
<1>9. DOMAIN new = 1 .. n + 1
  BY <1>8
<1>10. Range(list) \cup {tx} \in SUBSET Range(new)
  <2>1. tx \in Range(new)
    BY <1>1, <1>pos, <1>8, <1>9 DEF Range
  <2>2. ASSUME NEW i \in 1 .. n PROVE list[i] \in Range(new)
    <3>1. i < k => new[i] = list[i] /\ i \in 1 .. n + 1
      BY <1>1, <1>pos, <1>8
    <3>2. i >= k => new[i + 1] = list[i] /\ i + 1 \in 1 .. n + 1
      BY <1>1, <1>pos, <1>8
    <3> QED
      BY <1>1, <1>pos, <1>9, <3>1, <3>2 DEF Range
  <2> QED
    BY <1>1, <2>1, <2>2 DEF Range
<1>11. Falling(new)
  <2>1. \A t \in Tx : Price[t] \in Nat
    BY TxPoolAssumption
  <2> SUFFICES ASSUME NEW i \in 1 .. n + 1, NEW j \in 1 .. n + 1, i < j
               PROVE  Price[new[i]] >= Price[new[j]]
    BY <1>9 DEF Falling
  <2>2. CASE j < k
    <3>1. new[i] = list[i] /\ new[j] = list[j] /\ i \in 1 .. n /\ j \in 1 .. n
      BY <1>1, <1>pos, <1>8, <2>2
    <3> QED
      BY <1>1, <3>1 DEF Falling
  <2>3. CASE j = k
    <3>1. new[i] = list[i] /\ new[j] = tx /\ i \in 1 .. k - 1
      BY <1>1, <1>pos, <1>8, <2>3
    <3> QED
      BY <1>pos, <3>1, Zenon
  <2>4. CASE j > k
    <3>1. new[j] = list[j - 1] /\ j - 1 \in k .. n /\ j - 1 \in 1 .. n
      BY <1>1, <1>pos, <1>8, <2>4
    <3>2. CASE i = k
      <4>1. new[i] = tx
        BY <1>1, <1>pos, <1>8, <3>2
      <4> QED
        BY <1>1, <1>pos, <2>1, <3>1, <4>1, Zenon
    <3>3. CASE i < k
      <4>1. new[i] = list[i] /\ i \in 1 .. n /\ i < j - 1
        BY <1>1, <1>pos, <1>8, <2>4, <3>3
      <4> QED
        BY <1>1, <3>1, <4>1 DEF Falling
    <3>4. CASE i > k
      <4>1. new[i] = list[i - 1] /\ i - 1 \in 1 .. n /\ i - 1 < j - 1
        BY <1>1, <1>pos, <1>8, <2>4, <3>4
      <4> QED
        BY <1>1, <3>1, <4>1 DEF Falling
    <3> QED
      BY <1>pos, <3>2, <3>3, <3>4
  <2> QED
    BY <1>pos, <2>2, <2>3, <2>4
<1> QED
  BY <1>8, <1>10, <1>11

-----------------------------------------------------------------------------
\* The inductive invariant.  Only the four together are preserved: without
\* Disjoint the pool's size is not the number of its transactions, and without
\* PricedHoldsPool the list may be too short for what add drops from it.
PoolInv ==
    /\ pending \in SUBSET Tx /\ queue \in SUBSET Tx
    /\ priced \in Seq(Tx)
    /\ Disjoint
    /\ PricedHoldsPool
    /\ PricedSorted
    /\ QueueLimited

LEMMA InitInv == Init => PoolInv
<1> SUFFICES ASSUME Init PROVE PoolInv
  OBVIOUS
<1>1. pending = {} /\ queue = {} /\ priced = << >>
  BY DEF Init
<1>2. QueueLimited
  <2>1. \A a \in Addr : {t \in queue : From[t] = a} = {}
    BY <1>1
  <2> QED
    BY <2>1, FS_EmptySet, TxPoolAssumption DEF QueueLimited
<1>3. PricedSorted
  BY <1>1 DEF PricedSorted
<1>4. priced \in Seq(Tx)
  BY <1>1
<1> QED
  BY <1>1, <1>2, <1>3, <1>4 DEF PoolInv, Disjoint, PricedHoldsPool, Pool

\* The pool has as many transactions as its two parts, and all are in priced.
LEMMA EnoughPriced ==
    ASSUME PoolInv
    PROVE  Size \in Nat /\ Len(priced) \in Nat /\ Size <= Len(priced)
<1>1. IsFiniteSet(pending) /\ IsFiniteSet(queue)
  BY TxPoolAssumption, FS_Subset DEF PoolInv
<1>2. Cardinality(pending) \in Nat /\ Cardinality(queue) \in Nat
  BY <1>1, FS_CardinalityType
<1>3. IsFiniteSet(Pool) /\ Cardinality(Pool) = Size
  <2>1. /\ IsFiniteSet(pending \cup queue)
        /\ Cardinality(pending \cup queue) =
             Cardinality(pending) + Cardinality(queue) - Cardinality(pending \cap queue)
    BY <1>1, FS_Union
  <2>2. Cardinality(pending \cap queue) = 0
    BY FS_EmptySet, Zenon DEF PoolInv, Disjoint
  <2> QED
    BY <1>2, <2>1, <2>2 DEF Pool, Size
<1>4. /\ IsFiniteSet(Range(priced))
      /\ Cardinality(Range(priced)) <= Len(priced)
  BY MembersOfList DEF PoolInv
<1>5. Cardinality(Pool) <= Cardinality(Range(priced))
  <2>1. Pool \in SUBSET Range(priced)
    BY DEF PoolInv, PricedHoldsPool
  <2> QED
    BY <1>4, <2>1, FS_Subset
<1>6. Cardinality(Range(priced)) \in Nat /\ Len(priced) \in Nat
  BY <1>4, FS_CardinalityType DEF PoolInv
<1>7. Size \in Nat
  BY <1>2 DEF Size
<1> QED
  BY <1>3, <1>4, <1>5, <1>6, <1>7

LEMMA InvGivesRoom == PoolInv => RoomToEvict
<1> SUFFICES ASSUME PoolInv PROVE Drop <= Len(priced)
  BY DEF RoomToEvict
<1> QED
  BY EnoughPriced, TxPoolAssumption DEF Drop

\* What is left of priced when add has made room: a beginning of it, and only
\* what was dropped from it is missing.
LEMMA RoomMade ==
    ASSUME PoolInv
    PROVE  /\ PricedLeft \in Seq(Tx)
           /\ Falling(PricedLeft)
           /\ Range(priced) \in SUBSET (Range(PricedLeft) \cup Evicted)
<1>1. Size \in Nat /\ Len(priced) \in Nat /\ Size <= Len(priced) /\ MaxSize \in Nat \ {0}
  BY EnoughPriced, TxPoolAssumption
<1>2. priced \in Seq(Tx) /\ Falling(priced) /\ DOMAIN priced = 1 .. Len(priced)
  BY DEF PoolInv, PricedSorted, Falling
<1>3. CASE ~ Full
  BY <1>2, <1>3 DEF PricedLeft
<1>4. CASE Full
  <2> DEFINE k == Len(priced) - Drop
             n == Len(priced)
  <2>1. k \in Nat /\ k <= n /\ n \in Nat /\ 1 \in Nat \ {0} /\ k + 1 \in Nat \ {0}
    BY <1>1, <1>4 DEF Drop, Full
  <2>2. PricedLeft = SubSeq(priced, 1, k) /\ Evicted = Range(SubSeq(priced, k + 1, n))
    BY <1>4, Zenon DEF PricedLeft, Evicted
  <2> HIDE DEF k
  <2>3. /\ SubSeq(priced, 1, k) \in Seq(Tx)
        /\ Len(SubSeq(priced, 1, k)) = IF 1 <= k THEN k - 1 + 1 ELSE 0
        /\ \A i \in 1 .. k - 1 + 1 : SubSeq(priced, 1, k)[i] = priced[1 + i - 1]
        /\ Range(SubSeq(priced, 1, k)) = {priced[i] : i \in 1 .. k}
    BY <1>2, <2>1, PartOfList
  <2>4. Range(SubSeq(priced, k + 1, n)) = {priced[i] : i \in k + 1 .. n}
    BY <1>2, <2>1, PartOfList
  <2>5. Falling(PricedLeft)
    <3> DEFINE front == SubSeq(priced, 1, k)
    <3>1. DOMAIN front = 1 .. k /\ \A i \in 1 .. k : front[i] = priced[i]
      <4>1. Len(front) = k
        BY <2>1, <2>3
      <4>2. DOMAIN front = 1 .. Len(front)
        BY <2>3
      <4>3. ASSUME NEW i \in 1 .. k PROVE front[i] = priced[i]
        BY <2>1, <2>3
      <4> QED
        BY <4>1, <4>2, <4>3, Zenon
    <3>2. PricedLeft = front
      BY <2>2
    <3> HIDE DEF front
    <3>3. \A i \in 1 .. k : i \in 1 .. n
      BY <2>1
    <3> QED
      BY <1>2, <3>1, <3>2, <3>3 DEF Falling
  <2>6. ASSUME NEW x \in Range(priced) PROVE x \in Range(PricedLeft) \cup Evicted
    <3>1. PICK i \in 1 .. n : x = priced[i]
      BY <1>2 DEF Range
    <3>2. i \in 1 .. k \/ i \in k + 1 .. n
      BY <2>1
    <3> QED
      BY <2>2, <2>3, <2>4, <3>1, <3>2
  <2> QED
    BY <2>2, <2>3, <2>5, <2>6
<1> QED
  BY <1>3, <1>4

\* A smaller queue keeps within the limit.
LEMMA FewerWait ==
    ASSUME QueueLimited, queue \in SUBSET Tx, NEW q \in SUBSET queue, NEW a \in Addr
    PROVE  Cardinality({t \in q : From[t] = a}) <= MaxQueued
<1> DEFINE old == {t \in queue : From[t] = a}
           new == {t \in q : From[t] = a}
<1>1. IsFiniteSet(old) /\ Cardinality(old) \in Nat
  <2>1. old \in SUBSET Tx
    OBVIOUS
  <2> QED
    BY <2>1, TxPoolAssumption, FS_Subset, FS_CardinalityType
<1>2. new \in SUBSET old
  OBVIOUS
<1>3. IsFiniteSet(new) /\ Cardinality(new) <= Cardinality(old)
  BY <1>1, <1>2, FS_Subset
<1>4. Cardinality(new) \in Nat
  BY <1>3, FS_CardinalityType
<1>5. Cardinality(old) <= MaxQueued
  BY DEF QueueLimited
<1> QED
  BY <1>1, <1>3, <1>4, <1>5, TxPoolAssumption

\* Transactions leaving the pool disturb nothing, as priced keeps them.
LEMMA LeavingKeepsInv ==
    ASSUME PoolInv, NEW gone, RemoveAll(gone), UNCHANGED priced
    PROVE  PoolInv'
<1>1. pending' = pending \ gone /\ queue' = queue \ gone /\ priced' = priced
  BY DEF RemoveAll
<1>2. QueueLimited'
  <2>1. queue' \in SUBSET queue
    BY <1>1
  <2>2. \A a \in Addr : Cardinality({t \in queue' : From[t] = a}) <= MaxQueued
    BY <2>1, FewerWait, Zenon DEF PoolInv
  <2> QED
    BY <2>2 DEF QueueLimited
<1>3. PricedSorted'
  BY <1>1 DEF PoolInv, PricedSorted
<1>4. pending' \in SUBSET Tx /\ queue' \in SUBSET Tx /\ priced' \in Seq(Tx)
  BY <1>1 DEF PoolInv
<1>5. Disjoint'
  BY <1>1 DEF PoolInv, Disjoint
<1>6. PricedHoldsPool'
  BY <1>1 DEF PoolInv, PricedHoldsPool, Pool
<1> QED
  BY <1>2, <1>3, <1>4, <1>5, <1>6 DEF PoolInv

\* Add: the new transaction comes into priced before checkQueue moves it.
LEMMA AddKeepsInv ==
    ASSUME PoolInv, NEW tx \in Tx, Add(tx)
    PROVE  PoolInv'
<1> DEFINE q == (queue \ Evicted) \cup {tx}
           n == NoncesWithout(Evicted)
<1>1. tx \notin pending
  BY DEF Add, Accepted
<1>2. /\ PricedLeft \in Seq(Tx) /\ Falling(PricedLeft)
      /\ Range(priced) \in SUBSET (Range(PricedLeft) \cup Evicted)
  BY RoomMade
<1>3. priced' \in Insertions(PricedLeft, tx)
  BY DEF Add
<1>4. /\ priced' \in Seq(Tx)
      /\ Range(PricedLeft) \cup {tx} \in SUBSET Range(priced')
      /\ Falling(priced')
  BY <1>2, <1>3, InsertionFacts
<1>5. q \in SUBSET Tx
  BY DEF PoolInv
<1>6. PICK s \in SortedLists(q, stateNonce) :
         /\ pending' = (pending \ Evicted) \cup MovedBy(n, s)
         /\ queue' = KeptBy(n, s)
  BY DEF Add
<1> HIDE DEF n, q
<1>7. Divides(q, n, s)
  BY <1>5, CheckQueueSets
<1>8. q \cap pending = {}
  BY <1>1 DEF PoolInv, Disjoint, q
<1>9. pending' \in SUBSET Tx /\ queue' \in SUBSET Tx
  BY <1>5, <1>6, <1>7 DEF Divides, PoolInv
<1>10. Disjoint'
  BY <1>6, <1>7, <1>8 DEF Divides, Disjoint
<1>11. PricedHoldsPool'
  <2>1. q \in SUBSET Range(priced')
    BY <1>2, <1>4 DEF PoolInv, PricedHoldsPool, Pool, q
  <2>2. pending \ Evicted \in SUBSET Range(priced')
    BY <1>2, <1>4 DEF PoolInv, PricedHoldsPool, Pool
  <2>3. pending' \cup queue' \in SUBSET Range(priced')
    BY <1>6, <1>7, <2>1, <2>2 DEF Divides
  <2> QED
    BY <2>3 DEF PricedHoldsPool, Pool
<1>12. PricedSorted'
  BY <1>4 DEF PricedSorted, Falling
<1>13. QueueLimited'
  BY <1>6, <1>7 DEF Divides, QueueLimited
<1> QED
  BY <1>4, <1>9, <1>10, <1>11, <1>12, <1>13 DEF PoolInv

\* GetPendingTxs: checkQueue moves within the pool, validatePool only drops.
LEMMA TakingKeepsInv ==
    ASSUME PoolInv, GetPendingTxs
    PROVE  PoolInv'
<1>1. PICK s \in SortedLists(queue, stateNonce) :
         /\ pending' = Valid(pending \cup MovedBy(pendNonce, s))
         /\ queue' = KeptBy(pendNonce, s)
  BY DEF GetPendingTxs
<1>2. priced' = priced
  BY DEF GetPendingTxs
<1>3. queue \in SUBSET Tx
  BY DEF PoolInv
<1>4. Divides(queue, pendNonce, s)
  BY <1>3, CheckQueueSets
<1>5. pending' \in SUBSET (pending \cup MovedBy(pendNonce, s))
  BY <1>1 DEF Valid
<1>6. pending' \in SUBSET Tx /\ queue' \in SUBSET Tx /\ priced' \in Seq(Tx)
  BY <1>1, <1>2, <1>4, <1>5, Zenon DEF Divides, PoolInv
<1>7. Disjoint'
  BY <1>1, <1>4, <1>5, Zenon DEF Divides, PoolInv, Disjoint
<1>8. PricedHoldsPool'
  <2>1. pending' \cup queue' \in SUBSET (pending \cup queue)
    BY <1>1, <1>4, <1>5 DEF Divides
  <2> QED
    BY <1>2, <2>1 DEF PoolInv, PricedHoldsPool, Pool
<1>9. PricedSorted'
  BY <1>2 DEF PoolInv, PricedSorted
<1>10. QueueLimited'
  BY <1>1, <1>4 DEF Divides, QueueLimited
<1> QED
  BY <1>6, <1>7, <1>8, <1>9, <1>10 DEF PoolInv

LEMMA NextInv == PoolInv /\ [Next]_vars => PoolInv'
<1> SUFFICES ASSUME PoolInv, [Next]_vars PROVE PoolInv'
  OBVIOUS
<1>1. CASE UNCHANGED <<pending, queue, priced>>
  BY <1>1 DEF PoolInv, Disjoint, PricedHoldsPool, Pool, PricedSorted, QueueLimited
<1>2. ASSUME NEW tx \in Tx, Add(tx) PROVE PoolInv'
  BY <1>2, AddKeepsInv
<1>3. ASSUME NEW tx \in Tx, RemoveTransactions(tx) PROVE PoolInv'
  BY <1>3, LeavingKeepsInv DEF RemoveTransactions
<1>4. CASE GetPendingTxs
  BY <1>4, TakingKeepsInv
<1>5. CASE Evict
  BY <1>5, LeavingKeepsInv DEF Evict
<1>6. CASE TimePasses
  BY <1>1, <1>6 DEF TimePasses
<1>7. CASE NewHead
  BY <1>1, <1>7 DEF NewHead
<1>8. CASE UNCHANGED vars
  BY <1>1, <1>8 DEF vars
<1> QED
  BY <1>2, <1>3, <1>4, <1>5, <1>6, <1>7, <1>8 DEF Next

LEMMA PoolAlways == Spec => []PoolInv
BY InitInv, NextInv, PTL DEF Spec

\* A transaction is never processable and waiting at once, although checkQueue,
\* add, the miner, the expiry loop and new heads move transactions one by one.
THEOREM DisjointAlways == Spec => []Disjoint
<1>1. PoolInv => Disjoint
  BY DEF PoolInv
<1> QED
  BY PoolAlways, <1>1, PTL

\* Everything in the pool is in the price list, whatever checkQueue, the expiry
\* loop and the cuts of add remove from either.
THEOREM PricedHoldsPoolAlways == Spec => []PricedHoldsPool
<1>1. PoolInv => PricedHoldsPool
  BY DEF PoolInv
<1> QED
  BY PoolAlways, <1>1, PTL

\* When the pool is full, the slice expression with which add cuts what it
\* drops from priced stays inside the list.
THEOREM RoomToEvictAlways == Spec => []RoomToEvict
BY PoolAlways, InvGivesRoom, PTL

\* addPriced keeps the list falling in price, across cuts and removals, so that
\* what add drops is the cheapest.
THEOREM PricedSortedAlways == Spec => []PricedSorted
<1>1. PoolInv => PricedSorted
  BY DEF PoolInv
<1> QED
  BY PoolAlways, <1>1, PTL

\* checkQueue leaves no address more than maxQueued waiting transactions.
THEOREM QueueLimitedAlways == Spec => []QueueLimited
<1>1. PoolInv => QueueLimited
  BY DEF PoolInv
<1> QED
  BY PoolAlways, <1>1, PTL

-----------------------------------------------------------------------------
LEMMA StateNonces == Spec => [](stateNonce \in [Addr -> Nat])
<1> DEFINE N == stateNonce \in [Addr -> Nat]
<1>1. Init => N
  BY DEF Init
<1>2. N /\ [Next]_vars => N'
  <2> SUFFICES ASSUME N, [Next]_vars PROVE N'
    OBVIOUS
  <2>1. CASE UNCHANGED stateNonce
    BY <2>1
  <2>2. CASE NewHead
    BY <2>2, TxPoolAssumption DEF NewHead
  <2> QED
    BY <2>1, <2>2, Zenon DEF Next, Add, RemoveTransactions, GetPendingTxs, Evict, TimePasses,
                      vars, nonces
<1> QED
  BY <1>1, <1>2, PTL DEF Spec

\* A transaction of the pool may be missing after a step.
MayVanish(t) ==
    \/ Nonce[t] < stateNonce[From[t]]
    \/ t \in Evicted
    \/ Cardinality({u \in queue' : From[u] = From[t]}) = MaxQueued
    \/ Cardinality({u \in pending' \ pending : From[u] = From[t]}) > MaxQueued

\* The part of Add and GetPendingTxs that loses transactions: checkQueue with
\* the queue q, which has nothing pending in it, when all it moves comes to
\* pending.
LEMMA LostByCheckQueue ==
    ASSUME stateNonce \in [Addr -> Nat],
           NEW q \in SUBSET Tx, q \cap pending = {},
           NEW n, NEW s \in SortedLists(q, stateNonce),
           queue' = KeptBy(n, s), MovedBy(n, s) \in SUBSET pending',
           \A u \in pending' \ pending : u \in MovedBy(n, s),
           NEW t \in q, t \notin pending', t \notin queue'
    PROVE  MayVanish(t)
<1>1. Nonce[t] \in Nat /\ stateNonce[From[t]] \in Nat
  BY TxPoolAssumption
<1>2. CASE Nonce[t] < stateNonce[From[t]]
  BY <1>2 DEF MayVanish
<1>3. CASE ~ (Nonce[t] < stateNonce[From[t]])
  <2>1. Nonce[t] >= stateNonce[From[t]]
    BY <1>1, <1>3
  <2>2. t \notin MovedBy(n, s) /\ t \notin KeptBy(n, s)
    OBVIOUS
  <2>3. Crowded(n, s, From[t])
    BY <2>1, <2>2, LostOnes
  <2>4. MovedBy(n, s) \in SUBSET q
    BY CheckQueueSets DEF Divides
  <2>5. pending' \ pending = MovedBy(n, s)
    BY <2>4
  <2> QED
    BY <2>3, <2>5 DEF Crowded, MayVanish
<1> QED
  BY <1>2, <1>3

LEMMA NothingVanishesInAdd ==
    ASSUME PoolInv, stateNonce \in [Addr -> Nat], NEW tx \in Tx, Add(tx),
           NEW t \in Pool \ (pending' \cup queue')
    PROVE  MayVanish(t)
<1> DEFINE q == (queue \ Evicted) \cup {tx}
           n == NoncesWithout(Evicted)
<1>1. CASE t \in Evicted
  BY <1>1 DEF MayVanish
<1>2. CASE t \notin Evicted
  <2>1. q \in SUBSET Tx
    BY DEF PoolInv
  <2>2. q \cap pending = {}
    BY DEF PoolInv, Disjoint, Add, Accepted
  <2>3. PICK s \in SortedLists(q, stateNonce) :
           /\ pending' = (pending \ Evicted) \cup MovedBy(n, s)
           /\ queue' = KeptBy(n, s)
    BY DEF Add
  <2>4. t \in q
    BY <1>2, <2>3 DEF Pool
  <2>5. t \notin pending' /\ t \notin queue'
    OBVIOUS
  <2> HIDE DEF q, n
  <2>6. MovedBy(n, s) \in SUBSET pending' /\ \A u \in pending' \ pending : u \in MovedBy(n, s)
    BY <2>3
  <2> QED
    BY <2>1, <2>2, <2>3, <2>4, <2>5, <2>6, LostByCheckQueue
<1> QED
  BY <1>1, <1>2

LEMMA NothingVanishesInTaking ==
    ASSUME PoolInv, stateNonce \in [Addr -> Nat], GetPendingTxs,
           NEW t \in Pool \ (pending' \cup queue')
    PROVE  MayVanish(t)
<1>1. PICK s \in SortedLists(queue, stateNonce) :
         /\ pending' = Valid(pending \cup MovedBy(pendNonce, s))
         /\ queue' = KeptBy(pendNonce, s)
  BY Zenon DEF GetPendingTxs
<1>2. queue \in SUBSET Tx /\ queue \cap pending = {} /\ pending \in SUBSET Tx
  BY DEF PoolInv, Disjoint
<1>3. t \in Tx /\ Nonce[t] \in Nat /\ stateNonce[From[t]] \in Nat
  BY <1>2, TxPoolAssumption DEF Pool
<1>4. CASE t \in pending
  <2>1. ~ (Nonce[t] >= stateNonce[From[t]])
    BY <1>1, <1>4 DEF Valid
  <2>2. Nonce[t] < stateNonce[From[t]]
    BY <1>3, <2>1
  <2> QED
    BY <2>2 DEF MayVanish
<1>5. CASE t \in queue
  <2>1. MovedBy(pendNonce, s) \in SUBSET pending'
    <3>1. \A u \in MovedBy(pendNonce, s) : Nonce[u] >= stateNonce[From[u]]
      BY <1>2, MovedOnesValid
    <3> QED
      BY <1>1, <3>1 DEF Valid
  <2>2. \A u \in pending' \ pending : u \in MovedBy(pendNonce, s)
    BY <1>1 DEF Valid
  <2>3. t \notin pending' /\ t \notin queue'
    OBVIOUS
  <2> QED
    BY <1>1, <1>2, <1>5, <2>1, <2>2, <2>3, LostByCheckQueue
<1> QED
  BY <1>4, <1>5 DEF Pool

\* checkQueue loses no transaction by itself: one that leaves the pool was
\* removed or evicted, dropped for a better paid one, used up, or beyond the
\* limit of its sender.
THEOREM NothingEverVanishes == Spec => NothingVanishes
<1> DEFINE Accounted == \/ \A t \in Pool \ (pending' \cup queue') : MayVanish(t)
                        \/ Evict
                        \/ \E tx \in Tx : RemoveTransactions(tx)
<1>1. PoolInv /\ stateNonce \in [Addr -> Nat] /\ [Next]_vars => [Accounted]_vars
  <2> SUFFICES ASSUME PoolInv, stateNonce \in [Addr -> Nat], Next PROVE Accounted
    OBVIOUS
  <2>1. ASSUME NEW tx \in Tx, Add(tx) PROVE Accounted
    BY <2>1, NothingVanishesInAdd
  <2>2. CASE GetPendingTxs
    BY <2>2, NothingVanishesInTaking
  <2>3. CASE UNCHANGED <<pending, queue>>
    BY <2>3 DEF Pool
  <2> QED
    BY <2>1, <2>2, <2>3 DEF Next, TimePasses, NewHead
<1>2. [Accounted]_vars <=>
         [\/ \A t \in Pool \ (pending' \cup queue') :
                \/ Nonce[t] < stateNonce[From[t]]
                \/ t \in Evicted
                \/ Cardinality({u \in queue' : From[u] = From[t]}) = MaxQueued
                \/ Cardinality({u \in pending' \ pending : From[u] = From[t]}) > MaxQueued
          \/ Evict
          \/ \E tx \in Tx : RemoveTransactions(tx)]_vars
  BY DEF MayVanish
<1> QED
  BY PoolAlways, StateNonces, <1>1, <1>2, PTL DEF Spec, NothingVanishes
=============================================================================
