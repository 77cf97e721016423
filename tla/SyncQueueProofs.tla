-------------------------- MODULE SyncQueueProofs --------------------------
(* Proofs about the download queue, for all sets of hashes and peers, all   *)
(* heights and all cache sizes.                                            *)
EXTENDS SyncQueue, FiniteSetTheorems, TLAPS

\* All sets the queue keeps are finite, so the sizes Throttle and Reserve
\* compute with are natural numbers.
LEMMA FiniteSets ==
    ASSUME TypeOK
    PROVE  /\ IsFiniteSet(Entry)
           /\ IsFiniteSet(hashQueue)
           /\ IsFiniteSet(blockPool)
           /\ IsFiniteSet(InFlight)
           /\ Cardinality(blockPool) \in Nat
           /\ Cardinality(InFlight) \in Nat
<1>1. IsFiniteSet(Priority)
  BY SyncQueueAssumption, FS_Interval DEF Priority
<1>2. IsFiniteSet(Entry)
  BY <1>1, SyncQueueAssumption, FS_Product DEF Entry
<1>3. IsFiniteSet(Peer \X Entry)
  BY <1>2, SyncQueueAssumption, FS_Product
<1>4. IsFiniteSet(hashQueue)
  BY <1>2, FS_Subset DEF TypeOK
<1>5. IsFiniteSet(blockPool)
  BY SyncQueueAssumption, FS_Subset DEF TypeOK
<1>6. InFlight \in SUBSET (Peer \X Entry)
  BY DEF InFlight
<1>7. IsFiniteSet(InFlight)
  BY <1>3, <1>6, FS_Subset
<1>8. QED
  BY <1>2, <1>4, <1>5, <1>7, FS_CardinalityType

\* Insert numbers the hashes it adds from hashCounter + 1 to the counter's
\* new value.
LEMMA FreshCount ==
    ASSUME NEW hs \in Seq(Hash)
    PROVE  /\ IsFiniteSet(FreshPositions(hs))
           /\ Cardinality(FreshPositions(hs)) \in Nat
           /\ \A i \in FreshPositions(hs) :
                 LET upTo == {j \in FreshPositions(hs) : j <= i}
                 IN  Cardinality(upTo) \in 1 .. Cardinality(FreshPositions(hs))
<1> DEFINE F == FreshPositions(hs)
<1>1. F \in SUBSET (1 .. Len(hs)) /\ Len(hs) \in Nat
  BY DEF FreshPositions
<1>2. IsFiniteSet(F) /\ Cardinality(F) \in Nat
  <2>1. IsFiniteSet(1 .. Len(hs))
    BY <1>1, FS_Interval
  <2>2. QED
    BY <1>1, <2>1, FS_Subset, FS_CardinalityType
<1>3. ASSUME NEW i \in F
      PROVE  Cardinality({j \in F : j <= i}) \in 1 .. Cardinality(F)
  <2> DEFINE upTo == {j \in F : j <= i}
  <2>1. upTo \in SUBSET F
    OBVIOUS
  <2>2. IsFiniteSet(upTo) /\ Cardinality(upTo) \in Nat /\ Cardinality(upTo) <= Cardinality(F)
    BY <2>1, <1>2, FS_Subset, FS_CardinalityType
  <2>3. i \in upTo
    BY <1>1
  <2>4. Cardinality(upTo) # 0
    BY <2>2, <2>3, FS_EmptySet, Zenon
  <2>5. QED
    BY <2>2, <2>4, <1>2
<1>4. QED
  BY <1>2, <1>3

\* newSyncQueue makes a queue of the declared types.
LEMMA InitType == Init => TypeOK
<1> SUFFICES ASSUME Init PROVE TypeOK
  OBVIOUS
<1>1. hashing \in BOOLEAN /\ prepared \in BOOLEAN /\ cancelled \in BOOLEAN
  BY Zenon DEF Init
<1>2. start \in Nat /\ from \in Nat
  BY SyncQueueAssumption DEF Init
<1>3. QED
  BY <1>1, <1>2, SyncQueueAssumption DEF Init, EmptyQueue, TypeOK, Slots

\* No operation of the queue leaves the declared types.
LEMMA NextType == TypeOK /\ [Next]_vars => TypeOK'
<1> SUFFICES ASSUME TypeOK, [Next]_vars PROVE TypeOK'
  OBVIOUS
<1> USE SyncQueueAssumption
<1>1. ASSUME NEW n \in Starts, Start(n) PROVE TypeOK'
  <2>1. hashing' \in BOOLEAN /\ prepared' \in BOOLEAN /\ cancelled' \in BOOLEAN
    BY <1>1, Zenon DEF Start
  <2>2. start' \in Nat /\ from' \in Nat
    BY <1>1 DEF Start
  <2>3. QED
    BY <1>1, <2>1, <2>2 DEF TypeOK, Start, Reset, Slots, sendVars
<1>2. CASE CancelSync
  BY <1>2 DEF TypeOK, CancelSync, Reset, Slots, sendVars
<1>3. CASE Prepare(start)
  BY <1>3 DEF TypeOK, Prepare, poolVars, sendVars
<1>4. ASSUME NEW p \in Peer, Reserve(p) PROVE TypeOK'
  <2>1. PICK popped \in SUBSET hashQueue :
           /\ hashQueue' = (hashQueue \ popped) \cup SkipOf(p, popped)
           /\ pendPool'  = [pendPool EXCEPT ![p] = SendOf(p, popped)]
           /\ request'   = SendOf(p, popped)
    BY <1>4, Zenon DEF Reserve
  <2>2. /\ hashQueue' \in SUBSET Entry /\ pendPool' \in [Peer -> SUBSET Entry]
        /\ request' \in SUBSET Entry
    BY <2>1 DEF TypeOK, SendOf, SkipOf, LastPopped
  <2>3. unsent' \in Peer \cup {NoPeer}
    BY <1>4 DEF Reserve
  <2>4. QED
    BY <2>2, <2>3, <1>4 DEF TypeOK, Reserve, cacheVars, sessionVars
<1>5. CASE Sent
  BY <1>5 DEF TypeOK, Sent, poolVars, cacheVars, sessionVars
<1>6. CASE Cancel
  BY <1>6 DEF TypeOK, Cancel, cacheVars, sessionVars
<1>7. ASSUME NEW expired \in SUBSET {p \in Peer : pendPool[p] # {}}, Expire(expired)
      PROVE  TypeOK'
  BY <1>7 DEF TypeOK, Expire, cacheVars, sessionVars, sendVars
<1>8. ASSUME NEW p \in Peer, NEW bs \in BlockLists, Deliver(p, bs) PROVE TypeOK'
  <2> DEFINE stored == StoredPositions(p, bs)
             got    == {bs[i] : i \in stored}
  <2>1. bs \in Seq(Hash) /\ \A i \in DOMAIN bs : bs[i] \in Hash
    OBVIOUS
  <2>2. stored \subseteq DOMAIN bs /\ got \subseteq Hash
    BY <2>1 DEF StoredPositions, RequestedPositions
  <2>3. CacheAfter(stored, bs) \in [Slots -> Hash \cup {NoBlock}]
    <3> SUFFICES ASSUME NEW k \in Slots
                 PROVE  CacheAfter(stored, bs)[k] \in Hash \cup {NoBlock}
      BY Zenon DEF CacheAfter
    <3> DEFINE Last(i) == /\ Index(bs[i]) = k
                          /\ \A j \in stored : Index(bs[j]) = k => j <= i
    <3>1. CacheAfter(stored, bs)[k] = IF \E i \in stored : Last(i)
                                      THEN bs[CHOOSE i \in stored : Last(i)]
                                      ELSE blockCache[k]
      BY DEF CacheAfter
    <3>2. CASE \E i \in stored : Last(i)
      <4>1. (CHOOSE i \in stored : Last(i)) \in stored
        BY <3>2
      <4>2. QED
        BY <4>1, <3>1, <3>2, <2>1, <2>2
    <3>3. CASE ~ \E i \in stored : Last(i)
      BY <3>1, <3>3 DEF TypeOK
    <3>4. QED
      BY <3>2, <3>3
  <2>4. GiveBack(p, bs, got) \subseteq Entry
    BY DEF GiveBack, TypeOK
  <2>5. HashesOf(pendPool[p]) \subseteq Hash
    BY DEF HashesOf, TypeOK, Entry
  <2>6. ignoreHashes' \in [Peer -> SUBSET Hash]
    BY <1>8, <2>5 DEF Deliver, TypeOK
  <2>7. QED
    BY <1>8, <2>2, <2>3, <2>4, <2>6, Zenon DEF Deliver, TypeOK, sessionVars, sendVars
<1>9. CASE TakeBlocks
  <2>1. PICK n \in 1 .. CacheLimit :
           /\ \A k \in 0 .. n - 1 : blockCache[k] # NoBlock
           /\ blockPool'   = blockPool \ {blockCache[k] : k \in 0 .. n - 1}
           /\ blockCache'  = Shifted(n)
           /\ blockOffset' = blockOffset + n
           /\ feed' = feed \o [i \in 1 .. n |-> blockCache[i - 1]]
    BY <1>9 DEF TakeBlocks
  <2>2. [i \in 1 .. n |-> blockCache[i - 1]] \in Seq(Hash)
    <3>1. \A i \in 1 .. n : blockCache[i - 1] \in Hash
      <4>1. n \in Nat /\ \A i \in 1 .. n : i - 1 \in 0 .. n - 1 /\ i - 1 \in Slots
        BY DEF Slots
      <4>2. \A k \in Slots : blockCache[k] \in Hash \cup {NoBlock}
        BY DEF TypeOK
      <4>3. \A k \in 0 .. n - 1 : blockCache[k] # NoBlock
        BY <2>1
      <4>4. QED
        BY <4>1, <4>2, <4>3
    <3>2. QED
      BY <3>1
  <2>3. feed' \in Seq(Hash)
    BY <2>1, <2>2 DEF TypeOK
  <2>4. Shifted(n) \in [Slots -> Hash \cup {NoBlock}]
    BY DEF Shifted, Slots, TypeOK
  <2>5. blockPool' \in SUBSET Hash /\ blockOffset' \in Nat
    BY <2>1 DEF TypeOK
  <2>6. QED
    BY <1>9, <2>1, <2>3, <2>4, <2>5, Zenon
       DEF TakeBlocks, TypeOK, poolVars, sessionVars, sendVars
<1>10. ASSUME NEW hs \in HashLists, Insert(hs) PROVE TypeOK'
  <2>1. hs \in Seq(Hash) /\ Len(hs) \in Nat /\ \A i \in DOMAIN hs : hs[i] \in Hash
    OBVIOUS
  <2>2. \A i \in FreshPositions(hs) : NewEntry(hs, i) \in Entry
    <3> SUFFICES ASSUME NEW i \in FreshPositions(hs) PROVE NewEntry(hs, i) \in Entry
      OBVIOUS
    <3> DEFINE c == Cardinality({j \in FreshPositions(hs) : j <= i})
    <3>1. c \in 1 .. Cardinality(FreshPositions(hs)) /\ Cardinality(FreshPositions(hs)) \in Nat
      BY <2>1, FreshCount
    <3>2. hashCounter + Cardinality(FreshPositions(hs)) <= MaxCounter /\ hashCounter \in 0 .. MaxCounter
      BY <1>10 DEF Insert, TypeOK
    <3>3. -(hashCounter + c) \in -MaxCounter .. -1
      BY <3>1, <3>2
    <3>4. hs[i] \in Hash
      BY <2>1 DEF FreshPositions
    <3>5. QED
      BY <3>3, <3>4 DEF NewEntry, Entry, Priority
  <2>3. hashCounter' \in 0 .. MaxCounter
    BY <1>10, <2>1, FreshCount DEF Insert, TypeOK
  <2>4. hashPool' \subseteq Hash
    BY <1>10, <2>1 DEF Insert, TypeOK, FreshPositions
  <2>5. hashQueue' \subseteq Entry
    BY <1>10, <2>2 DEF Insert, TypeOK
  <2>6. from' \in Nat /\ hashing' \in BOOLEAN
    BY <1>10, <2>1 DEF Insert, TypeOK
  <2>7. QED
    BY <1>10, <2>3, <2>4, <2>5, <2>6 DEF Insert, TypeOK, cacheVars, sendVars
<1>11. CASE UNCHANGED vars
  BY <1>11 DEF TypeOK, vars, poolVars, cacheVars, sessionVars, sendVars
<1>12. QED
  BY <1>1, <1>2, <1>3, <1>4, <1>5, <1>6, <1>7, <1>8, <1>9, <1>10, <1>11, Zenon
     DEF Next, Session, Fetch, AnyInsert

\* The variables of the queue keep their types in every synchronisation.
THEOREM TypeCorrect == Spec => []TypeOK
<1>1. QED
  BY InitType, NextType, PTL DEF Spec

-----------------------------------------------------------------------------
(* Who owns a hash.  A hash waits in hashQueue or in one request, and only  *)
(* while it is in hashPool; this is what keeps Insert, which looks at       *)
(* hashPool only, from scheduling a hash a second time.                     *)

Owned ==
    ~cancelled =>
      /\ \A e, f \in hashQueue : e[1] = f[1] => e = f
      /\ \A p, q \in Peer : \A e \in pendPool[p], f \in pendPool[q] :
            e[1] = f[1] => p = q /\ e = f
      /\ \A p \in Peer : \A e \in pendPool[p], f \in hashQueue : e[1] # f[1]
      /\ \A e \in hashQueue : e[1] \in hashPool
      /\ \A p \in Peer : \A e \in pendPool[p] : e[1] \in hashPool
      /\ unsent # NoPeer => request = pendPool[unsent]

\* Without a hash that waits twice, Reserve takes exactly what it sends.
LEMMA ReserveMoves ==
    ASSUME TypeOK, Owned, ~cancelled, NEW p \in Peer, Reserve(p)
    PROVE  \E popped \in SUBSET hashQueue :
              /\ PoppedBy(p, popped)
              /\ hashQueue' = hashQueue \ SendOf(p, popped)
              /\ pendPool'  = [pendPool EXCEPT ![p] = SendOf(p, popped)]
              /\ request'   = SendOf(p, popped)
<1>1. PICK popped \in SUBSET hashQueue :
         /\ PoppedBy(p, popped)
         /\ hashQueue' = (hashQueue \ popped) \cup SkipOf(p, popped)
         /\ pendPool'  = [pendPool EXCEPT ![p] = SendOf(p, popped)]
         /\ request'   = SendOf(p, popped)
  BY Zenon DEF Reserve
<1>2. LastPopped(popped) = popped
  <2>1. \A e, f \in popped : f[1] = e[1] => e = f
    BY DEF Owned
  <2>2. \A e \in popped : e[2] \in Int
    BY DEF TypeOK, Entry, Priority
  <2>3. \A e \in popped : \A f \in popped : f[1] = e[1] => e[2] <= f[2]
    <3> SUFFICES ASSUME NEW e \in popped, NEW f \in popped, f[1] = e[1]
                 PROVE  e[2] <= f[2]
      OBVIOUS
    <3>1. e = f
      BY <2>1
    <3>2. QED
      BY <3>1, <2>2
  <2>4. QED
    BY <2>3 DEF LastPopped
<1>3. (hashQueue \ popped) \cup SkipOf(p, popped) = hashQueue \ SendOf(p, popped)
  BY <1>2 DEF SkipOf, SendOf
<1>4. QED
  BY <1>1, <1>3, Zenon

\* Every operation keeps the owners of the hashes apart.
LEMMA OwnedStep == TypeOK /\ Owned /\ [Next]_vars => Owned'
<1> SUFFICES ASSUME TypeOK, Owned, [Next]_vars, ~cancelled' PROVE Owned'
  BY DEF Owned
<1> USE SyncQueueAssumption
<1>0. pendPool \in [Peer -> SUBSET Entry] /\ hashQueue \in SUBSET Entry
  BY DEF TypeOK
<1>1. ASSUME NEW n \in Starts, Start(n) PROVE Owned'
  BY <1>1 DEF Owned, Start, Reset, sendVars
<1>2. CASE Session
  BY <1>1, <1>2 DEF Session, CancelSync
<1>a. ASSUME UNCHANGED sessionVars \/ cancelled' = cancelled PROVE ~cancelled
  BY <1>a DEF sessionVars
<1>3. ASSUME UNCHANGED poolVars, cancelled' = cancelled,
             UNCHANGED sendVars \/ unsent' = NoPeer
      PROVE  Owned'
  BY <1>3, <1>a DEF Owned, poolVars, sendVars
<1>4. ASSUME NEW p \in Peer, Reserve(p) PROVE Owned'
  <2>0. ~cancelled
    BY <1>4, <1>a DEF Reserve
  <2>1. PICK popped \in SUBSET hashQueue :
           /\ hashQueue' = hashQueue \ SendOf(p, popped)
           /\ pendPool'  = [pendPool EXCEPT ![p] = SendOf(p, popped)]
           /\ request'   = SendOf(p, popped)
    BY <1>4, <2>0, ReserveMoves
  <2> DEFINE send == SendOf(p, popped)
  <2>2. send \subseteq hashQueue
    BY DEF SendOf, LastPopped
  <2>3. hashPool' = hashPool
    BY <1>4 DEF Reserve
  <2>4. \A q \in Peer : pendPool'[q] = IF q = p THEN send ELSE pendPool[q]
    BY <2>1, <1>0
  <2>5. hashQueue' = hashQueue \ send
    BY <2>1
  <2>6. unsent' # NoPeer => request' = pendPool'[unsent']
    BY <1>4, <2>1, <2>4 DEF Reserve
  <2> HIDE DEF send
  <2>7. QED
    BY <2>0, <2>2, <2>3, <2>4, <2>5, <2>6 DEF Owned
<1>5. ASSUME NEW back \in [Peer -> SUBSET Entry],
             \A p \in Peer : back[p] \subseteq pendPool[p],
             hashQueue' = hashQueue \cup UNION {back[p] : p \in Peer},
             \A p \in Peer : pendPool'[p] = {} \/ (pendPool'[p] = pendPool[p] /\ back[p] = {}),
             hashPool' = hashPool, cancelled' = cancelled, unsent' = NoPeer
      PROVE  Owned'
  <2>0. ~cancelled
    BY <1>5, <1>a
  <2>1. \A e \in hashQueue' : e \in hashQueue \/ \E p \in Peer : e \in back[p] /\ e \in pendPool[p] /\ pendPool'[p] = {}
    BY <1>5
  <2>2. QED
    BY <1>5, <2>0, <2>1 DEF Owned
<1>6. CASE Cancel
  <2> DEFINE back == [p \in Peer |-> IF p = unsent THEN pendPool[p] ELSE {}]
  <2>1. unsent \in Peer /\ unsent' = NoPeer /\ cancelled' = cancelled
        /\ request = pendPool[unsent]
    BY <1>6, <1>a DEF Cancel, TypeOK, sessionVars, Owned
  <2>2. back \in [Peer -> SUBSET Entry] /\ \A p \in Peer : back[p] \subseteq pendPool[p]
    BY <1>0
  <2>3. UNION {back[p] : p \in Peer} = pendPool[unsent]
    BY <2>1
  <2>4. \A p \in Peer : pendPool'[p] = IF p = unsent THEN {} ELSE pendPool[p]
    BY <1>6, <1>0, <2>1 DEF Cancel
  <2>5. hashQueue' = hashQueue \cup UNION {back[p] : p \in Peer} /\ hashPool' = hashPool
    BY <1>6, <2>1, <2>3 DEF Cancel
  <2>6. \A p \in Peer : pendPool'[p] = {} \/ (pendPool'[p] = pendPool[p] /\ back[p] = {})
    BY <2>4
  <2>7. QED
    BY <1>5, <2>1, <2>2, <2>5, <2>6, Zenon
<1>7. ASSUME NEW expired \in SUBSET {p \in Peer : pendPool[p] # {}}, Expire(expired)
      PROVE  Owned'
  <2> DEFINE back == [p \in Peer |-> IF p \in expired THEN pendPool[p] ELSE {}]
  <2>2. back \in [Peer -> SUBSET Entry] /\ \A p \in Peer : back[p] \subseteq pendPool[p]
    BY <1>0
  <2>3. UNION {back[p] : p \in Peer} = UNION {pendPool[p] : p \in expired}
    OBVIOUS
  <2>5. hashQueue' = hashQueue \cup UNION {back[p] : p \in Peer} /\ hashPool' = hashPool
    BY <1>7, <2>3 DEF Expire
  <2>6. \A p \in Peer : pendPool'[p] = {} \/ (pendPool'[p] = pendPool[p] /\ back[p] = {})
    BY <1>7 DEF Expire
  <2>7. cancelled' = cancelled /\ unsent' = NoPeer
    BY <1>7 DEF Expire, sessionVars, sendVars
  <2>8. QED
    BY <1>5, <2>2, <2>5, <2>6, <2>7, Zenon
<1>8. ASSUME NEW p \in Peer, NEW bs \in BlockLists, Deliver(p, bs) PROVE Owned'
  <2> DEFINE got == {bs[i] : i \in StoredPositions(p, bs)}
             back == GiveBack(p, bs, got)
  <2>0. ~cancelled /\ unsent' = NoPeer
    BY <1>8, <1>a DEF Deliver, sendVars
  <2>1. \A h \in got : \E e \in pendPool[p] : e[1] = h
    BY DEF StoredPositions, RequestedPositions, HashesOf
  <2>2. back \subseteq pendPool[p] /\ \A e \in back : e[1] \notin got
    BY DEF GiveBack
  <2>3. hashQueue' = hashQueue \cup back /\ hashPool' = hashPool \ got
    BY <1>8 DEF Deliver
  <2>4. \A q \in Peer : pendPool'[q] = IF q = p THEN {} ELSE pendPool[q]
    BY <1>8, <1>0 DEF Deliver
  <2> HIDE DEF got, back
  <2>5. \A e \in hashQueue : e[1] \notin got
    BY <2>0, <2>1 DEF Owned
  <2>6. \A q \in Peer : q # p => \A e \in pendPool[q] : e[1] \notin got
    BY <2>0, <2>1 DEF Owned
  <2>7. QED
    BY <2>0, <2>2, <2>3, <2>4, <2>5, <2>6 DEF Owned
<1>9. ASSUME NEW hs \in HashLists, Insert(hs) PROVE Owned'
  <2> DEFINE fresh == FreshPositions(hs)
             new   == {NewEntry(hs, i) : i \in fresh}
  <2>0. \A i \in fresh : NewEntry(hs, i)[1] = hs[i]
    BY DEF NewEntry
  <2>1. \A i, j \in fresh : hs[i] = hs[j] => i = j
    <3>1. fresh \subseteq 1 .. Len(hs) /\ Len(hs) \in Nat
      BY DEF FreshPositions
    <3>2. QED
      BY <3>1 DEF FreshPositions
  <2>2. \A e, f \in new : e[1] = f[1] => e = f
    BY <2>1, <2>0
  <2>3. \A e \in new : e[1] \notin hashPool /\ e[1] \in hashPool'
    BY <1>9, <2>0 DEF FreshPositions, Insert
  <2>4. hashQueue' = hashQueue \cup new /\ hashPool \subseteq hashPool' /\ pendPool' = pendPool
    BY <1>9 DEF Insert
  <2>5. ~cancelled /\ UNCHANGED sendVars
    BY <1>9, <1>a DEF Insert
  <2> HIDE DEF new
  <2>6. QED
    BY <2>2, <2>3, <2>4, <2>5 DEF Owned, sendVars
<1>10. CASE Prepare(start) \/ Sent \/ TakeBlocks \/ UNCHANGED vars
  BY <1>3, <1>10 DEF Prepare, Sent, TakeBlocks, vars, sessionVars
<1>11. QED
  BY <1>2, <1>4, <1>6, <1>7, <1>8, <1>9, <1>10, Zenon DEF Next, Fetch, AnyInsert

\* Two peers are never asked for one block at a time, and no hash waits twice.
THEOREM OneOwnerAlways == Spec => []OneOwner
<1>1. Init => Owned
  BY DEF Init, EmptyQueue, Owned
<1>2. TypeOK /\ Owned => OneOwner
  BY DEF TypeOK, Owned, OneOwner, InFlight, Entry
<1>3. QED
  BY <1>1, <1>2, InitType, NextType, OwnedStep, PTL DEF Spec

-----------------------------------------------------------------------------
(* The room in the cache.                                                  *)

\* Fewer requests in flight and fewer blocks kept need no more room.
LEMMA LessRoom ==
    ASSUME TypeOK, TypeOK', NotOvercommitted,
           blockPool' \subseteq blockPool, InFlight' \subseteq InFlight
    PROVE  NotOvercommitted'
<1>1. /\ Cardinality(blockPool') \in Nat /\ Cardinality(InFlight') \in Nat
      /\ Cardinality(blockPool') <= Cardinality(blockPool)
      /\ Cardinality(InFlight') <= Cardinality(InFlight)
  BY FiniteSets, FS_Subset, FS_CardinalityType
<1>2. QED
  BY <1>1, FiniteSets, SyncQueueAssumption DEF NotOvercommitted

\* Reserve pops no more than there is room for.
LEMMA PoppedFits ==
    ASSUME TypeOK, NotOvercommitted, NEW p \in Peer,
           NEW popped \in SUBSET hashQueue, PoppedBy(p, popped)
    PROVE  /\ IsFiniteSet(popped)
           /\ Cardinality(popped) \in Nat
           /\ Cardinality(blockPool) + Cardinality(InFlight) + Cardinality(popped)
                 <= CacheLimit
<1>1. IsFiniteSet(popped) /\ Cardinality(popped) \in Nat
  BY FiniteSets, FS_Subset, FS_CardinalityType
<1>2. CASE popped = {}
  <2>1. Cardinality(popped) = 0
    BY <1>2, FS_EmptySet
  <2>2. QED
    BY <1>1, <2>1, FiniteSets, SyncQueueAssumption DEF NotOvercommitted
<1>3. CASE popped # {}
  <2>1. PICK last \in popped : LoopGoesOn(p, popped \ {last})
    BY <1>3 DEF PoppedBy
  <2>2. Cardinality(popped \ {last}) = Cardinality(popped) - 1
    BY <1>1, FS_RemoveElement, Zenon
  <2>3. Cardinality(popped \ {last}) < Space
    BY <2>1 DEF LoopGoesOn
  <2>4. QED
    BY <1>1, <2>2, <2>3, FiniteSets, SyncQueueAssumption DEF Space
<1>4. QED
  BY <1>2, <1>3

\* No operation asks for more blocks than the cache can take.
LEMMA RoomStep ==
    TypeOK /\ TypeOK' /\ NotOvercommitted /\ [Next]_vars => NotOvercommitted'
<1> SUFFICES ASSUME TypeOK, TypeOK', NotOvercommitted, [Next]_vars
             PROVE  NotOvercommitted'
  OBVIOUS
<1> USE SyncQueueAssumption
<1>1. CASE Session
  <2>1. blockPool' = {} /\ InFlight' = {}
    BY <1>1 DEF Session, Start, CancelSync, Reset, InFlight
  <2>2. QED
    BY <2>1, LessRoom
<1>2. ASSUME NEW p \in Peer, Reserve(p) PROVE NotOvercommitted'
  <2>1. PICK popped \in SUBSET hashQueue :
           /\ PoppedBy(p, popped)
           /\ pendPool'  = [pendPool EXCEPT ![p] = SendOf(p, popped)]
    BY <1>2, Zenon DEF Reserve
  <2> DEFINE send == SendOf(p, popped)
             asked == {p} \X send
  <2>2. IsFiniteSet(send) /\ Cardinality(send) \in Nat /\ Cardinality(send) <= Cardinality(popped)
    <3>1. send \in SUBSET popped
      BY DEF SendOf, LastPopped
    <3>2. QED
      BY <2>1, <3>1, PoppedFits, FS_Subset, FS_CardinalityType
  <2>3. IsFiniteSet(asked) /\ Cardinality(asked) = Cardinality(send)
    <3>1. IsFiniteSet({p}) /\ Cardinality({p}) = 1
      BY FS_Singleton, Zenon
    <3>2. IsFiniteSet(asked) /\ Cardinality(asked) = 1 * Cardinality(send)
      BY <2>2, <3>1, FS_Product, Zenon
    <3>3. QED
      BY <2>2, <3>2
  <2>4. InFlight' = InFlight \cup asked
    <3>1. send \subseteq Entry
      BY DEF SendOf, LastPopped, TypeOK
    <3>2. \A q \in Peer : pendPool'[q] = IF q = p THEN send ELSE pendPool[q]
      BY <2>1 DEF TypeOK
    <3>3. pendPool[p] = {}
      BY <1>2 DEF Reserve
    <3> HIDE DEF send
    <3>4. ASSUME NEW x PROVE x \in InFlight' <=> x \in InFlight \cup asked
      BY <3>1, <3>2, <3>3 DEF InFlight
    <3>5. QED
      BY <3>4
  <2>5. Cardinality(InFlight') <= Cardinality(InFlight) + Cardinality(asked)
    <3>1. IsFiniteSet(InFlight \cap asked) /\ Cardinality(InFlight \cap asked) \in Nat
      BY FiniteSets, FS_Intersection, FS_CardinalityType, Zenon
    <3>2. Cardinality(InFlight \cup asked)
             = Cardinality(InFlight) + Cardinality(asked) - Cardinality(InFlight \cap asked)
      BY <2>3, FiniteSets, FS_Union, Zenon
    <3>3. QED
      BY <3>1, <3>2, <2>2, <2>3, <2>4, FiniteSets
  <2>6. blockPool' = blockPool
    BY <1>2 DEF Reserve, cacheVars
  <2>7. Cardinality(InFlight') \in Nat
    BY FiniteSets, <2>2, <2>3, <2>4, FS_Union, FS_CardinalityType, Zenon
  <2> HIDE DEF send, asked
  <2>8. QED
    BY <2>1, <2>2, <2>3, <2>5, <2>6, <2>7, PoppedFits, FiniteSets DEF NotOvercommitted
<1>3. ASSUME blockPool' \subseteq blockPool,
             \A p \in Peer : pendPool'[p] \subseteq pendPool[p]
      PROVE  NotOvercommitted'
  <2>1. InFlight' \subseteq InFlight
    BY <1>3 DEF InFlight
  <2>2. QED
    BY <1>3, <2>1, LessRoom
<1>4. CASE Cancel
  BY <1>3, <1>4 DEF Cancel, TypeOK, cacheVars
<1>5. ASSUME NEW expired \in SUBSET {p \in Peer : pendPool[p] # {}}, Expire(expired)
      PROVE  NotOvercommitted'
  BY <1>3, <1>5 DEF Expire, cacheVars
<1>6. ASSUME NEW p \in Peer, NEW bs \in BlockLists, Deliver(p, bs) PROVE NotOvercommitted'
  <2> DEFINE got   == {bs[i] : i \in StoredPositions(p, bs)}
             req   == {p} \X pendPool[p]
             names == HashesOf(pendPool[p])
  <2>1. got \subseteq names
    BY DEF StoredPositions, RequestedPositions
  <2>2. req \subseteq InFlight /\ InFlight' = InFlight \ req
    <3>1. \A q \in Peer : pendPool'[q] = IF q = p THEN {} ELSE pendPool[q]
      BY <1>6 DEF Deliver, TypeOK
    <3>2. pendPool[p] \subseteq Entry
      BY DEF TypeOK
    <3>3. ASSUME NEW x PROVE x \in InFlight' <=> x \in InFlight \ req
      BY <3>1 DEF InFlight
    <3>4. req \subseteq InFlight
      BY <3>2 DEF InFlight
    <3>5. QED
      BY <3>3, <3>4
  <2>3. IsFiniteSet(req) /\ Cardinality(req) \in Nat
    BY <2>2, FiniteSets, FS_Subset, FS_CardinalityType
  <2>4. IsFiniteSet(got) /\ Cardinality(got) \in Nat /\ Cardinality(got) <= Cardinality(req)
    <3> DEFINE f == [x \in req |-> x[2][1]]
    <3>1. f \in Surjection(req, names)
      <4>1. f \in [req -> names]
        BY DEF HashesOf
      <4>2. ASSUME NEW h \in names PROVE \E x \in req : f[x] = h
        <5>1. PICK e \in pendPool[p] : e[1] = h
          BY DEF HashesOf
        <5>2. <<p, e>> \in req /\ f[<<p, e>>] = h
          BY <5>1
        <5>3. QED
          BY <5>2
      <4>3. QED
        BY <4>1, <4>2, Zenon DEF Surjection
    <3>2. IsFiniteSet(names) /\ Cardinality(names) <= Cardinality(req)
      <4> HIDE DEF f, names, req
      <4>1. QED
        BY <3>1, <2>3, FS_Surjection
    <3>3. IsFiniteSet(got) /\ Cardinality(got) <= Cardinality(names)
      BY <3>2, <2>1, FS_Subset
    <3>4. Cardinality(got) \in Nat /\ Cardinality(names) \in Nat
      BY <3>2, <3>3, FS_CardinalityType
    <3>5. QED
      <4> HIDE DEF f, got, names, req
      <4>1. QED
        BY <3>2, <3>3, <3>4, <2>3
  <2>5. Cardinality(InFlight') = Cardinality(InFlight) - Cardinality(req)
    <3>1. InFlight \cap req = req
      BY <2>2
    <3>2. IsFiniteSet(InFlight)
      BY FiniteSets
    <3>3. Cardinality(InFlight \ req) = Cardinality(InFlight) - Cardinality(InFlight \cap req)
      BY <3>2, FS_Difference, Zenon
    <3>4. QED
      BY <3>1, <3>3, <2>2, Zenon
  <2>6. blockPool' = blockPool \cup got
    BY <1>6 DEF Deliver
  <2>7. Cardinality(blockPool') <= Cardinality(blockPool) + Cardinality(got)
    <3>1. IsFiniteSet(blockPool \cap got) /\ Cardinality(blockPool \cap got) \in Nat
      BY FiniteSets, FS_Intersection, FS_CardinalityType, Zenon
    <3>2. Cardinality(blockPool \cup got)
             = Cardinality(blockPool) + Cardinality(got) - Cardinality(blockPool \cap got)
      BY <2>4, FiniteSets, FS_Union, Zenon
    <3>3. QED
      <4> DEFINE a == Cardinality(blockPool)
                 b == Cardinality(got)
                 c == Cardinality(blockPool \cap got)
      <4>1. a \in Nat /\ b \in Nat /\ c \in Nat
        BY <3>1, <2>4, FiniteSets
      <4>2. Cardinality(blockPool') = a + b - c
        BY <3>2, <2>6
      <4> HIDE DEF a, b, c
      <4>3. Cardinality(blockPool') <= a + b
        BY <4>1, <4>2
      <4>4. QED
        BY <4>3 DEF a, b
  <2>8. Cardinality(blockPool') \in Nat
    BY FiniteSets, <2>4, <2>6, FS_Union, FS_CardinalityType, Zenon
  <2> HIDE DEF got, req, names
  <2>9. QED
    BY <2>3, <2>4, <2>5, <2>7, <2>8, FiniteSets DEF NotOvercommitted
<1>7. CASE TakeBlocks
  <2>1. blockPool' \subseteq blockPool /\ pendPool' = pendPool
    BY <1>7, Zenon DEF TakeBlocks, poolVars
  <2>2. QED
    BY <1>3, <2>1
<1>8. ASSUME NEW hs \in HashLists, Insert(hs) PROVE NotOvercommitted'
  BY <1>3, <1>8 DEF Insert, cacheVars
<1>9. CASE Prepare(start) \/ Sent \/ UNCHANGED vars
  BY <1>3, <1>9 DEF Prepare, Sent, vars, poolVars, cacheVars
<1>10. QED
  BY <1>1, <1>2, <1>4, <1>5, <1>6, <1>7, <1>8, <1>9, Zenon DEF Next, Fetch, AnyInsert

\* The empty queue asks for nothing.
LEMMA InitRoom == Init => NotOvercommitted
<1> SUFFICES ASSUME Init PROVE NotOvercommitted
  OBVIOUS
<1>1. blockPool = {} /\ InFlight = {}
  BY DEF Init, EmptyQueue, InFlight
<1>2. QED
  BY <1>1, FS_EmptySet, SyncQueueAssumption DEF NotOvercommitted

\* The blocks kept and the blocks asked for never outnumber the cache slots.
THEOREM RoomAlways == Spec => []NotOvercommitted
<1>1. QED
  BY InitType, NextType, InitRoom, RoomStep, PTL DEF Spec

-----------------------------------------------------------------------------
(* The order of the blocks handed over.  A cached block sits in the slot of *)
(* its height, and the cache is empty until Prepare has fixed the offset.   *)

Aligned ==
    /\ \A k \in Slots :
          blockCache[k] # NoBlock => /\ blockCache[k] \in blockPool
                                     /\ Height[blockCache[k]] = blockOffset + k
    /\ ~prepared => feed = <<>> /\ \A k \in Slots : blockCache[k] = NoBlock
    /\ InOrder

\* What TakeBlocks does, for the number n of blocks it takes
LEMMA TakeFacts ==
    ASSUME TypeOK, Aligned, TakeBlocks
    PROVE  \E n \in 1 .. CacheLimit :
             /\ \A k \in 0 .. n - 1 : /\ blockCache[k] \in blockPool
                                      /\ blockCache[k] \in Hash
                                      /\ Height[blockCache[k]] = blockOffset + k
             /\ blockPool'   = blockPool \ {blockCache[k] : k \in 0 .. n - 1}
             /\ blockCache'  = Shifted(n)
             /\ blockOffset' = blockOffset + n
             /\ feed' \in Seq(Hash)
             /\ Len(feed') = Len(feed) + n
             /\ \A i \in 1 .. Len(feed) : feed'[i] = feed[i]
             /\ \A i \in 1 .. n : feed'[Len(feed) + i] = blockCache[i - 1]
<1>1. PICK n \in 1 .. CacheLimit :
         /\ \A k \in 0 .. n - 1 : blockCache[k] # NoBlock
         /\ blockPool'   = blockPool \ {blockCache[k] : k \in 0 .. n - 1}
         /\ blockCache'  = Shifted(n)
         /\ blockOffset' = blockOffset + n
         /\ feed' = feed \o [i \in 1 .. n |-> blockCache[i - 1]]
  BY DEF TakeBlocks
<1> DEFINE new == [i \in 1 .. n |-> blockCache[i - 1]]
<1>2. \A k \in 0 .. n - 1 : k \in Slots
  BY SyncQueueAssumption DEF Slots
<1>3. \A k \in 0 .. n - 1 : /\ blockCache[k] \in blockPool
                            /\ blockCache[k] \in Hash
                            /\ Height[blockCache[k]] = blockOffset + k
  BY <1>1, <1>2 DEF Aligned, TypeOK
<1>4. new \in Seq(Hash) /\ Len(new) = n
  <2>1. \A i \in 1 .. n : new[i] \in Hash
    BY <1>3, SyncQueueAssumption
  <2>2. QED
    BY <2>1
<1>5. /\ feed' \in Seq(Hash)
      /\ Len(feed') = Len(feed) + n
      /\ \A i \in 1 .. Len(feed) + n :
            feed'[i] = IF i <= Len(feed) THEN feed[i] ELSE new[i - Len(feed)]
  BY <1>1, <1>4 DEF TypeOK
<1>6. Len(feed) \in Nat
  BY DEF TypeOK
<1>7. \A i \in 1 .. n : new[i] = blockCache[i - 1]
  OBVIOUS
<1> HIDE DEF new
<1>8. \A i \in 1 .. Len(feed) : feed'[i] = feed[i]
  BY <1>5, <1>6
<1>9. \A i \in 1 .. n : feed'[Len(feed) + i] = blockCache[i - 1]
  <2> SUFFICES ASSUME NEW i \in 1 .. n PROVE feed'[Len(feed) + i] = blockCache[i - 1]
    OBVIOUS
  <2>1. n \in Nat
    BY SyncQueueAssumption
  <2>2. /\ Len(feed) + i \in 1 .. Len(feed) + n
        /\ ~(Len(feed) + i <= Len(feed))
        /\ (Len(feed) + i) - Len(feed) = i
    BY <2>1, <1>6
  <2>3. feed'[Len(feed) + i] = new[i]
    BY <2>2, <1>5
  <2>4. QED
    BY <2>3, <1>7
<1>10. QED
  BY <1>1, <1>3, <1>5, <1>8, <1>9, Zenon

\* Every operation keeps each cached block in the slot of its height.
LEMMA AlignedStep == TypeOK /\ Aligned /\ [Next]_vars => Aligned'
<1> SUFFICES ASSUME TypeOK, Aligned, [Next]_vars PROVE Aligned'
  OBVIOUS
<1> USE SyncQueueAssumption
<1>1. ASSUME Reset PROVE Aligned'
  BY <1>1 DEF Aligned, Reset, InOrder
<1>2. CASE Session
  BY <1>1, <1>2 DEF Session, Start, CancelSync
<1>3. ASSUME UNCHANGED cacheVars, prepared' = prepared PROVE Aligned'
  BY <1>3 DEF Aligned, cacheVars, InOrder
<1>4. CASE Prepare(start)
  BY <1>4 DEF Prepare, Aligned, InOrder
<1>5. ASSUME NEW p \in Peer, NEW bs \in BlockLists, Deliver(p, bs) PROVE Aligned'
  <2> DEFINE stored == StoredPositions(p, bs)
             got    == {bs[i] : i \in stored}
  <2>1. /\ blockCache' = CacheAfter(stored, bs)
        /\ blockPool' = blockPool \cup got
        /\ blockOffset' = blockOffset /\ feed' = feed
        /\ prepared /\ prepared' = prepared
    BY <1>5 DEF Deliver, sessionVars
  <2>2. \A i \in stored : bs[i] \in Hash
    <3>1. bs \in Seq(Hash)
      OBVIOUS
    <3>2. QED
      <4>1. \A i \in stored : i \in DOMAIN bs
        BY DEF StoredPositions, RequestedPositions
      <4> HIDE DEF stored
      <4>2. QED
        BY <3>1, <4>1
  <2>3. ASSUME NEW k \in Slots, blockCache'[k] # NoBlock
        PROVE  blockCache'[k] \in blockPool' /\ Height[blockCache'[k]] = blockOffset' + k
    <3> DEFINE Last(i) == /\ Index(bs[i]) = k
                          /\ \A j \in stored : Index(bs[j]) = k => j <= i
    <3>1. blockCache'[k] = IF \E i \in stored : Last(i)
                           THEN bs[CHOOSE i \in stored : Last(i)]
                           ELSE blockCache[k]
      BY <2>1 DEF CacheAfter
    <3>2. CASE \E i \in stored : Last(i)
      <4>1. PICK i \in stored : Last(i) /\ i = CHOOSE j \in stored : Last(j)
        BY <3>2
      <4>2. blockCache'[k] = bs[i] /\ Index(bs[i]) = k
        BY <3>1, <3>2, <4>1
      <4>3. Height[bs[i]] \in Nat /\ blockOffset \in Nat
        BY <2>2 DEF TypeOK
      <4>4. k \in Int
        BY DEF Slots
      <4>5. Height[bs[i]] = blockOffset + k
        BY <4>2, <4>3, <4>4 DEF Index
      <4>6. QED
        BY <2>1, <4>2, <4>5
    <3>3. CASE ~ \E i \in stored : Last(i)
      BY <2>1, <2>3, <3>1, <3>3 DEF Aligned
    <3>4. QED
      BY <3>2, <3>3
  <2>4. InOrder'
    BY <2>1 DEF Aligned, InOrder
  <2>5. QED
    BY <2>1, <2>3, <2>4 DEF Aligned
<1>6. CASE TakeBlocks
  <2>1. PICK n \in 1 .. CacheLimit :
             /\ \A k \in 0 .. n - 1 : /\ blockCache[k] \in blockPool
                                      /\ blockCache[k] \in Hash
                                      /\ Height[blockCache[k]] = blockOffset + k
             /\ blockPool'   = blockPool \ {blockCache[k] : k \in 0 .. n - 1}
             /\ blockCache'  = Shifted(n)
             /\ blockOffset' = blockOffset + n
             /\ feed' \in Seq(Hash)
             /\ Len(feed') = Len(feed) + n
             /\ \A i \in 1 .. Len(feed) : feed'[i] = feed[i]
             /\ \A i \in 1 .. n : feed'[Len(feed) + i] = blockCache[i - 1]
    BY <1>6, TakeFacts
  <2>2. ASSUME NEW k \in Slots, blockCache'[k] # NoBlock
        PROVE  blockCache'[k] \in blockPool' /\ Height[blockCache'[k]] = blockOffset' + k
    <3>1. k + n \in Slots /\ blockCache'[k] = blockCache[k + n]
      <4>1. blockCache'[k] = IF k + n < CacheLimit THEN blockCache[k + n] ELSE NoBlock
        BY <2>1 DEF Shifted
      <4>2. k + n < CacheLimit /\ blockCache'[k] = blockCache[k + n]
        BY <4>1, <2>2
      <4>3. k + n \in Slots
        BY <4>2 DEF Slots
      <4>4. QED
        BY <4>2, <4>3
    <3>2. blockCache[k + n] \in blockPool /\ Height[blockCache[k + n]] = blockOffset + (k + n)
      BY <2>2, <3>1 DEF Aligned
    <3>3. blockOffset \in Nat /\ k \in Nat
      BY DEF TypeOK, Slots
    <3>4. \A j \in 0 .. n - 1 : blockCache[j] # blockCache[k + n]
      <4> SUFFICES ASSUME NEW j \in 0 .. n - 1 PROVE blockCache[j] # blockCache[k + n]
        OBVIOUS
      <4>1. n \in Nat /\ j \in Nat /\ j < n
        OBVIOUS
      <4>2. Height[blockCache[j]] = blockOffset + j
        BY <2>1
      <4>3. blockOffset + j # blockOffset + (k + n)
        BY <3>3, <4>1
      <4>4. QED
        BY <3>2, <4>2, <4>3
    <3>5. QED
      BY <2>1, <3>1, <3>2, <3>3, <3>4
  <2>3. prepared /\ prepared' = prepared
    <3>1. 0 \in Slots /\ 0 \in 0 .. n - 1
      BY DEF Slots
    <3>2. blockCache[0] # NoBlock
      BY <3>1, <2>1
    <3>3. QED
      BY <3>1, <3>2, <1>6 DEF Aligned, TakeBlocks, sessionVars
  <2>4. InOrder'
    <3>1. Len(feed) \in Nat /\ Len(feed') \in Nat /\ blockOffset \in Nat
          /\ DOMAIN feed = 1 .. Len(feed) /\ DOMAIN feed' = 1 .. Len(feed')
      BY <2>1 DEF TypeOK
    <3>a. Len(feed') = Len(feed) + n /\ blockOffset' = blockOffset + n /\ n \in Nat
      BY <2>1
    <3>2. ASSUME NEW i \in 1 .. Len(feed')
          PROVE  Height[feed'[i]] = blockOffset' - Len(feed') + i - 1
      <4>1. CASE i <= Len(feed)
        <5>1. i \in 1 .. Len(feed) /\ n \in Nat
          BY <4>1, <3>1
        <5>2. feed'[i] = feed[i]
          BY <5>1, <2>1
        <5>3. Height[feed[i]] = blockOffset - Len(feed) + i - 1
          BY <5>1, <3>1 DEF Aligned, InOrder
        <5>4. blockOffset' - Len(feed') = blockOffset - Len(feed)
          BY <3>a, <3>1, <5>1
        <5>5. QED
          BY <5>2, <5>3, <5>4
      <4>2. CASE i > Len(feed)
        <5>1. i - Len(feed) \in 1 .. n /\ Len(feed) + (i - Len(feed)) = i
          BY <4>2, <3>a, <3>1
        <5> DEFINE j == i - Len(feed)
        <5>a. feed'[Len(feed) + j] = blockCache[j - 1]
          BY <5>1, <2>1, Zenon
        <5>b. j - 1 \in 0 .. n - 1
          BY <5>1
        <5>2. feed'[i] = blockCache[j - 1] /\ j - 1 \in 0 .. n - 1
          BY <5>a, <5>b, <5>1
        <5>3. Height[feed'[i]] = blockOffset + ((i - Len(feed)) - 1)
          BY <5>2, <2>1
        <5>4. QED
          BY <5>3, <3>a, <3>1
      <4>3. QED
        BY <4>1, <4>2, <3>1
    <3>3. QED
      BY <3>1, <3>2 DEF InOrder
  <2>5. QED
    BY <2>2, <2>3, <2>4 DEF Aligned
<1>7. CASE \E p \in Peer : Reserve(p)
  BY <1>3, <1>7 DEF Reserve, sessionVars
<1>8. CASE Sent \/ Cancel \/ UNCHANGED vars
  BY <1>3, <1>8 DEF Sent, Cancel, vars, sessionVars
<1>9. CASE \E expired \in SUBSET {p \in Peer : pendPool[p] # {}} : Expire(expired)
  BY <1>3, <1>9, Zenon DEF Expire, sessionVars
<1>10. CASE AnyInsert
  BY <1>3, <1>10 DEF AnyInsert, Insert
<1>11. QED
  BY <1>2, <1>4, <1>5, <1>6, <1>7, <1>8, <1>9, <1>10, Zenon DEF Next, Fetch

\* The cache is empty at first.
LEMMA InitAligned == Init => Aligned
  BY DEF Init, EmptyQueue, Aligned, InOrder

\* Blocks are handed to InsertChain at consecutive heights.
THEOREM InOrderAlways == Spec => []InOrder
<1>1. Aligned => InOrder
  BY DEF Aligned
<1>2. QED
  BY <1>1, InitType, NextType, InitAligned, AlignedStep, PTL DEF Spec

-----------------------------------------------------------------------------
(* The queue implements BlockFeed.                                         *)

\* Every operation of the queue is a step of BlockFeed, or changes nothing
\* that BlockFeed speaks about.
LEMMA FeedStep ==
    TypeOK /\ TypeOK' /\ Aligned /\ [Next]_vars
        => [Feed!Restart \/ Feed!Begin \/ Feed!Schedule \/ Feed!HandOver]_Feed!feedVars
<1> SUFFICES ASSUME TypeOK, TypeOK', Aligned, [Next]_vars
             PROVE  [Feed!Restart \/ Feed!Begin \/ Feed!Schedule \/ Feed!HandOver]_Feed!feedVars
  OBVIOUS
<1> USE SyncQueueAssumption
<1> DEFINE todo == hashPool \cup blockPool
<1>1. CASE Session
  BY <1>1 DEF Session, Start, CancelSync, Reset, Feed!Restart
<1>2. CASE Prepare(start)
  <2>1. feed = <<>> /\ blockOffset' \in Nat /\ blockOffset' >= blockOffset
    BY <1>2 DEF Prepare, Aligned, TypeOK
  <2>2. QED
    BY <1>2, <2>1 DEF Prepare, poolVars, Feed!Begin
<1>3. ASSUME todo' = todo, blockOffset' = blockOffset, feed' = feed
      PROVE  UNCHANGED Feed!feedVars
  BY <1>3 DEF Feed!feedVars
<1>4. CASE \E p \in Peer : Reserve(p)
  BY <1>3, <1>4 DEF Reserve, cacheVars
<1>5. CASE Sent \/ Cancel \/ UNCHANGED vars
  BY <1>3, <1>5 DEF Sent, Cancel, vars, cacheVars, poolVars
<1>6. CASE \E expired \in SUBSET {p \in Peer : pendPool[p] # {}} : Expire(expired)
  BY <1>3, <1>6, Zenon DEF Expire, cacheVars
<1>7. ASSUME NEW p \in Peer, NEW bs \in BlockLists, Deliver(p, bs)
      PROVE  Feed!Schedule
  <2> DEFINE got == {bs[i] : i \in StoredPositions(p, bs)}
  <2>1. todo' \subseteq Hash
    BY DEF TypeOK
  <2>2. hashPool' = hashPool \ got /\ blockPool' = blockPool \cup got
        /\ blockOffset' = blockOffset /\ feed' = feed
    BY <1>7 DEF Deliver
  <2> HIDE DEF got
  <2>3. QED
    BY <2>1, <2>2 DEF Feed!Schedule
<1>8. CASE TakeBlocks
  <2>1. PICK n \in 1 .. CacheLimit :
             /\ \A k \in 0 .. n - 1 : /\ blockCache[k] \in blockPool
                                      /\ blockCache[k] \in Hash
                                      /\ Height[blockCache[k]] = blockOffset + k
             /\ blockPool'   = blockPool \ {blockCache[k] : k \in 0 .. n - 1}
             /\ blockCache'  = Shifted(n)
             /\ blockOffset' = blockOffset + n
             /\ feed' \in Seq(Hash)
             /\ Len(feed') = Len(feed) + n
             /\ \A i \in 1 .. Len(feed) : feed'[i] = feed[i]
             /\ \A i \in 1 .. n : feed'[Len(feed) + i] = blockCache[i - 1]
    BY <1>8, TakeFacts
  <2> DEFINE given == {feed'[i] : i \in Len(feed) + 1 .. Len(feed')}
             taken == {blockCache[k] : k \in 0 .. n - 1}
  <2>2. Len(feed) \in Nat /\ n \in Nat /\ blockOffset \in Nat
    BY DEF TypeOK
  <2>a. Len(feed') = Len(feed) + n /\ n > 0
    BY <2>1
  <2>3. given = taken
    <3>1. ASSUME NEW h \in given PROVE h \in taken
      <4>1. PICK i \in Len(feed) + 1 .. Len(feed) + n : h = feed'[i]
        BY <2>1
      <4>2. i - Len(feed) \in 1 .. n /\ Len(feed) + (i - Len(feed)) = i
        BY <2>2
      <4> DEFINE j == i - Len(feed)
      <4>a. feed'[Len(feed) + j] = blockCache[j - 1]
        BY <4>2, <2>1, Zenon
      <4>b. j - 1 \in 0 .. n - 1
        BY <4>2, <2>2
      <4>3. h = blockCache[j - 1] /\ j - 1 \in 0 .. n - 1
        BY <4>1, <4>2, <4>a, <4>b
      <4>4. QED
        BY <4>3
    <3>2. ASSUME NEW h \in taken PROVE h \in given
      <4>1. PICK k \in 0 .. n - 1 : h = blockCache[k]
        OBVIOUS
      <4> DEFINE j == k + 1
      <4>a. j \in 1 .. n /\ j - 1 = k
        BY <2>2
      <4>b. feed'[Len(feed) + j] = blockCache[j - 1]
        BY <4>a, <2>1, Zenon
      <4>2. feed'[Len(feed) + (k + 1)] = blockCache[(k + 1) - 1] /\ (k + 1) - 1 = k
        BY <4>a, <4>b
      <4>3. Len(feed) + (k + 1) \in Len(feed) + 1 .. Len(feed')
        BY <2>a, <2>2
      <4>4. QED
        BY <4>1, <4>2, <4>3
    <3>3. QED
      BY <3>1, <3>2, Zenon
  <2>4. given \subseteq todo
    BY <2>1, <2>3, Zenon
  <2>5. \A i \in 1 .. n : Height[feed'[Len(feed) + i]] = blockOffset + i - 1
    <3> SUFFICES ASSUME NEW i \in 1 .. n
                 PROVE  Height[feed'[Len(feed) + i]] = blockOffset + i - 1
      OBVIOUS
    <3>1. i - 1 \in 0 .. n - 1 /\ blockOffset + (i - 1) = blockOffset + i - 1
      BY <2>2
    <3>2. QED
      BY <3>1, <2>1
  <2>6. hashPool' = hashPool
    BY <1>8 DEF TakeBlocks, poolVars
  <2>7. todo' \subseteq todo /\ todo \ given \subseteq todo'
    BY <2>1, <2>3, <2>6, Zenon
  <2>8. Len(feed') - Len(feed) = n /\ n > 0
    BY <2>a, <2>2
  <2> HIDE DEF given, taken
  <2>9. Feed!HandOver
    <3>1. given = {feed'[i] : i \in Len(feed) + 1 .. Len(feed')}
      BY DEF given
    <3>2. QED
      BY <2>1, <2>4, <2>5, <2>7, <2>8, <3>1, Zenon DEF Feed!HandOver
  <2>10. QED
    BY <2>9
<1>9. CASE AnyInsert
  <2>1. hashPool \subseteq hashPool' /\ blockPool' = blockPool
        /\ blockOffset' = blockOffset /\ feed' = feed
    BY <1>9 DEF AnyInsert, Insert, cacheVars
  <2>2. todo' \subseteq Hash
    BY DEF TypeOK
  <2>3. Feed!Schedule
    BY <2>1, <2>2 DEF Feed!Schedule
  <2>4. QED
    BY <2>3
<1>10. QED
  BY <1>1, <1>2, <1>4, <1>5, <1>6, <1>7, <1>8, <1>9, Zenon DEF Next, Fetch

\* Every behaviour of the queue, with any peers, is one of BlockFeed: blocks
\* come out in order and without gaps, only scheduled ones do, and nothing
\* scheduled goes away before the next Reset.
THEOREM QueueImplementsBlockFeed == Spec => ImplementsBlockFeed
<1>1. Init => Feed!Init
  BY DEF Init, EmptyQueue, Feed!Init
<1>2. QED
  BY <1>1, InitType, NextType, InitAligned, AlignedStep, FeedStep, PTL
     DEF Spec, ImplementsBlockFeed, Feed!Spec
=============================================================================
