----------------------- MODULE SyncQueueHonestProofs -----------------------
(* A synchronisation with a peer whose answers to the requests for hashes   *)
(* are contiguous: every block asked for finds a slot, and no scheduled     *)
(* hash is forgotten.                                                      *)
EXTENDS SyncQueueProofs

todo == hashPool \cup blockPool

\* The lowest height not handed over yet
Base == IF prepared THEN blockOffset ELSE start

\* The n-th hash inserted is at height start + n - 1, its priority is -n.
Ranked(e) == Height[e[1]] = start - e[2] - 1

\* Until a cancellation, the heights from Base up to from are each those of
\* exactly one hash that is scheduled or delivered.  Since hashes are asked
\* for in the order of their heights, everything below a hash asked for takes
\* a place in the cache as well: this bounds the heights in flight.
HonestInv ==
    ~cancelled =>
      /\ hashCounter = from - start
      /\ Base <= from
      /\ ~prepared => blockOffset = 0 /\ \A p \in Peer : pendPool[p] = {}
      /\ \A h \in todo : Base <= Height[h] /\ Height[h] < from
      /\ \A g, h \in todo : Height[g] = Height[h] => g = h
      /\ \A n \in Base .. from - 1 : \E h \in todo : Height[h] = n
      /\ hashPool \cap blockPool = {}
      /\ \A h \in hashPool : \/ \E e \in hashQueue : e[1] = h
                             \/ \E p \in Peer : \E e \in pendPool[p] : e[1] = h
      /\ \A e \in hashQueue : Ranked(e)
      /\ \A p \in Peer : \A e \in pendPool[p] :
            Ranked(e) /\ Height[e[1]] < Base + CacheLimit

\* The empty queue satisfies the invariant.
LEMMA InitHonest == Init => HonestInv
<1> SUFFICES ASSUME Init PROVE HonestInv
  OBVIOUS
<1>1. todo = {} /\ hashQueue = {} /\ pendPool = [p \in Peer |-> {}]
  BY DEF Init, EmptyQueue, todo
<1>2. Base = start /\ from = start /\ start \in Nat /\ blockOffset = 0 /\ hashCounter = 0
  BY SyncQueueAssumption DEF Init, EmptyQueue, Base
<1>3. hashPool = {} /\ blockPool = {}
  BY <1>1 DEF todo
<1>4. QED
  BY <1>1, <1>2, <1>3 DEF HonestInv

\* The heights of what is in flight index slots of the cache.
LEMMA SlotsForRequests ==
    ASSUME TypeOK, Owned, HonestInv, ~cancelled
    PROVE  \A p \in Peer : \A e \in pendPool[p] : Index(e[1]) \in Slots
<1> SUFFICES ASSUME NEW p \in Peer, NEW e \in pendPool[p]
             PROVE  Index(e[1]) \in Slots
  OBVIOUS
<1>1. prepared
  BY DEF HonestInv
<1>2. e[1] \in todo /\ e[1] \in Hash
  BY DEF Owned, todo, TypeOK, Entry
<1>3. blockOffset <= Height[e[1]] /\ Height[e[1]] < blockOffset + CacheLimit
  BY <1>1, <1>2 DEF HonestInv, Base
<1>4. Height[e[1]] \in Nat /\ blockOffset \in Nat /\ CacheLimit \in Nat
  BY <1>2, SyncQueueAssumption DEF TypeOK
<1>5. QED
  BY <1>3, <1>4 DEF Index, Slots

\* Whatever Reserve pops lies less than CacheLimit above Base: each height
\* from Base up to it belongs to a hash kept, in flight or popped as well.
LEMMA PoppedIsNear ==
    ASSUME TypeOK, Owned, NotOvercommitted, HonestInv, ~cancelled,
           NEW p \in Peer, NEW popped \in SUBSET hashQueue, PoppedBy(p, popped),
           NEW e \in popped
    PROVE  Height[e[1]] < Base + CacheLimit
<1> DEFINE m     == Height[e[1]]
           flown == {x[2][1] : x \in InFlight}
           names == {f[1] : f \in popped}
           near  == (blockPool \cup flown) \cup names
<1>1. /\ e[1] \in Hash /\ e[1] \in todo /\ m \in Nat /\ Base \in Nat
      /\ Base <= m /\ m < from /\ from \in Nat /\ CacheLimit \in Nat
  BY SyncQueueAssumption DEF TypeOK, Entry, Owned, todo, Base, HonestInv
<1>2. /\ IsFiniteSet(flown) /\ Cardinality(flown) \in Nat
      /\ Cardinality(flown) <= Cardinality(InFlight)
  <2> DEFINE f == [x \in InFlight |-> x[2][1]]
  <2>1. f \in Surjection(InFlight, flown)
    BY DEF Surjection
  <2>2. QED
    BY <2>1, FiniteSets, FS_Surjection, FS_CardinalityType
<1>3. /\ IsFiniteSet(names) /\ Cardinality(names) \in Nat
      /\ Cardinality(names) <= Cardinality(popped)
  <2> DEFINE f == [x \in popped |-> x[1]]
  <2>1. f \in Surjection(popped, names)
    BY DEF Surjection
  <2>2. QED
    BY <2>1, PoppedFits, FS_Surjection, FS_CardinalityType
<1>4. IsFiniteSet(near) /\ Cardinality(near) \in Nat /\ Cardinality(near) <= CacheLimit
  <2> DEFINE part == blockPool \cup flown
  <2>1. /\ IsFiniteSet(part) /\ Cardinality(part) \in Nat
        /\ Cardinality(part) <= Cardinality(blockPool) + Cardinality(flown)
    <3>1. IsFiniteSet(blockPool \cap flown) /\ Cardinality(blockPool \cap flown) \in Nat
      BY FiniteSets, FS_Intersection, FS_CardinalityType, Zenon
    <3>2. /\ IsFiniteSet(part)
          /\ Cardinality(part) = Cardinality(blockPool) + Cardinality(flown)
                                   - Cardinality(blockPool \cap flown)
      BY <1>2, FiniteSets, FS_Union
    <3>3. QED
      BY <3>1, <3>2, <1>2, FiniteSets, FS_CardinalityType
  <2>2. near = part \cup names
    OBVIOUS
  <2> HIDE DEF part, names, flown, near
  <2>3. /\ IsFiniteSet(near) /\ Cardinality(near) \in Nat
        /\ Cardinality(near) <= Cardinality(part) + Cardinality(names)
    <3>1. IsFiniteSet(part \cap names) /\ Cardinality(part \cap names) \in Nat
      BY <2>1, FS_Intersection, FS_CardinalityType, Zenon
    <3>2. /\ IsFiniteSet(part \cup names)
          /\ Cardinality(part \cup names) = Cardinality(part) + Cardinality(names)
                                   - Cardinality(part \cap names)
      BY <1>3, <2>1, FS_Union
    <3>3. QED
      BY <2>2, <3>1, <3>2, <1>3, <2>1, FS_CardinalityType
  <2>4. QED
    BY <2>1, <2>3, <1>1, <1>2, <1>3, PoppedFits, FiniteSets
<1>5. \A n \in Base .. m : \E h \in near : Height[h] = n
  <2> SUFFICES ASSUME NEW n \in Base .. m PROVE \E h \in near : Height[h] = n
    OBVIOUS
  <2>1. n \in Base .. from - 1
    BY <1>1
  <2>2. PICK h \in todo : Height[h] = n
    BY <2>1 DEF HonestInv
  <2>3. CASE h \in blockPool
    BY <2>2, <2>3
  <2>4. CASE \E q \in Peer : \E f \in pendPool[q] : f[1] = h
    <3>0. PICK q \in Peer : \E f \in pendPool[q] : f[1] = h
      BY <2>4
    <3>1. PICK f \in pendPool[q] : f[1] = h
      BY <3>0
    <3>2. <<q, f>> \in InFlight /\ <<q, f>>[2][1] = h
      BY <3>1 DEF InFlight, TypeOK
    <3>3. h \in flown
      BY <3>2
    <3>4. QED
      BY <3>3, <2>2
  <2>5. CASE \E f \in hashQueue : f[1] = h
    <3>1. PICK f \in hashQueue : f[1] = h
      BY <2>5
    <3>2. f[2] \in Int /\ e[2] \in Int /\ start \in Int
      BY DEF TypeOK, Entry, Priority
    <3>3. n = start - f[2] - 1 /\ m = start - e[2] - 1 /\ n <= m
      BY <3>1, <2>2, <1>1 DEF HonestInv, Ranked
    <3>4. ~(e[2] > f[2])
      BY <3>2, <3>3
    <3>5. f \in popped
      BY <3>4 DEF PoppedBy
    <3>6. QED
      BY <3>1, <3>5, <2>2
  <2>6. QED
    BY <2>3, <2>4, <2>5 DEF HonestInv, todo
<1>6. Cardinality(Base .. m) <= Cardinality(near)
  <2> DEFINE g == [n \in Base .. m |-> CHOOSE h \in near : Height[h] = n]
  <2>1. \A n \in Base .. m : g[n] \in near /\ Height[g[n]] = n
    BY <1>5
  <2>2. g \in Injection(Base .. m, near)
    <3>1. g \in [Base .. m -> near]
      BY <2>1
    <3>2. \A a, b \in Base .. m : g[a] = g[b] => a = b
      BY <2>1, Zenon
    <3>3. QED
      BY <3>1, <3>2, Zenon DEF Injection, IsInjective
  <2>3. QED
    BY <2>2, <1>4, FS_Injection
<1>7. Cardinality(Base .. m) = m - Base + 1
  BY <1>1, FS_Interval
<1> HIDE DEF m, near
<1>8. m < Base + CacheLimit
  BY <1>1, <1>4, <1>6, <1>7
<1>9. QED
  BY <1>8 DEF m

\* Every operation keeps the invariant when Insert gets contiguous hashes.
LEMMA HonestStep ==
    TypeOK /\ TypeOK' /\ Owned /\ Owned' /\ NotOvercommitted /\ Aligned /\ HonestInv
       /\ [HonestNext]_vars => HonestInv'
<1> SUFFICES ASSUME TypeOK, TypeOK', Owned, Owned', NotOvercommitted, Aligned, HonestInv,
                    [HonestNext]_vars, ~cancelled'
             PROVE  HonestInv'
  BY DEF HonestInv
<1> USE SyncQueueAssumption
<1>1. ASSUME NEW n \in Starts, Start(n) PROVE HonestInv'
  <2>1. /\ hashPool' = {} /\ blockPool' = {} /\ hashQueue' = {}
        /\ \A p \in Peer : pendPool'[p] = {}
        /\ hashCounter' = 0 /\ blockOffset' = 0
        /\ start' = n /\ from' = n /\ ~prepared' /\ n \in Nat
    BY <1>1 DEF Start, Reset
  <2>2. todo' = {} /\ Base' = n
    BY <2>1 DEF todo, Base
  <2>3. QED
    BY <2>1, <2>2 DEF HonestInv
<1>2. CASE CancelSync
  BY <1>2 DEF CancelSync
<1>3. ASSUME cancelled' = cancelled PROVE ~cancelled
  BY <1>3
<1>4. CASE Prepare(start)
  <2>1. ~cancelled /\ ~prepared /\ prepared' /\ blockOffset = 0 /\ start \in Nat
    BY <1>3, <1>4 DEF Prepare, HonestInv, TypeOK
  <2>2. blockOffset' = start
    BY <1>4, <2>1 DEF Prepare
  <2>3. Base' = Base /\ todo' = todo
    BY <1>4, <2>1, <2>2 DEF Base, todo, Prepare, poolVars
  <2>4. QED
    BY <1>4, <2>1, <2>3 DEF HonestInv, Ranked, Prepare, poolVars
<1>5. ASSUME NEW p \in Peer, Reserve(p) PROVE HonestInv'
  <2>0. ~cancelled /\ prepared /\ prepared' = prepared
    BY <1>3, <1>5 DEF Reserve, sessionVars
  <2>1. PICK popped \in SUBSET hashQueue :
           /\ PoppedBy(p, popped)
           /\ hashQueue' = hashQueue \ SendOf(p, popped)
           /\ pendPool'  = [pendPool EXCEPT ![p] = SendOf(p, popped)]
    BY <1>5, <2>0, ReserveMoves
  <2> DEFINE send == SendOf(p, popped)
  <2>2. send \subseteq popped /\ pendPool[p] = {}
    BY <1>5 DEF SendOf, LastPopped, Reserve
  <2>3. \A q \in Peer : pendPool'[q] = IF q = p THEN send ELSE pendPool[q]
    BY <2>1 DEF TypeOK
  <2>4. Base' = Base /\ todo' = todo /\ hashPool' = hashPool /\ blockPool' = blockPool
        /\ from' = from /\ start' = start /\ hashCounter' = hashCounter
    BY <1>5 DEF Reserve, Base, todo, cacheVars, sessionVars
  <2>5. \A e \in send : Ranked(e) /\ Height[e[1]] < Base + CacheLimit
    BY <2>0, <2>1, <2>2, PoppedIsNear DEF HonestInv
  <2>6. hashQueue' = hashQueue \ send
    BY <2>1
  <2> HIDE DEF send
  <2>7. \A h \in hashPool' : \/ \E e \in hashQueue' : e[1] = h
                             \/ \E q \in Peer : \E e \in pendPool'[q] : e[1] = h
    <3> SUFFICES ASSUME NEW h \in hashPool,
                        ~ \E e \in hashQueue' : e[1] = h
                 PROVE  \E q \in Peer : \E e \in pendPool'[q] : e[1] = h
      BY <2>4
    <3>1. CASE \E e \in hashQueue : e[1] = h
      <4>1. PICK e \in send : e[1] = h
        BY <2>6, <3>1
      <4>2. QED
        BY <4>1, <2>3
    <3>2. CASE \E q \in Peer : \E e \in pendPool[q] : e[1] = h
      BY <3>2, <2>2, <2>3
    <3>3. QED
      BY <3>1, <3>2, <2>0 DEF HonestInv
  <2>8. QED
    BY <2>0, <2>2, <2>3, <2>4, <2>5, <2>6, <2>7 DEF HonestInv, Ranked
<1>6. ASSUME UNCHANGED <<hashCounter, hashPool, cacheVars, sessionVars>>,
             \A e \in hashQueue : e \in hashQueue',
             \A e \in hashQueue' : e \in hashQueue \/ \E p \in Peer : e \in pendPool[p],
             \A p \in Peer : pendPool'[p] \subseteq pendPool[p],
             \A p \in Peer : \A e \in pendPool[p] : e \in pendPool'[p] \/ e \in hashQueue'
      PROVE  HonestInv'
  <2>1. ~cancelled
    BY <1>3, <1>6 DEF sessionVars
  <2>2. Base' = Base /\ todo' = todo /\ hashPool' = hashPool /\ blockPool' = blockPool
        /\ from' = from /\ start' = start /\ hashCounter' = hashCounter
        /\ prepared' = prepared /\ blockOffset' = blockOffset
    BY <1>6 DEF Base, todo, cacheVars, sessionVars
  <2>3. \A h \in hashPool' : \/ \E e \in hashQueue' : e[1] = h
                             \/ \E q \in Peer : \E e \in pendPool'[q] : e[1] = h
    BY <1>6, <2>1, <2>2 DEF HonestInv
  <2>4. QED
    BY <1>6, <2>1, <2>2, <2>3 DEF HonestInv, Ranked
<1>7. CASE Sent \/ UNCHANGED vars
  BY <1>6, <1>7 DEF Sent, vars, poolVars
<1>8. CASE Cancel
  <2>1. unsent \in Peer
    BY <1>8 DEF Cancel, TypeOK
  <2>2. \A p \in Peer : pendPool'[p] = IF p = unsent THEN {} ELSE pendPool[p]
    BY <1>8, <2>1 DEF Cancel, TypeOK
  <2>3. hashQueue' = hashQueue \cup pendPool[unsent]
    BY <1>3, <1>8 DEF Cancel, sessionVars, Owned
  <2>4. UNCHANGED <<hashCounter, hashPool, cacheVars, sessionVars>>
    BY <1>8 DEF Cancel
  <2>5. QED
    BY <1>6, <2>1, <2>2, <2>3, <2>4
<1>9. ASSUME NEW expired \in SUBSET {p \in Peer : pendPool[p] # {}}, Expire(expired)
      PROVE  HonestInv'
  <2>1. \A p \in Peer : pendPool'[p] = IF p \in expired THEN {} ELSE pendPool[p]
    BY <1>9 DEF Expire
  <2>2. hashQueue' = hashQueue \cup UNION {pendPool[p] : p \in expired}
    BY <1>9 DEF Expire
  <2>3. \A e : e \in hashQueue' <=> e \in hashQueue \/ \E p \in expired : e \in pendPool[p]
    BY <2>2
  <2>4. UNCHANGED <<hashCounter, hashPool, cacheVars, sessionVars>>
    BY <1>9 DEF Expire
  <2>5. QED
    BY <1>6, <2>1, <2>3, <2>4
<1>10. ASSUME NEW p \in Peer, NEW bs \in BlockLists, Deliver(p, bs) PROVE HonestInv'
  <2> DEFINE got  == {bs[i] : i \in StoredPositions(p, bs)}
             back == {e \in pendPool[p] : e[1] \notin got}
  <2>0. ~cancelled /\ prepared /\ prepared' = prepared
    BY <1>3, <1>10 DEF Deliver, sessionVars
  <2>1. BadPositions(p, bs) = {}
    BY <2>0, SlotsForRequests DEF BadPositions, RequestedPositions, HashesOf
  <2>2. hashQueue' = hashQueue \cup back
    BY <1>10, <2>1 DEF Deliver, GiveBack
  <2>3. hashPool' = hashPool \ got /\ blockPool' = blockPool \cup got
    BY <1>10 DEF Deliver
  <2>4. \A q \in Peer : pendPool'[q] = IF q = p THEN {} ELSE pendPool[q]
    BY <1>10 DEF Deliver, TypeOK
  <2>5. got \subseteq hashPool
    BY <2>0 DEF StoredPositions, RequestedPositions, HashesOf, Owned
  <2>6. back \subseteq pendPool[p] /\ \A e \in pendPool[p] : e \in back \/ e[1] \in got
    OBVIOUS
  <2> HIDE DEF got, back
  <2>7. todo' = todo /\ hashPool' \cap blockPool' = {}
    BY <2>0, <2>3, <2>5 DEF todo, HonestInv
  <2>8. Base' = Base /\ from' = from /\ start' = start /\ hashCounter' = hashCounter
        /\ blockOffset' = blockOffset
    BY <1>10 DEF Base, Deliver, sessionVars
  <2>9. \A h \in hashPool' : \/ \E e \in hashQueue' : e[1] = h
                             \/ \E q \in Peer : \E e \in pendPool'[q] : e[1] = h
    <3> SUFFICES ASSUME NEW h \in hashPool, h \notin got
                 PROVE  \/ \E e \in hashQueue' : e[1] = h
                        \/ \E q \in Peer : \E e \in pendPool'[q] : e[1] = h
      BY <2>3
    <3>1. CASE \E e \in hashQueue : e[1] = h
      BY <3>1, <2>2
    <3>2. CASE \E q \in Peer : \E e \in pendPool[q] : e[1] = h
      <4>1. PICK q \in Peer : \E e \in pendPool[q] : e[1] = h
        BY <3>2
      <4>2. CASE q = p
        BY <4>1, <4>2, <2>2, <2>6
      <4>3. CASE q # p
        BY <4>1, <4>3, <2>4
      <4>4. QED
        BY <4>2, <4>3
    <3>3. QED
      BY <3>1, <3>2, <2>0, Zenon DEF HonestInv
  <2>10. \A e \in hashQueue' : Ranked(e)'
    BY <2>0, <2>2, <2>6, <2>8 DEF HonestInv, Ranked
  <2>11. \A q \in Peer : \A e \in pendPool'[q] :
            Ranked(e)' /\ Height[e[1]] < Base' + CacheLimit
    BY <2>0, <2>4, <2>8 DEF HonestInv, Ranked
  <2>12. QED
    BY <2>0, <2>7, <2>8, <2>9, <2>10, <2>11 DEF HonestInv
<1>11. CASE TakeBlocks
  <2>0. /\ ~cancelled /\ prepared' = prepared /\ from' = from /\ start' = start
        /\ UNCHANGED poolVars
    BY <1>3, <1>11 DEF TakeBlocks, sessionVars
  <2>1. PICK n \in 1 .. CacheLimit :
             /\ \A k \in 0 .. n - 1 : /\ blockCache[k] \in blockPool
                                      /\ blockCache[k] \in Hash
                                      /\ Height[blockCache[k]] = blockOffset + k
             /\ blockPool'   = blockPool \ {blockCache[k] : k \in 0 .. n - 1}
             /\ blockOffset' = blockOffset + n
    BY <1>11, TakeFacts
  <2> DEFINE taken == {blockCache[k] : k \in 0 .. n - 1}
  <2>2. prepared
    <3>1. 0 \in Slots /\ 0 \in 0 .. n - 1
      BY DEF Slots
    <3>2. blockCache[0] # NoBlock
      BY <3>1, <2>1
    <3>3. QED
      BY <3>1, <3>2 DEF Aligned
  <2>3. Base = blockOffset /\ Base' = blockOffset + n /\ blockOffset \in Nat /\ n \in Nat
    BY <2>0, <2>1, <2>2 DEF Base, TypeOK
  <2>4. taken \subseteq blockPool /\ \A h \in taken : Height[h] < blockOffset + n
    BY <2>1, <2>3
  <2>5. todo \subseteq Hash /\ \A h \in todo : Height[h] \in Nat
    BY DEF todo, TypeOK
  <2>6. todo' = todo \ taken
    <3>1. hashPool' = hashPool /\ blockPool' = blockPool \ taken
      BY <2>0, <2>1 DEF poolVars
    <3>2. hashPool \cap taken = {}
      BY <2>0, <2>4 DEF HonestInv
    <3> HIDE DEF taken
    <3>3. QED
      BY <3>1, <3>2 DEF todo
  <2>7. ASSUME NEW h \in todo' PROVE Base' <= Height[h] /\ Height[h] < from'
    <3>1. h \in todo /\ h \notin taken /\ blockOffset <= Height[h] /\ Height[h] < from
      BY <2>0, <2>3, <2>6 DEF HonestInv
    <3>2. CASE Height[h] < blockOffset + n
      <4> DEFINE k == Height[h] - blockOffset
      <4>1. k \in 0 .. n - 1 /\ blockOffset + k = Height[h]
        BY <3>1, <3>2, <2>3, <2>5
      <4>2. blockCache[k] \in todo /\ Height[blockCache[k]] = Height[h]
        BY <4>1, <2>1 DEF todo
      <4>3. blockCache[k] = h
        BY <4>2, <3>1, <2>0, Zenon DEF HonestInv
      <4>4. h \in taken
        BY <4>1, <4>3
      <4>5. QED
        BY <4>4, <3>1
    <3>3. CASE ~(Height[h] < blockOffset + n)
      BY <3>1, <3>3, <2>0, <2>3, <2>5
    <3>4. QED
      BY <3>2, <3>3
  <2>8. ASSUME NEW i \in Base' .. from' - 1 PROVE \E h \in todo' : Height[h] = i
    <3>1. i \in Base .. from - 1 /\ i >= blockOffset + n
      BY <2>0, <2>3 DEF TypeOK
    <3>2. PICK h \in todo : Height[h] = i
      BY <3>1, <2>0 DEF HonestInv
    <3>3. h \notin taken
      BY <3>1, <3>2, <2>3, <2>4
    <3>4. QED
      BY <3>2, <3>3, <2>6
  <2>9. \A q \in Peer : \A e \in pendPool'[q] :
           Ranked(e)' /\ Height[e[1]] < Base' + CacheLimit
    <3> SUFFICES ASSUME NEW q \in Peer, NEW e \in pendPool[q]
                 PROVE  Ranked(e)' /\ Height[e[1]] < Base' + CacheLimit
      BY <2>0 DEF poolVars
    <3>1. Ranked(e) /\ Height[e[1]] < Base + CacheLimit
      BY <2>0 DEF HonestInv
    <3>2. e[1] \in Hash /\ Height[e[1]] \in Nat /\ CacheLimit \in Nat
      BY DEF TypeOK, Entry
    <3>3. QED
      BY <3>1, <3>2, <2>0, <2>3 DEF Ranked
  <2>10. \A e \in hashQueue' : Ranked(e)'
    BY <2>0 DEF HonestInv, Ranked, poolVars
  <2>11. \A g, h \in todo' : Height[g] = Height[h] => g = h
    BY <2>0, <2>6 DEF HonestInv
  <2>12. hashPool' \cap blockPool' = {}
    BY <2>0, <2>1 DEF HonestInv, poolVars
  <2>13. /\ hashCounter' = from' - start' /\ prepared'
         /\ \A h \in hashPool' : \/ \E e \in hashQueue' : e[1] = h
                                 \/ \E q \in Peer : \E e \in pendPool'[q] : e[1] = h
    BY <2>0, <2>2 DEF HonestInv, poolVars
  <2> HIDE DEF taken
  <2>14. Base' <= from'
    <3>1. n - 1 \in 0 .. n - 1 /\ from \in Nat
      BY <2>3 DEF TypeOK
    <3>2. blockCache[n - 1] \in todo /\ Height[blockCache[n - 1]] = blockOffset + (n - 1)
      BY <2>1, <3>1 DEF todo
    <3>a. \A h \in todo : Height[h] < from
      BY <2>0, Zenon DEF HonestInv
    <3>3. blockOffset + (n - 1) < from
      BY <3>2, <3>a
    <3>4. QED
      BY <3>1, <3>3, <2>0, <2>3
  <2>15. QED
    BY <2>14, <2>7, <2>8, <2>9, <2>10, <2>11, <2>12, <2>13 DEF HonestInv
<1>12. ASSUME NEW hs \in HashLists, Contiguous(hs), Insert(hs) PROVE HonestInv'
  <2> DEFINE fresh == FreshPositions(hs)
             N     == Len(hs)
             new   == {hs[i] : i \in 1 .. N}
  <2>0. /\ ~cancelled /\ prepared' = prepared /\ start' = start
        /\ blockOffset' = blockOffset /\ blockPool' = blockPool /\ pendPool' = pendPool
    BY <1>3, <1>12 DEF Insert, cacheVars
  <2>1. /\ hs \in Seq(Hash) /\ N \in Nat /\ DOMAIN hs = 1 .. N
        /\ \A i \in 1 .. N : hs[i] \in Hash
    OBVIOUS
  <2>2. from \in Nat /\ start \in Nat /\ hashCounter \in Nat
    BY DEF TypeOK
  <2>3. \A i \in 1 .. N : Height[hs[i]] = from + i - 1
    BY <1>12, <2>1 DEF Contiguous
  <2>4. todo \subseteq Hash /\ \A h \in todo : Height[h] \in Nat /\ Height[h] < from /\ Base <= Height[h]
    <3>1. todo \subseteq Hash
      BY DEF todo, TypeOK
    <3>2. \A h \in todo : Base <= Height[h] /\ Height[h] < from
      BY <2>0 DEF HonestInv
    <3>3. \A h \in Hash : Height[h] \in Nat
      OBVIOUS
    <3>4. QED
      BY <3>1, <3>2, <3>3
  <2>5. \A i \in 1 .. N : hs[i] \notin todo
    BY <2>2, <2>3, <2>4
  <2>6. \A i, j \in 1 .. N : hs[i] = hs[j] => i = j
    BY <2>2, <2>3
  <2>7. fresh = 1 .. N
    <3>1. fresh \subseteq 1 .. N
      BY <2>1 DEF FreshPositions
    <3>2. ASSUME NEW i \in 1 .. N PROVE i \in fresh
      <4>1. hs[i] \notin hashPool
        BY <2>5 DEF todo
      <4>2. \A j \in 1 .. i - 1 : hs[j] # hs[i]
        BY <2>1, <2>6
      <4>3. QED
        BY <4>1, <4>2, <2>1 DEF FreshPositions
    <3>3. QED
      BY <3>1, <3>2, Zenon
  <2>8. Cardinality(fresh) = N
    <3>1. Cardinality(1 .. N) = IF 1 > N THEN 0 ELSE N - 1 + 1
      <4>1. 1 \in Int /\ N \in Int
        BY <2>1
      <4>2. QED
        BY ONLY <4>1, FS_Interval, Zenon
    <3>2. QED
      BY <3>1, <2>1, <2>7
  <2>9. hashCounter' = from' - start' /\ from' = from + N
    <3>1. hashCounter' = hashCounter + N /\ from' = from + N
      BY <1>12, <2>1, <2>7, <2>8 DEF Insert
    <3>2. hashCounter = from - start
      BY <2>0 DEF HonestInv
    <3>3. QED
      BY <3>1, <3>2, <2>0, <2>1, <2>2
  <2>10. hashPool' = hashPool \cup new /\ todo' = todo \cup new
    BY <1>12, <2>0, <2>7, Zenon DEF Insert, todo
  <2>11. \A h \in new : \E i \in 1 .. N : h = hs[i]
    OBVIOUS
  <2>12. \A i \in 1 .. N : NewEntry(hs, i) = <<hs[i], -(hashCounter + i)>>
    <3> SUFFICES ASSUME NEW i \in 1 .. N
                 PROVE  NewEntry(hs, i) = <<hs[i], -(hashCounter + i)>>
      OBVIOUS
    <3>1. {j \in fresh : j <= i} = 1 .. i
      BY <2>1, <2>7
    <3>2. Cardinality(1 .. i) = IF 1 > i THEN 0 ELSE i - 1 + 1
      BY <2>1, FS_Interval
    <3>a. Cardinality(1 .. i) = i
      BY <3>2, <2>1
    <3>3. Cardinality({j \in fresh : j <= i}) = i
      BY <3>1, <3>a, Zenon
    <3>4. QED
      BY <3>3 DEF NewEntry
  <2>13. hashQueue' = hashQueue \cup {NewEntry(hs, i) : i \in 1 .. N}
    BY <1>12, <2>7 DEF Insert
  <2>14. Base' = Base /\ Base \in Nat /\ Base <= from
    <3>1. Base' = Base /\ Base \in Nat
      BY <2>0 DEF Base, TypeOK
    <3>2. Base <= from
      BY <2>0, Zenon DEF HonestInv
    <3>3. QED
      BY <3>1, <3>2
  <2> HIDE DEF fresh, new, N
  <2>15. \A h \in todo' : Base' <= Height[h] /\ Height[h] < from'
    BY <2>1, <2>2, <2>3, <2>4, <2>9, <2>10, <2>11, <2>14
  <2>16. \A g, h \in todo' : Height[g] = Height[h] => g = h
    <3>1. \A g, h \in todo : Height[g] = Height[h] => g = h
      BY <2>0 DEF HonestInv
    <3>2. \A g \in new, h \in todo : Height[g] # Height[h]
      BY <2>1, <2>2, <2>3, <2>4, <2>11
    <3>3. \A g, h \in new : Height[g] = Height[h] => g = h
      BY <2>1, <2>2, <2>3, <2>11
    <3>4. QED
      BY <3>1, <3>2, <3>3, <2>10
  <2>17. ASSUME NEW n \in Base' .. from' - 1 PROVE \E h \in todo' : Height[h] = n
    <3>1. CASE n < from
      <4>1. n \in Base .. from - 1
        BY <3>1, <2>2, <2>14
      <4>2. PICK h \in todo : Height[h] = n
        BY <4>1, <2>0 DEF HonestInv
      <4>3. QED
        BY <4>2, <2>10
    <3>2. CASE n >= from
      <4> DEFINE i == n - from + 1
      <4>1. i \in 1 .. N /\ from + i - 1 = n
        BY <3>2, <2>1, <2>2, <2>9, <2>14
      <4>2. Height[hs[i]] = n /\ hs[i] \in new
        BY <4>1, <2>3 DEF new
      <4>3. QED
        BY <4>2, <2>10
    <3>3. QED
      BY <3>1, <3>2, <2>2, <2>14
  <2>18. hashPool' \cap blockPool' = {}
    <3>1. hashPool \cap blockPool = {}
      BY <2>0 DEF HonestInv
    <3>2. new \cap blockPool = {}
      BY <2>5, <2>11 DEF todo
    <3>3. QED
      BY <3>1, <3>2, <2>0, <2>10
  <2>19. \A h \in hashPool' : \/ \E e \in hashQueue' : e[1] = h
                              \/ \E q \in Peer : \E e \in pendPool'[q] : e[1] = h
    <3>1. ASSUME NEW h \in hashPool
          PROVE  \/ \E e \in hashQueue' : e[1] = h
                 \/ \E q \in Peer : \E e \in pendPool'[q] : e[1] = h
      BY <2>0, <2>13 DEF HonestInv
    <3>2. ASSUME NEW h \in new PROVE \E e \in hashQueue' : e[1] = h
      <4>1. PICK i \in 1 .. N : h = hs[i]
        BY <2>11
      <4>2. NewEntry(hs, i) \in hashQueue' /\ NewEntry(hs, i)[1] = h
        BY <4>1, <2>12, <2>13
      <4>3. QED
        BY <4>2
    <3>3. QED
      BY <3>1, <3>2, <2>10
  <2>20. \A e \in hashQueue' : Ranked(e)'
    <3>1. ASSUME NEW e \in hashQueue PROVE Ranked(e)'
      BY <2>0 DEF HonestInv, Ranked
    <3>2. ASSUME NEW e, NEW i \in 1 .. N, e = NewEntry(hs, i) PROVE Ranked(e)'
      <4>1. e[1] = hs[i] /\ e[2] = -(hashCounter + i)
        BY <3>2, <2>12
      <4>2. hashCounter = from - start
        BY <2>0 DEF HonestInv
      <4>3. from + i - 1 = start - (-(hashCounter + i)) - 1
        BY <4>2, <2>1, <2>2
      <4>4. Height[e[1]] = start' - e[2] - 1
        BY <4>1, <4>3, <2>0, <2>3
      <4>5. QED
        BY <4>4 DEF Ranked
    <3>3. QED
      BY <3>1, <3>2, <2>13
  <2>21. \A q \in Peer : \A e \in pendPool'[q] :
            Ranked(e)' /\ Height[e[1]] < Base' + CacheLimit
    BY <2>0, <2>14 DEF HonestInv, Ranked
  <2>22. ~prepared' => blockOffset' = 0 /\ \A p \in Peer : pendPool'[p] = {}
    BY <2>0 DEF HonestInv
  <2>23. Base' <= from'
    BY <2>1, <2>2, <2>9, <2>14
  <2>24. QED
    BY <2>23, <2>9, <2>15, <2>16, <2>17, <2>18, <2>19, <2>20, <2>21, <2>22 DEF HonestInv
<1>13. QED
  BY <1>1, <1>2, <1>4, <1>5, <1>7, <1>8, <1>9, <1>10, <1>11, <1>12, Zenon
     DEF HonestNext, Session, Fetch, HonestInsert

\* Contiguous hashes are among those Insert may get.
LEMMA HonestIsNext == HonestNext => Next
  BY DEF HonestNext, Next, HonestInsert, AnyInsert

\* The invariants hold throughout when Insert gets contiguous hashes.
LEMMA HonestAlways ==
    HonestSpec => [](TypeOK /\ Owned /\ NotOvercommitted /\ Aligned /\ HonestInv)
<1>1. Init => Owned
  BY DEF Init, EmptyQueue, Owned
<1> DEFINE I == TypeOK /\ Owned /\ NotOvercommitted /\ Aligned /\ HonestInv
<1>2. Init => I
  BY <1>1, InitType, InitRoom, InitAligned, InitHonest
<1>3. I /\ [HonestNext]_vars => I'
  <2>1. [HonestNext]_vars => [Next]_vars
    BY HonestIsNext
  <2>2. QED
    BY <2>1, NextType, OwnedStep, RoomStep, AlignedStep, HonestStep
<1>4. QED
  BY <1>2, <1>3, PTL DEF HonestSpec

\* A block asked for always has a slot when it arrives, for every cache size
\* and every interleaving, if the hashes came contiguously: Deliver does not
\* return errInvalidChain.
THEOREM SlotAlways == HonestSpec => []SlotForEveryRequest
<1>1. TypeOK /\ Owned /\ HonestInv => SlotForEveryRequest
  BY SlotsForRequests DEF SlotForEveryRequest, InFlight
<1>2. QED
  BY <1>1, HonestAlways, PTL

\* Then no scheduled hash is ever forgotten either.
THEOREM NothingForgottenEver == HonestSpec => []NothingForgotten
<1>1. ASSUME TypeOK, HonestInv PROVE NothingForgotten
  <2> SUFFICES ASSUME ~cancelled, NEW h \in hashPool,
                      ~ \E e \in hashQueue : e[1] = h
               PROVE  \E x \in InFlight : x[2][1] = h
    BY DEF NothingForgotten
  <2>1. PICK p \in Peer : \E e \in pendPool[p] : e[1] = h
    BY <1>1 DEF HonestInv
  <2>2. PICK e \in pendPool[p] : e[1] = h
    BY <2>1
  <2>3. <<p, e>> \in InFlight /\ <<p, e>>[2][1] = h
    BY <1>1, <2>2 DEF InFlight, TypeOK
  <2>4. QED
    BY <2>3
<1>2. QED
  BY <1>1, HonestAlways, PTL
=============================================================================
