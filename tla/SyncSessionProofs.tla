-------------------------- MODULE SyncSessionProofs --------------------------
(***************************************************************************)
(* Proofs about the synchronisation, for any peers, chains and limits and  *)
(* any number of faults.  Where the number of synchronisations or the fork *)
(* of the chains matters, the theorem says so.                             *)
(***************************************************************************)
EXTENDS SyncSessionTypes

-----------------------------------------------------------------------------
(* The types of the session's variables.                                   *)

\* Every variable keeps its type: no channel is filled beyond its buffer, no
\* more than two results of fetchers wait, and findAncestor's heights stay
\* natural numbers, whatever order the answers come in.
THEOREM SessionTypes == Spec => []TypeOK
<1>1. TypeInv /\ Balanced => TypeOK
  <2> SUFFICES ASSUME TypeInv, Balanced PROVE TypeOK
    OBVIOUS
  <2>1. errc \in Seq(BOOLEAN) /\ Len(errc) <= 2
    <3>1. Len(errc) \in Nat /\ errc \in Seq(BOOLEAN)
      BY DEF Balanced
    <3> QED
      BY <3>1 DEF Balanced, Owed, Expected
  <2>2. ControlType /\ NetType
    BY DEF TypeInv
  <2>3. /\ held \subseteq Block /\ hashPool \subseteq Block /\ waiting \subseteq Block /\ offset \in Nat
        /\ unsent \in [peer : Peer, hashes : SUBSET Block] \cup {NoRequest}
        /\ pending \in [Peer -> SUBSET Block] /\ ignored \in [Peer -> SUBSET Block]
    BY TheirsBlocks DEF TypeInv, QueueType, Genuine
  <2>4. cache \subseteq [block : Block, origin : Peer] /\ batch \in Seq([block : Block, origin : Peer])
    <3>1. Items \subseteq [block : Block, origin : Peer]
      BY TheirsBlocks DEF Items
    <3> DEFINE I == [block : Block, origin : Peer]
    <3> HIDE DEF I
    <3>2. cache \subseteq Items /\ batch \in Seq(Items) /\ Items \subseteq I
      BY <3>1 DEF TypeInv, QueueType, I
    <3>3. batch \in Seq(I)
      BY <3>2
    <3> QED
      BY <3>2, <3>3 DEF I
  <2> QED
    BY <2>1, <2>2, <2>3, <2>4 DEF TypeOK, ControlType, NetType
<1> QED
  BY TypesHold, <1>1, PTL

-----------------------------------------------------------------------------
\* The chain of the peers is inserted up to, not including, height h.
HeldBelow(h) == \A k \in Nat : k < h => TheirBlock(k) \in held

\* The inductive invariant behind BlocksConnect: what is below the offset of
\* the queue was inserted or is in the batch that is being inserted, and the
\* batch goes on where the inserted blocks end.
Connects ==
    /\ \A k \in Nat : k < offset =>
          TheirBlock(k) \in held \/ \E i \in DOMAIN batch : batch[i].block = TheirBlock(k)
    /\ batch # <<>> => \E h \in Nat : /\ HeldBelow(h)
                                      /\ \A i \in DOMAIN batch : batch[i].block = TheirBlock(h + i - 1)

\* A step that keeps what is held, or adds to it, keeps the queue connected.
LEMMA ConnectsStep ==
    ASSUME TypeInv, Balanced, AncestorIsCommon, Connects, [Next]_vars
    PROVE  Connects'
\* A step that leaves the batch alone, and the offset or resets it
<1>ConnectsKept. ASSUME Connects, held' = held, batch' = batch, offset' = offset \/ offset' = 0
                 PROVE  Connects'
  BY <1>ConnectsKept DEF Connects, HeldBelow
\* findAncestor's block is inserted, and all below it.
<1>ConnectsPrepare. ASSUME TypeInv, Balanced, AncestorIsCommon, Connects, Prepare
                    PROVE  Connects'
  <2> USE <1>ConnectsPrepare
  <2>1. main \in {"fetch", "last", "drain"}
    <3>1. bpc # "off" /\ Len(errc) \in Nat
      BY DEF Prepare, Balanced
    <3> QED
      BY <3>1 DEF Balanced, Owed, Expected, Stages
  <2>2. number \in Nat /\ offset \in Nat
    BY DEF TypeInv, ControlType, QueueType
  <2>3. \A k \in 0 .. number : TheirBlock(k) \in held
    BY <2>1, <2>2, TheirsKnown DEF AncestorIsCommon
  <2>4. held' = held /\ batch' = batch /\ offset' = IF offset < number + 1 THEN number + 1 ELSE offset
    BY DEF Prepare, chainVars, processVars
  <2>5. CASE offset < number + 1
    <3>1. \A k \in Nat : k < offset' => TheirBlock(k) \in held
      BY <2>2, <2>3, <2>4, <2>5
    <3> QED
      BY <2>4, <3>1 DEF Connects, HeldBelow
  <2>6. CASE ~(offset < number + 1)
    BY <2>4, <2>6, <1>ConnectsKept
  <2> QED
    BY <2>5, <2>6
\* TakeBlocks goes on where the blocks that were inserted end.
<1>ConnectsTake. ASSUME TypeInv, Connects, TakeBlocks
                 PROVE  Connects'
  <2> USE <1>ConnectsTake
  <2>1. offset \in Nat /\ cache \subseteq Items
    BY DEF TypeInv, QueueType
  <2>2. PICK n \in 0 .. Cardinality(cache) :
           /\ \E taken \in [1 .. n -> cache] : /\ \A i \in 1 .. n : Height(taken[i].block) = offset + i - 1
                                               /\ batch' = taken
           /\ offset' = offset + n
    BY DEF TakeBlocks
  <2>3. PICK taken \in [1 .. n -> cache] : /\ \A i \in 1 .. n : Height(taken[i].block) = offset + i - 1
                                           /\ batch' = taken
    BY <2>2
  <2>4. n \in Nat /\ held' = held /\ batch = <<>>
    BY <2>1 DEF TakeBlocks, chainVars
  <2>5. ASSUME NEW i \in 1 .. n PROVE batch'[i].block = TheirBlock(offset + i - 1)
    <3>1. taken[i].block \in Theirs
      BY <2>1, <2>3 DEF Items
    <3> QED
      BY <2>3, <3>1, TheirsBlocks
  <2>6. DOMAIN batch' = 1 .. n
    BY <2>3
  <2>7. \A k \in Nat : k < offset => TheirBlock(k) \in held
    BY <2>4 DEF Connects
  <2>8. ASSUME NEW k \in Nat, k < offset'
        PROVE  TheirBlock(k) \in held' \/ \E i \in DOMAIN batch' : batch'[i].block = TheirBlock(k)
    <3>1. CASE k < offset
      BY <2>4, <2>7, <3>1
    <3>2. CASE ~(k < offset)
      <4>1. k - offset + 1 \in 1 .. n /\ offset + (k - offset + 1) - 1 = k
        BY <2>1, <2>2, <2>4, <2>8, <3>2
      <4>2. batch'[k - offset + 1].block = TheirBlock(offset + (k - offset + 1) - 1)
        BY <2>5, <4>1
      <4> QED
        BY <2>6, <4>1, <4>2
    <3> QED
      BY <3>1, <3>2
  <2>9. batch' # <<>> =>
          \E h \in Nat : /\ \A k \in Nat : k < h => TheirBlock(k) \in held'
                        /\ \A i \in DOMAIN batch' : batch'[i].block = TheirBlock(h + i - 1)
    <3>1. \A k \in Nat : k < offset => TheirBlock(k) \in held'
      BY <2>4, <2>7
    <3>2. \A i \in DOMAIN batch' : batch'[i].block = TheirBlock(offset + i - 1)
      BY <2>5, <2>6
    <3> QED
      BY <2>1, <3>1, <3>2
  <2> QED
    BY <2>8, <2>9 DEF Connects, HeldBelow
\* InsertChain of the first block of the batch: the next one follows it.
<1>ConnectsInsert. ASSUME TypeInv, Connects, InsertChain
                   PROVE  Connects'
  <2> USE <1>ConnectsInsert
  <2>1. batch # <<>> /\ held' = held \cup {Head(batch).block} /\ batch' = Tail(batch) /\ offset' = offset
    BY DEF InsertChain, queueVars
  <2>2. batch \in Seq(Items)
    BY DEF TypeInv, QueueType
  <2>3. /\ Len(batch) \in Nat \ {0} /\ DOMAIN batch = 1 .. Len(batch)
        /\ Tail(batch) \in Seq(Items) /\ Len(Tail(batch)) = Len(batch) - 1
        /\ \A i \in 1 .. Len(Tail(batch)) : Tail(batch)[i] = batch[i + 1]
        /\ Head(batch) = batch[1]
    BY <2>1, <2>2
  <2>4. DOMAIN batch' = 1 .. Len(batch) - 1 /\ \A i \in 1 .. Len(batch) - 1 : batch'[i] = batch[i + 1]
    BY <2>1, <2>3
  <2>5. PICK h \in Nat : /\ HeldBelow(h)
                         /\ \A i \in DOMAIN batch : batch[i].block = TheirBlock(h + i - 1)
    BY <2>1 DEF Connects
  <2>6. batch[1].block = TheirBlock(h)
    <3>1. 1 \in DOMAIN batch /\ h + 1 - 1 = h
      BY <2>3
    <3> QED
      BY <2>5, <3>1
  <2>7. \A k \in Nat : k < h + 1 => TheirBlock(k) \in held'
    <3>1. \A k \in Nat : k < h + 1 => k < h \/ k = h
      OBVIOUS
    <3> QED
      BY <2>1, <2>3, <2>5, <2>6, <3>1 DEF HeldBelow
  <2>8. ASSUME NEW i \in DOMAIN batch' PROVE batch'[i].block = TheirBlock((h + 1) + i - 1)
    <3>1. i + 1 \in DOMAIN batch /\ batch'[i] = batch[i + 1] /\ h + (i + 1) - 1 = (h + 1) + i - 1
      BY <2>3, <2>4
    <3>2. batch[i + 1].block = TheirBlock(h + (i + 1) - 1)
      BY <2>5, <3>1
    <3> QED
      BY <3>1, <3>2
  <2>9. ASSUME NEW k \in Nat, k < offset'
        PROVE  TheirBlock(k) \in held' \/ \E i \in DOMAIN batch' : batch'[i].block = TheirBlock(k)
    <3>1. CASE TheirBlock(k) \in held
      BY <2>1, <3>1
    <3>2. ASSUME NEW i \in DOMAIN batch, batch[i].block = TheirBlock(k)
          PROVE  TheirBlock(k) \in held' \/ \E j \in DOMAIN batch' : batch'[j].block = TheirBlock(k)
      <4>1. CASE i = 1
        BY <2>1, <2>3, <3>2, <4>1
      <4>2. CASE i # 1
        <5>1. i - 1 \in DOMAIN batch' /\ batch'[i - 1] = batch[i]
          <6>1. i - 1 \in 1 .. Len(batch) - 1 /\ (i - 1) + 1 = i
            BY <2>3, <4>2
          <6> QED
            BY <2>4, <6>1
        <5> QED
          BY <3>2, <5>1
      <4> QED
        BY <4>1, <4>2
    <3> QED
      BY <2>1, <2>9, <3>1, <3>2 DEF Connects
  <2>10. h + 1 \in Nat
    OBVIOUS
  <2> QED
    BY <2>7, <2>8, <2>9, <2>10 DEF Connects, HeldBelow
\* InsertFails empties the batch and resets the offset.
<1>ConnectsFails. ASSUME InsertFails
                  PROVE  Connects'
  <2> USE <1>ConnectsFails
  <2>1. batch' = <<>> /\ offset' = 0
    BY DEF InsertFails, Cancel, ResetQueue
  <2> QED
    BY <2>1 DEF Connects
<1>1. ASSUME NEW p \in Peer, Synchronise(p) PROVE Connects'
  <2>1. held' = held /\ batch' = batch /\ offset' = 0
    BY <1>1 DEF Synchronise, ResetQueue, chainVars, processVars
  <2> QED
    BY <2>1, <1>ConnectsKept
<1>2. CASE Main
  <2>1. held' = held /\ batch' = batch
    BY <1>2, Zenon DEF Main, AncestorPack, SearchPack, AncestorGivesUp, FirstResult, LastResult,
                chainVars, processVars
  <2>2. \A l, r : Search(l, r) => offset' = offset
    BY DEF Search, StartFetchers, queueVars
  <2>3. offset' = offset \/ offset' = 0
    <3>1. CASE AncestorPack
      BY <3>1, <2>2 DEF AncestorPack, StrangePack, AncestorFails, StartFetchers, Cancel, ResetQueue, queueVars
    <3>2. CASE SearchPack
      BY <3>2, <2>2 DEF SearchPack, StrangePack, AncestorFails, Cancel, ResetQueue, queueVars
    <3>3. CASE AncestorGivesUp
      BY <3>3 DEF AncestorGivesUp, AncestorFails, Cancel, ResetQueue
    <3>4. CASE FirstResult \/ LastResult
      BY <3>4, Zenon DEF FirstResult, LastResult, CancelOther, Cancel, ResetQueue, queueVars
    <3> QED
      BY <1>2, <3>1, <3>2, <3>3, <3>4 DEF Main
  <2> QED
    BY <2>1, <2>3, <1>ConnectsKept
<1>3. CASE FetchHashes
  <2>1. held' = held /\ batch' = batch
    BY <1>3, Zenon DEF FetchHashes, HashesGiveUp, HashesPack, TellFinished, chainVars, processVars
  <2>2. offset' = offset
    BY <1>3, Zenon DEF FetchHashes, HashesGiveUp, HashesPack, TellFinished, StrangePack, InsertHashes, queueVars
  <2> QED
    BY <2>1, <2>2, <1>ConnectsKept
<1>4. CASE FetchBlocks
  <2>1. CASE Prepare
    BY <2>1, <1>ConnectsPrepare
  <2>2. CASE BlocksCancelled \/ BlocksPack \/ News
    BY <2>2, <1>ConnectsKept, Zenon DEF BlocksCancelled, BlocksPack, News, Deliver, chainVars, processVars, queueVars
  <2>3. ASSUME NEW expired, Update(expired) PROVE Connects'
    BY <2>3, <1>ConnectsKept DEF Update, processVars
  <2>4. ASSUME NEW p, Reserve(p) PROVE Connects'
    BY <2>4, <1>ConnectsKept DEF Reserve, chainVars, processVars
  <2>5. CASE SendRequest \/ CancelRequest \/ Visited
    BY <2>5, <1>ConnectsKept, Zenon DEF SendRequest, CancelRequest, Visited, chainVars, processVars, queueVars
  <2> QED
    BY <1>4, <2>1, <2>2, <2>3, <2>4, <2>5 DEF FetchBlocks, VisitPeers
<1>5. CASE ProcessQueue \/ InsertFails
  BY <1>5, <1>ConnectsTake, <1>ConnectsInsert, <1>ConnectsFails DEF ProcessQueue
<1>6. ASSUME NEW p, Handle(p) \/ Deposit(p) \/ LoseAnswer(p) \/ Disconnect(p) \/ Connect(p)
      PROVE  Connects'
  BY <1>6, <1>ConnectsKept DEF Handle, Deposit, LoseAnswer, Disconnect, Connect, chainVars, processVars, queueVars
<1>7. CASE UNCHANGED vars
  BY <1>7, <1>ConnectsKept DEF vars, chainVars, processVars, queueVars
<1> QED
  BY <1>1, <1>2, <1>3, <1>4, <1>5, <1>6, <1>7 DEF Next, Environment

\* As long as what findAncestor returns is a common block, processQueue inserts
\* no block before its parent: across cancellations, goroutines of earlier
\* synchronisations, refused blocks and lost peers.
THEOREM CommonAncestorConnects == Spec /\ []AncestorIsCommon => []BlocksConnect
\* In the beginning nothing is queued.
<1>InitConnects. Init => Connects
  <2>1. Init => offset = 0 /\ batch = <<>>
    BY Zenon DEF Init
  <2> QED
    BY <2>1 DEF Connects
\* With the invariant, the parent of the next block is connected.
<1>ConnectsNext. TypeInv /\ Connects => BlocksConnect
  <2> SUFFICES ASSUME TypeInv, Connects, batch # <<>>, Height(Head(batch).block) > 0
               PROVE  Parent(Head(batch).block) \in Known
    BY Zenon DEF BlocksConnect
  <2>1. PICK h \in Nat : /\ HeldBelow(h)
                         /\ \A i \in DOMAIN batch : batch[i].block = TheirBlock(h + i - 1)
    BY DEF Connects
  <2>2. Head(batch) = batch[1] /\ 1 \in DOMAIN batch
    BY DEF TypeInv, QueueType
  <2>3. Head(batch).block = TheirBlock(h)
    <3>1. h + 1 - 1 = h
      OBVIOUS
    <3> QED
      BY <2>1, <2>2, <3>1
  <2>4. h > 0 /\ Parent(Head(batch).block) = TheirBlock(h - 1)
    BY <2>3, TheirBlockFacts
  <2>5. h - 1 \in Nat /\ \A j \in 0 .. h - 1 : TheirBlock(j) \in held
    BY <2>1, <2>4 DEF HeldBelow
  <2>6. TheirBlock(h - 1) \in Known
    BY <2>5, TheirsKnown
  <2> QED
    BY <2>4, <2>6, Zenon
<1>1. TypeInv /\ Balanced /\ AncestorIsCommon /\ Connects /\ [Next]_vars => Connects'
  BY ConnectsStep
<1> QED
  BY TypesHold, <1>InitConnects, <1>ConnectsNext, <1>1, PTL DEF Spec

-----------------------------------------------------------------------------
(* The ancestor is common when the chains have not forked.                 *)

\* The same of the next state
LEMMA TheirsKnownNext ==
    ASSUME NEW k \in Nat
    PROVE  TheirBlock(k) \in Known' <=> \A j \in 0 .. k : TheirBlock(j) \in held'
<1>1. Height(TheirBlock(k)) = k /\ TheirBlock(k)[1] # "ours"
  BY TheirBlockFacts
<1>2. TheirBlock(k) \in Known' <=>
         TheirBlock(k) \in held' /\ \A j \in 0 .. k : TheirBlock(j) \in held'
  BY <1>1 DEF Known
<1> QED
  BY <1>2

\* What is connected stays connected, and what is below it is connected too.
LEMMA KnownStays ==
    ASSUME NEW k \in Nat, NEW j \in Nat, j <= k, TheirBlock(k) \in Known, held \subseteq held'
    PROVE  TheirBlock(j) \in Known' /\ TheirBlock(j) \in Known
<1>1. \A i \in 0 .. k : TheirBlock(i) \in held
  BY TheirsKnown
<1>2. \A i \in 0 .. j : TheirBlock(i) \in held /\ TheirBlock(i) \in held'
  BY <1>1
<1> QED
  BY <1>2, TheirsKnown, TheirsKnownNext

\* The blocks we have are never lost, and only InsertChain adds one.
LEMMA HeldGrows == ASSUME [Next]_vars PROVE held \subseteq held' /\ (held' = held \/ InsertChain)
<1>1. held' = held \/ InsertChain
  <2>1. ASSUME NEW p \in Peer, Synchronise(p) \/ Handle(p) \/ Deposit(p) \/ LoseAnswer(p)
                                 \/ Disconnect(p) \/ Connect(p) \/ Reserve(p)
        PROVE  held' = held
    BY <2>1 DEF Synchronise, Handle, Deposit, LoseAnswer, Disconnect, Connect, Reserve, chainVars
  <2>2. CASE Main \/ FetchHashes
    BY <2>2, Zenon DEF Main, AncestorPack, SearchPack, AncestorGivesUp, FirstResult, LastResult,
                FetchHashes, HashesGiveUp, HashesPack, TellFinished, chainVars
  <2>3. CASE Prepare \/ BlocksCancelled \/ BlocksPack \/ News \/ SendRequest \/ CancelRequest \/ Visited
    BY <2>3, Zenon DEF Prepare, BlocksCancelled, BlocksPack, News, SendRequest, CancelRequest, Visited, chainVars
  <2>4. ASSUME NEW expired, Update(expired) PROVE held' = held
    BY <2>4 DEF Update
  <2>5. CASE TakeBlocks \/ InsertFails \/ UNCHANGED vars
    BY <2>5 DEF TakeBlocks, InsertFails, vars, chainVars
  <2> QED
    BY <2>1, <2>2, <2>3, <2>4, <2>5 DEF Next, FetchBlocks, VisitPeers, ProcessQueue, Environment
<1> QED
  BY <1>1 DEF InsertChain

\* What findAncestor has found out
found == <<top, left, right, number>>

\* Nobody but findAncestor changes what it has found out.
LEMMA OtherSteps ==
    ASSUME [Next]_vars
    PROVE  \/ \E p \in Peer : Synchronise(p)
           \/ AncestorPack \/ SearchPack
           \/ UNCHANGED found /\ main' = "idle"
           \/ UNCHANGED found /\ main \in {"fetch", "last", "drain"} /\ main' \in {"fetch", "last", "drain"}
           \/ UNCHANGED found /\ main' = main
<1>1. ASSUME NEW p \in Peer, Handle(p) \/ Deposit(p) \/ LoseAnswer(p) \/ Disconnect(p) \/ Connect(p) \/ Reserve(p)
      PROVE  UNCHANGED found /\ main' = main
  BY <1>1 DEF Handle, Deposit, LoseAnswer, Disconnect, Connect, Reserve, mainVars, found
<1>2. CASE AncestorGivesUp
  BY <1>2 DEF AncestorGivesUp, AncestorFails, found
<1>3. CASE FirstResult \/ LastResult
  BY <1>3, Zenon DEF FirstResult, LastResult, AfterError, found
<1>4. CASE HashesGiveUp \/ HashesPack \/ TellFinished
  BY <1>4, Zenon DEF HashesGiveUp, HashesPack, TellFinished, StrangePack, InsertHashes, mainVars, found
<1>5. CASE Prepare \/ BlocksCancelled \/ BlocksPack \/ News \/ SendRequest \/ CancelRequest \/ Visited
  BY <1>5, Zenon DEF Prepare, BlocksCancelled, BlocksPack, News, SendRequest, CancelRequest, Visited, mainVars, found
<1>6. ASSUME NEW expired, Update(expired) PROVE UNCHANGED found /\ main' = main
  BY <1>6 DEF Update, mainVars, found
<1>7. CASE TakeBlocks \/ InsertChain \/ InsertFails \/ UNCHANGED vars
  BY <1>7 DEF TakeBlocks, InsertChain, InsertFails, vars, mainVars, found
<1> QED
  BY <1>1, <1>2, <1>3, <1>4, <1>5, <1>6, <1>7 DEF Next, Main, FetchHashes, FetchBlocks, VisitPeers, ProcessQueue, Environment

-----------------------------------------------------------------------------
\* The inductive invariant without a fork: our chain is a part of theirs, so
\* every height findAncestor may return is one we have.
NoFork ==
    /\ main \in {"ancestor", "search"} => TheirBlock(top) \in Known
    /\ main = "search" => left <= top /\ right <= top
    /\ AncestorIsCommon

\* Every step keeps it.
LEMMA NoForkStep ==
    ASSUME OurHeight <= Fork, TypeInv, NoFork, [Next]_vars
    PROVE  NoFork'
\* Without a fork the head is a block of the peers' chain.
<1>HeadIsTheirs. ASSUME Genuine, OurHeight <= Fork
                 PROVE  HeadHeight \in Nat /\ TheirBlock(HeadHeight) \in Known
  <2> USE <1>HeadIsTheirs
  <2>1. HeadHeight \in Nat
    BY HeadFacts
  <2>2. PICK b \in Known : Height(b) = HeadHeight
    BY HeadFacts
  <2>3. b \in Block
    BY DEF Known, Genuine
  <2>4. OurHeight \in Nat /\ Fork \in Nat /\ TheirHeight \in Nat
    BY SessionAssumption, TheirHeightMax
  <2>5. PICK k \in Nat : b = TheirBlock(k)
    <3>1. CASE b \in {TheirBlock(k) : k \in 0 .. TheirHeight}
      BY <2>4, <3>1
    <3>2. CASE b \in {OurBlock(k) : k \in 0 .. OurHeight}
      <4>1. PICK k \in 0 .. OurHeight : b = OurBlock(k)
        BY <3>2
      <4>2. k \in Nat /\ k <= Fork
        BY <2>4
      <4> QED
        BY <4>1, <4>2, TheirBlockFacts
    <3> QED
      BY <2>3, <3>1, <3>2 DEF Block
  <2>6. k = HeadHeight
    BY <2>2, <2>5, TheirBlockFacts
  <2> QED
    BY <2>1, <2>5, <2>6
\* The search stays below the head.
<1>NoForkSearch. ASSUME held' = held, top \in Nat, TheirBlock(top) \in Known,
                        NEW l \in Nat, NEW r \in Nat, l <= top, r <= top, Search(l, r)
                 PROVE  NoFork'
  <2> USE <1>NoForkSearch
  <2>1. TheirBlock(top) \in Known' /\ TheirBlock(l) \in Known'
    BY KnownStays
  <2>2. CASE StartFetchers(l)
    <3>1. main' = "fetch" /\ number' = l
      BY <2>2 DEF StartFetchers
    <3> QED
      BY <2>1, <3>1 DEF NoFork, AncestorIsCommon
  <2>3. CASE ~StartFetchers(l)
    <3>1. main' = "search" /\ left' = l /\ right' = r /\ top' = top
      BY <2>3 DEF Search
    <3> QED
      BY <2>1, <3>1 DEF NoFork, AncestorIsCommon
  <2> QED
    BY <2>2, <2>3
\* Whatever request the answer belongs to, the block counted from the height
\* of the current request is one we have.
<1>NoForkMatch. ASSUME TypeInv, hashPackCh # <<>>, TheirBlock(top) \in Known,
                       NEW i \in DOMAIN Head(hashPackCh).hashes, Head(hashPackCh).hashes[i] \in Known
                PROVE  HeightAt(i) \in Nat /\ TheirBlock(HeightAt(i)) \in Known
  <2> USE <1>NoForkMatch
  <2> DEFINE hashes == Head(hashPackCh).hashes
  <2>1. hashes \in Runs /\ Len(hashes) \in Nat /\ DOMAIN hashes = 1 .. Len(hashes) /\ Len(hashes) <= MaxHashesFetch
    BY HeadPack DEF TypeInv
  <2>2. PICK k \in Nat : \A j \in DOMAIN hashes : hashes[j] = TheirBlock(k + j - 1)
    BY <2>1 DEF Runs
  <2>3. TheirBlock(k + i - 1) \in Known
    BY <2>2
  <2> HIDE DEF hashes
  <2>4. i \in Nat /\ 1 <= i /\ i <= MaxHashesFetch /\ MaxHashesFetch \in Nat \ {0} /\ top \in Nat
    BY <2>1, SessionAssumption DEF TypeInv, ControlType, hashes
  <2>5. CASE top < MaxHashesFetch
    <3>1. HeightAt(i) = i - 1 /\ i - 1 \in Nat /\ k + i - 1 \in Nat /\ i - 1 <= k + i - 1
      BY <2>4, <2>5 DEF HeightAt, FirstAsked
    <3>2. \A j \in 0 .. k + i - 1 : TheirBlock(j) \in held
      BY <2>3, <3>1, TheirsKnown
    <3>3. \A j \in 0 .. i - 1 : TheirBlock(j) \in held
      BY <2>4, <3>1, <3>2
    <3> QED
      BY <3>1, <3>3, TheirsKnown
  <2>6. CASE ~(top < MaxHashesFetch)
    <3>1. HeightAt(i) \in Nat /\ HeightAt(i) <= top
      BY <2>4, <2>6 DEF HeightAt, FirstAsked
    <3>2. \A j \in 0 .. top : TheirBlock(j) \in held
      BY <2>4, TheirsKnown
    <3>3. \A j \in 0 .. HeightAt(i) : TheirBlock(j) \in held
      BY <2>4, <3>1, <3>2
    <3> QED
      BY <3>1, <3>3, TheirsKnown
  <2> QED
    BY <2>5, <2>6
<1>0. top \in Nat /\ left \in Nat /\ right \in Nat /\ number \in Nat /\ Genuine
  BY DEF TypeInv, ControlType, QueueType
<1>1. held \subseteq held'
  BY HeldGrows
<1>2. \A k \in Nat : TheirBlock(k) \in Known => TheirBlock(k) \in Known'
  BY <1>1, KnownStays
<1>3. ASSUME NEW p \in Peer, Synchronise(p) PROVE NoFork'
  <2>1. top' = HeadHeight /\ main' \in {"ancestor", "idle"}
    BY <1>3 DEF Synchronise
  <2>2. TheirBlock(top') \in Known'
    BY <1>0, <1>2, <2>1, <1>HeadIsTheirs
  <2> QED
    BY <2>1, <2>2 DEF NoFork, AncestorIsCommon
<1>4. CASE AncestorPack
  <2> DEFINE hashes == Head(hashPackCh).hashes
             matches == {i \in DOMAIN hashes : hashes[i] \in Known}
  <2>1. main = "ancestor" /\ hashPackCh # <<>> /\ held' = held
    BY <1>4 DEF AncestorPack, chainVars
  <2>2. StrangePack \/ AncestorFails \/ Search(0, top) \/ \E i \in matches : StartFetchers(HeightAt(i))
    BY <1>4 DEF AncestorPack
  <2>3. TheirBlock(top) \in Known
    BY <2>1 DEF NoFork
  <2>4. ASSUME NEW i \in matches, StartFetchers(HeightAt(i)) PROVE NoFork'
    <3>1. HeightAt(i) \in Nat /\ TheirBlock(HeightAt(i)) \in Known
      BY <2>1, <2>3, <1>NoForkMatch
    <3>2. main' = "fetch" /\ number' = HeightAt(i)
      BY <2>4 DEF StartFetchers
    <3> QED
      BY <1>2, <3>1, <3>2 DEF NoFork, AncestorIsCommon
  <2>5. CASE StrangePack
    <3>1. main' = main /\ top' = top
      BY <2>5 DEF StrangePack, mainVars
    <3> QED
      BY <1>0, <1>2, <2>1, <2>3, <3>1 DEF NoFork, AncestorIsCommon
  <2>6. CASE AncestorFails
    BY <2>6 DEF AncestorFails, NoFork, AncestorIsCommon
  <2>7. CASE Search(0, top)
    BY <1>0, <2>1, <2>3, <2>7, <1>NoForkSearch
  <2> QED
    BY <2>2, <2>4, <2>5, <2>6, <2>7
<1>5. CASE SearchPack
  <2> DEFINE half == Half(Head(hashPackCh).hashes[1] \in Known)
  <2>1. main = "search" /\ held' = held
    BY <1>5 DEF SearchPack, chainVars
  <2>2. StrangePack \/ AncestorFails \/ Search(half[1], half[2])
    BY <1>5 DEF SearchPack
  <2>3. TheirBlock(top) \in Known /\ left <= top /\ right <= top
    BY <2>1 DEF NoFork
  <2>4. half[1] \in Nat /\ half[2] \in Nat /\ half[1] <= top /\ half[2] <= top
    BY <1>0, <2>3 DEF Half
  <2>5. CASE StrangePack
    <3>1. main' = main /\ top' = top /\ left' = left /\ right' = right
      BY <2>5 DEF StrangePack, mainVars
    <3> QED
      BY <1>0, <1>2, <2>1, <2>3, <3>1 DEF NoFork, AncestorIsCommon
  <2>6. CASE AncestorFails
    BY <2>6 DEF AncestorFails, NoFork, AncestorIsCommon
  <2> HIDE DEF half
  <2>7. CASE Search(half[1], half[2])
    BY <1>0, <2>1, <2>3, <2>4, <2>7, <1>NoForkSearch
  <2> QED
    BY <2>2, <2>5, <2>6, <2>7
<1>6. CASE UNCHANGED found /\ main' = "idle"
  BY <1>6 DEF NoFork, AncestorIsCommon
<1>7. CASE UNCHANGED found /\ main \in {"fetch", "last", "drain"} /\ main' \in {"fetch", "last", "drain"}
  BY <1>0, <1>2, <1>7 DEF NoFork, AncestorIsCommon, found
<1>8. CASE UNCHANGED found /\ main' = main
  BY <1>0, <1>2, <1>8 DEF NoFork, AncestorIsCommon, found
<1> QED
  BY <1>3, <1>4, <1>5, <1>6, <1>7, <1>8, OtherSteps

-----------------------------------------------------------------------------
(* The ancestor found by the first synchronisation.                        *)

\* Before the first synchronisation nothing is on its way.
Silent ==
    /\ \A p \in Peer : wire[p] = <<>> /\ handler[p] = NoPack
    /\ hashPackCh = <<>>

\* With these answers on their way, in the handlers and in the channel, pack a
\* of peer q, and no other, is to come, or none.
OnlyPack(q, w, h, ch, a) ==
    /\ \A p \in Peer : p # q => w[p] = <<>> /\ h[p] = NoPack
    /\ \/ w[q] = <<>>  /\ h[q] = NoPack /\ ch = <<>>
       \/ w[q] = <<a>> /\ h[q] = NoPack /\ ch = <<>>
       \/ w[q] = <<>>  /\ h[q] = a      /\ ch = <<>>
       \/ w[q] = <<>>  /\ h[q] = NoPack /\ ch = <<a>>

\* The answer to the request findAncestor has made
Answer ==
    HashPack(with, IF main = "ancestor" THEN HashesFrom(with, FirstAsked(top), MaxHashesFetch)
                                        ELSE HashesFrom(with, (left + right) \div 2, 1))

\* While findAncestor searches, the lower end of its interval is known ...
Interval ==
    left + 1 < right /\ right <= top /\ TheirBlock(left) \in Known

\* ... and the upper end is not, except for the head, which it never asks for.
Upper == main = "search" => right = top \/ TheirBlock(right) \notin Known

\* What an action may do: a synchronisation begins when no answer of an earlier
\* one is on its way, in a handler or in the channel.
FreshStart == \A p \in Peer : Synchronise(p) => Silent

\* What an action may do: nothing is inserted while findAncestor searches.
Undisturbed == main \in {"ancestor", "search"} => held' = held

\* The inductive invariant when synchronisations begin so: no answer but the one
\* to the current request can come.  Nothing is inserted before the first search
\* is over.
Fresh ==
    /\ sessions = 0 => main = "idle" /\ Silent
    /\ (sessions = 0 \/ (sessions = 1 /\ main \in {"ancestor", "search"})) => procs = 0 /\ batch = <<>>
    /\ main \in {"ancestor", "search"} => /\ sessions # 0
                                          /\ PeerHeight[with] > top
                                          /\ OnlyPack(with, wire, handler, hashPackCh, Answer)
    /\ main = "search" => Interval
    /\ unsent # NoRequest => bpc = "visit"
    /\ AncestorIsCommon

\* Before the first synchronisation no answer is on its way.
LEMMA InitFresh == Init => Fresh
<1> SUFFICES ASSUME Init PROVE Fresh
  OBVIOUS
<1>1. main = "idle" /\ procs = 0 /\ batch = <<>> /\ unsent = NoRequest /\ Silent
  BY DEF Init, Silent
<1> QED
  BY <1>1 DEF Fresh, AncestorIsCommon

\* A request is only made of a peer whose answers are then the only ones.
LEMMA AskOnly ==
    ASSUME TypeInv, NEW p \in Peer, NEW k, NEW n, wire' = AskedHashes(p, k, n),
           \A q \in Peer : wire[q] = <<>> /\ handler[q] = NoPack,
           handler' = handler, hashPackCh' = <<>>
    PROVE  OnlyPack(p, wire', handler', hashPackCh', HashPack(p, HashesFrom(p, k, n)))
<1> DEFINE a == HashPack(p, HashesFrom(p, k, n))
<1>1. wire' = IF p \in peers THEN [wire EXCEPT ![p] = Append(wire[p], a)] ELSE wire
  BY DEF AskedHashes, Asked
<1> HIDE DEF a
<1>2. Append(wire[p], a) = <<a>>
  <2>1. wire[p] = <<>>
    OBVIOUS
  <2> QED
    BY <2>1
<1>3. wire \in [Peer -> Seq(HashPacks \cup BlockPacks)]
  BY DEF TypeInv, NetType
<1>4. /\ \A q \in Peer : q # p => wire'[q] = <<>>
      /\ wire'[p] = <<>> \/ wire'[p] = <<a>>
  BY <1>1, <1>2, <1>3
<1> QED
  BY <1>4 DEF a, OnlyPack

\* A request that is reserved and not sent is one of the loop over the peers.
LEMMA UnsentStep ==
    ASSUME [Next]_vars, unsent # NoRequest => bpc = "visit"
    PROVE  unsent' # NoRequest => bpc' = "visit"
<1>1. ASSUME UNCHANGED <<unsent, bpc>> \/ unsent' = NoRequest PROVE unsent' # NoRequest => bpc' = "visit"
  BY <1>1
<1>2. ASSUME NEW p \in Peer, Synchronise(p) \/ Handle(p) \/ Deposit(p) \/ LoseAnswer(p) \/ Disconnect(p) \/ Connect(p)
      PROVE  UNCHANGED <<unsent, bpc>>
  BY <1>2 DEF Synchronise, Handle, Deposit, LoseAnswer, Disconnect, Connect, blocksVars
<1>3. CASE Main
  <2>1. \A l, r : Search(l, r) => UNCHANGED <<unsent, bpc>> \/ unsent' = NoRequest
    BY DEF Search, StartFetchers, blocksVars
  <2>2. AncestorFails \/ StrangePack => UNCHANGED <<unsent, bpc>>
    BY DEF AncestorFails, StrangePack, blocksVars
  <2>3. \A n : StartFetchers(n) => unsent' = NoRequest
    BY DEF StartFetchers
  <2>4. CASE AncestorPack
    BY <1>1, <2>1, <2>2, <2>3, <2>4 DEF AncestorPack
  <2>5. CASE SearchPack
    BY <1>1, <2>1, <2>2, <2>5 DEF SearchPack
  <2>6. CASE AncestorGivesUp
    BY <1>1, <2>2, <2>6 DEF AncestorGivesUp
  <2>7. CASE FirstResult \/ LastResult
    BY <1>1, <2>7, Zenon DEF FirstResult, LastResult, blocksVars
  <2> QED
    BY <1>3, <2>4, <2>5, <2>6, <2>7 DEF Main
<1>4. CASE FetchHashes
  BY <1>1, <1>4, Zenon DEF FetchHashes, HashesGiveUp, HashesPack, TellFinished, StrangePack, InsertHashes, blocksVars
<1>5. CASE Prepare \/ BlocksCancelled \/ News \/ Visited
  <2>1. unsent' = unsent /\ unsent = NoRequest
    BY <1>5, Zenon DEF Prepare, BlocksCancelled, News, Visited
  <2> QED
    BY <2>1
<1>6. CASE BlocksPack \/ SendRequest \/ CancelRequest
  BY <1>1, <1>6, Zenon DEF BlocksPack, SendRequest, CancelRequest, blocksVars
<1>7. ASSUME NEW expired, Update(expired) PROVE unsent' # NoRequest => bpc' = "visit"
  <2>1. unsent' = unsent /\ unsent = NoRequest
    BY <1>7 DEF Update
  <2> QED
    BY <2>1
<1>8. ASSUME NEW p, Reserve(p) PROVE bpc' = "visit"
  BY <1>8, Zenon DEF Reserve
<1>9. CASE TakeBlocks \/ InsertChain \/ InsertFails \/ UNCHANGED vars
  BY <1>1, <1>9 DEF TakeBlocks, InsertChain, InsertFails, vars, blocksVars
<1> QED
  BY <1>1, <1>2, <1>3, <1>4, <1>5, <1>6, <1>7, <1>8, <1>9, Zenon
     DEF Next, FetchBlocks, VisitPeers, ProcessQueue, Environment

\* With it, a pack in the channel is the answer to the request findAncestor has
\* made.
LEMMA TakenAnswer ==
    ASSUME TypeInv, Fresh, main \in {"ancestor", "search"}, hashPackCh # <<>>
    PROVE  /\ with \in Peer /\ Head(hashPackCh) = Answer /\ Tail(hashPackCh) = <<>>
           /\ Head(hashPackCh).peer = with
           /\ \A q \in Peer : wire[q] = <<>> /\ handler[q] = NoPack
<1>1. with \in Peer
  BY DEF TypeInv, ControlType
<1>2. hashPackCh = <<Answer>> /\ \A q \in Peer : wire[q] = <<>> /\ handler[q] = NoPack
  <2> HIDE DEF Answer
  <2>1. OnlyPack(with, wire, handler, hashPackCh, Answer)
    BY DEF Fresh
  <2> QED
    BY <1>1, <2>1 DEF OnlyPack
<1>3. Answer.peer = with
  BY DEF Answer, HashPack
<1> HIDE DEF Answer
<1>4. Head(<<Answer>>) = Answer /\ Tail(<<Answer>>) = <<>>
  OBVIOUS
<1> QED
  BY <1>1, <1>2, <1>3, <1>4

\* The block above the one findAncestor returns is unknown, or near the head.
Highest == AncestorFound /\ number' + 1 < top => TheirBlock(number' + 1) \notin Known

\* The search goes on, or has come to its end, with an interval as it should be.
LEMMA FreshSearch ==
    ASSUME TypeInv, Fresh, [Next]_vars, main \in {"ancestor", "search"}, held' = held, handler' = handler,
           batch' = batch, procs' = procs,
           hashPackCh' = <<>>, with \in Peer, \A q \in Peer : wire[q] = <<>> /\ handler[q] = NoPack,
           NEW l \in Nat, NEW r \in Nat, r <= top, TheirBlock(l) \in Known, Search(l, r)
    PROVE  /\ Fresh'
           /\ r = top \/ (l < r /\ TheirBlock(r) \notin Known) => Upper' /\ Highest
<1>1. Known' = Known
  BY DEF Known
<1>2. sessions' = sessions /\ with' = with /\ top' = top
  BY DEF Search, StartFetchers
<1>3. unsent' # NoRequest => bpc' = "visit"
  BY UnsentStep, Zenon DEF Fresh
<1>4. CASE Undecided(l, r)
  <2>1. /\ main' = "search" /\ left' = l /\ right' = r
        /\ wire' = AskedHashes(with, (l + r) \div 2, 1)
    BY <1>4, Zenon DEF Search
  <2>2. Interval'
    <3>1. l + 1 < r
      BY <1>4 DEF Undecided
    <3> QED
      BY <1>1, <1>2, <2>1, <3>1 DEF Interval
  <2>3. Answer' = HashPack(with, HashesFrom(with, (l + r) \div 2, 1))
    BY <1>2, <2>1 DEF Answer, HashPack, HashesFrom
  <2>4. OnlyPack(with, wire', handler', hashPackCh', HashPack(with, HashesFrom(with, (l + r) \div 2, 1)))
    BY <2>1, AskOnly, Zenon
  <2>5. OnlyPack(with, wire, handler, hashPackCh, Answer)'
    BY <1>2, <2>3, <2>4 DEF OnlyPack
  <2>6. sessions' # 0 /\ PeerHeight[with'] > top' /\ (sessions' = 1 => procs' = 0 /\ batch' = <<>>)
    BY <1>2, Zenon DEF Fresh
  <2>7. ~AncestorFound /\ AncestorIsCommon'
    BY <2>1, Zenon DEF AncestorFound, AncestorIsCommon
  <2>8. Fresh'
    BY <1>3, <2>1, <2>2, <2>5, <2>6, <2>7, Zenon DEF Fresh
  <2>9. r = top \/ TheirBlock(r) \notin Known => Upper'
    BY <1>1, <1>2, <2>1, Zenon DEF Upper
  <2> QED
    BY <2>7, <2>8, <2>9 DEF Highest
<1>5. CASE ~Undecided(l, r)
  <2>1. main' = "fetch" /\ number' = l
    BY <1>5, Zenon DEF Search, StartFetchers
  <2>2. AncestorIsCommon'
    BY <1>1, <2>1, Zenon DEF AncestorIsCommon
  <2>3. sessions' # 0
    BY <1>2 DEF Fresh
  <2>4. Fresh' /\ Upper'
    BY <1>3, <2>1, <2>2, <2>3 DEF Fresh, Upper
  <2>5. top \in Nat
    BY DEF TypeInv, ControlType
  <2>6. r = top => ~(l + 1 < top)
    BY <1>5, <2>5 DEF Undecided
  <2>7. l < r => l + 1 = r
    BY <1>5 DEF Undecided
  <2> QED
    BY <2>1, <2>4, <2>6, <2>7, Zenon DEF Highest
<1> QED
  BY <1>4, <1>5

\* findAncestor's step on the answer to its first request
LEMMA FreshAncestorPack ==
    ASSUME TypeInv, Fresh, [Next]_vars, AncestorPack
    PROVE  Fresh' /\ Upper' /\ Highest
\* What the answer to the first request says about heights
<1>FirstMatch. ASSUME TypeInv, Fresh, main = "ancestor", hashPackCh # <<>>,
                      NEW i \in DOMAIN Head(hashPackCh).hashes
               PROVE  /\ i \in Nat \ {0} /\ HeightAt(i) \in Nat
                      /\ Head(hashPackCh).hashes[i] = TheirBlock(HeightAt(i))
                      /\ \/ i + 1 \in DOMAIN Head(hashPackCh).hashes
                         \/ HeightAt(i) + 1 >= top
  <2> USE <1>FirstMatch
  <2> DEFINE k == FirstAsked(top)
             hashes == Head(hashPackCh).hashes
  <2>1. with \in Peer /\ Head(hashPackCh) = Answer
    BY TakenAnswer
  <2>2. hashes = HashesFrom(with, k, MaxHashesFetch)
    BY <2>1 DEF Answer, HashPack
  <2>3. top \in Nat /\ MaxHashesFetch \in Nat \ {0} /\ PeerHeight[with] > top /\ PeerHeight[with] \in Nat
    BY <2>1, SessionAssumption DEF TypeInv, ControlType, Fresh
  <2>4. k \in Nat /\ k + MaxHashesFetch >= top
    BY <2>3 DEF FirstAsked
  <2> HIDE DEF k, hashes
  <2>5. MaxHashesFetch \in 1 .. MaxHashesFetch
    BY <2>3
  <2>6. /\ Len(hashes) \in Nat /\ DOMAIN hashes = 1 .. Len(hashes) /\ Len(hashes) <= MaxHashesFetch
        /\ \A j \in DOMAIN hashes : hashes[j] = TheirBlock(k + j - 1)
        /\ Len(hashes) < MaxHashesFetch => k + Len(hashes) > PeerHeight[with]
    BY <2>1, <2>2, <2>4, <2>5, HashesFromFacts, Zenon
  <2>7. i \in 1 .. Len(hashes) /\ hashes[i] = TheirBlock(k + i - 1)
    BY <2>6 DEF hashes
  <2>8. HeightAt(i) = k + i - 1
    BY DEF HeightAt, k
  <2>9. i \in Nat \ {0} /\ k + i - 1 \in Nat
    BY <2>4, <2>6, <2>7
  <2>10. CASE i + 1 <= Len(hashes)
    <3>1. i + 1 \in DOMAIN hashes
      BY <2>6, <2>9, <2>10
    <3> QED
      BY <2>7, <2>8, <2>9, <3>1 DEF hashes
  <2>11. CASE ~(i + 1 <= Len(hashes))
    <3>1. i = Len(hashes)
      BY <2>6, <2>7, <2>9, <2>11
    <3>2. k + i - 1 + 1 >= top
      BY <2>3, <2>4, <2>6, <2>9, <3>1
    <3> QED
      BY <2>7, <2>8, <2>9, <3>2 DEF hashes
  <2> QED
    BY <2>10, <2>11
<1> DEFINE hashes == Head(hashPackCh).hashes
           matches == {i \in DOMAIN hashes : hashes[i] \in Known}
<1>1. /\ main = "ancestor" /\ hashPackCh # <<>> /\ hashPackCh' = Tail(hashPackCh)
      /\ held' = held /\ handler' = handler /\ batch' = batch /\ procs' = procs
  BY DEF AncestorPack, chainVars, processVars
<1>2. /\ with \in Peer /\ Tail(hashPackCh) = <<>> /\ Head(hashPackCh).peer = with
      /\ \A q \in Peer : wire[q] = <<>> /\ handler[q] = NoPack
  BY <1>1, TakenAnswer
<1>3. \/ AncestorFails
      \/ \E i \in matches : (\A j \in matches : j <= i) /\ StartFetchers(HeightAt(i))
      \/ Search(0, top)
  BY <1>2 DEF AncestorPack, StrangePack
<1>4. Known' = Known
  BY <1>1 DEF Known
<1>5. unsent' # NoRequest => bpc' = "visit"
  BY UnsentStep DEF Fresh
<1>6. sessions # 0
  BY <1>1 DEF Fresh
<1>7. CASE AncestorFails
  <2>1. main' = "idle" /\ sessions' = sessions
    BY <1>7 DEF AncestorFails
  <2> QED
    BY <1>5, <1>6, <2>1 DEF Fresh, AncestorIsCommon, AncestorFound, Upper, Highest
<1>8. ASSUME NEW i \in matches, \A j \in matches : j <= i, StartFetchers(HeightAt(i))
      PROVE  Fresh' /\ Upper' /\ Highest
  <2>1. main' = "fetch" /\ number' = HeightAt(i) /\ sessions' = sessions
    BY <1>8 DEF StartFetchers
  <2>2. i \in Nat \ {0} /\ HeightAt(i) \in Nat /\ hashes[i] = TheirBlock(HeightAt(i))
    BY <1>1, <1>FirstMatch
  <2>3. AncestorIsCommon'
    BY <1>4, <2>1, <2>2 DEF AncestorIsCommon
  <2>4. Fresh' /\ Upper'
    BY <1>5, <1>6, <2>1, <2>3 DEF Fresh, Upper
  <2>5. CASE i + 1 \in DOMAIN hashes
    <3>1. i + 1 \notin matches
      BY <1>8, <2>2
    <3>2. hashes[i + 1] = TheirBlock(HeightAt(i + 1))
      BY <1>1, <2>5, <1>FirstMatch
    <3>3. HeightAt(i + 1) = HeightAt(i) + 1
      <4>1. FirstAsked(top) \in Nat
        BY FirstAskedType DEF TypeInv, ControlType
      <4> QED
        BY <2>2, <4>1 DEF HeightAt
    <3> QED
      BY <2>1, <2>4, <2>5, <3>1, <3>2, <3>3 DEF Highest
  <2>6. CASE HeightAt(i) + 1 >= top
    <3>1. top \in Nat
      BY DEF TypeInv, ControlType
    <3>2. ~(number' + 1 < top)
      BY <2>1, <2>2, <2>6, <3>1
    <3> QED
      BY <2>4, <3>2 DEF Highest
  <2> QED
    BY <1>1, <2>5, <2>6, <1>FirstMatch
<1>9. CASE Search(0, top)
  <2>1. top \in Nat /\ 0 \in Nat /\ top <= top
    BY DEF TypeInv, ControlType
  <2>2. TheirBlock(0) \in Known
    <3>1. OurBlock(0) \in held /\ OurBlock(0) = TheirBlock(0)
      BY TheirBlockFacts, SessionAssumption DEF TypeInv, QueueType, Genuine
    <3>2. \A j \in 0 .. 0 : TheirBlock(j) \in held
      BY <3>1
    <3> QED
      BY <3>2, TheirsKnown
  <2>3. hashPackCh' = <<>> /\ main \in {"ancestor", "search"}
    BY <1>1, <1>2
  <2> QED
    BY <1>1, <1>2, <1>9, <2>1, <2>2, <2>3, FreshSearch
<1> QED
  BY <1>3, <1>7, <1>8, <1>9

\* And on an answer of the binary search
LEMMA FreshSearchPack ==
    ASSUME TypeInv, Fresh, [Next]_vars, SearchPack
    PROVE  /\ Fresh'
           /\ Upper => Upper' /\ Highest
<1> DEFINE hashes == Head(hashPackCh).hashes
           mid == (left + right) \div 2
           half == Half(hashes[1] \in Known)
<1>1. /\ main = "search" /\ hashPackCh # <<>> /\ hashPackCh' = Tail(hashPackCh)
      /\ held' = held /\ handler' = handler /\ batch' = batch /\ procs' = procs
  BY DEF SearchPack, chainVars, processVars
<1>2. /\ with \in Peer /\ Tail(hashPackCh) = <<>> /\ Head(hashPackCh).peer = with
      /\ Head(hashPackCh) = Answer
      /\ \A q \in Peer : wire[q] = <<>> /\ handler[q] = NoPack
  BY <1>1, TakenAnswer
<1>3. AncestorFails \/ (Len(hashes) = 1 /\ Search(half[1], half[2]))
  BY <1>2 DEF SearchPack, StrangePack
<1>4. unsent' # NoRequest => bpc' = "visit"
  BY UnsentStep DEF Fresh
<1>5. sessions # 0
  BY <1>1 DEF Fresh
<1>6. CASE AncestorFails
  <2>1. main' = "idle" /\ sessions' = sessions
    BY <1>6 DEF AncestorFails
  <2> QED
    BY <1>4, <1>5, <2>1 DEF Fresh, AncestorIsCommon, AncestorFound, Upper, Highest
<1>7. CASE Len(hashes) = 1 /\ Search(half[1], half[2])
  <2>1. left \in Nat /\ right \in Nat /\ top \in Nat /\ left + 1 < right /\ right <= top
        /\ TheirBlock(left) \in Known /\ (Upper => right = top \/ TheirBlock(right) \notin Known)
    BY <1>1 DEF TypeInv, ControlType, Fresh, Interval, Upper
  <2>2. mid \in Nat /\ left < mid /\ mid < right
    BY <2>1
  <2>3. hashes = HashesFrom(with, mid, 1)
    <3>1. Answer = HashPack(with, HashesFrom(with, mid, 1))
      BY <1>1, Zenon DEF Answer
    <3> DEFINE h == HashesFrom(with, mid, 1)
    <3>2. HashPack(with, h).hashes = h
      BY DEF HashPack
    <3> QED
      BY <1>2, <3>1, <3>2, Zenon
  <2>4. hashes[1] = TheirBlock(mid)
    <3> HIDE DEF mid, hashes
    <3>1. 1 \in 1 .. MaxHashesFetch
      BY SessionAssumption
    <3>2. DOMAIN hashes = 1 .. Len(hashes) /\ \A i \in DOMAIN hashes : hashes[i] = TheirBlock(mid + i - 1)
      <4>1. with \in Peer /\ mid \in Nat
        BY <1>2, <2>2
      <4> QED
        BY ONLY <2>3, <3>1, <4>1, HashesFromFacts
    <3>3. 1 \in DOMAIN hashes /\ mid + 1 - 1 = mid
      BY <1>7, <2>2, <3>2
    <3> QED
      BY <3>2, <3>3
  <2>5. hashPackCh' = <<>> /\ main \in {"ancestor", "search"}
    BY <1>1, <1>2
  <2>6. CASE TheirBlock(mid) \in Known
    <3>1. half[1] = mid /\ half[2] = right
      BY <2>4, <2>6 DEF Half
    <3>2. Search(mid, right)
      BY <1>7, <3>1
    <3>3. Upper => right = top \/ (mid < right /\ TheirBlock(right) \notin Known)
      BY <2>1, <2>2
    <3> HIDE DEF mid, half, hashes
    <3> QED
      BY <1>1, <1>2, <2>1, <2>2, <2>5, <2>6, <3>2, <3>3, FreshSearch
  <2>7. CASE TheirBlock(mid) \notin Known
    <3>1. half[1] = left /\ half[2] = mid
      BY <2>4, <2>7 DEF Half
    <3>2. Search(left, mid) /\ mid <= top
      <4>1. Search(half[1], half[2])
        BY <1>7, Zenon
      <4> HIDE DEF mid, half, hashes
      <4>2. Search(left, mid)
        BY <3>1, <4>1, Zenon
      <4>3. mid <= top
        BY ONLY <2>1, <2>2
      <4> QED
        BY <4>2, <4>3
    <3>3. left < mid /\ TheirBlock(mid) \notin Known
      BY <2>2, <2>7
    <3> HIDE DEF mid, half, hashes
    <3> QED
      BY <1>1, <1>2, <2>1, <2>2, <2>5, <3>2, <3>3, FreshSearch
  <2> QED
    BY <2>6, <2>7
<1> QED
  BY <1>3, <1>6, <1>7

\* Every step keeps it, if synchronisations begin with nothing on its way.
LEMMA FreshStep ==
    ASSUME TypeInv, Balanced, Fresh, [Next]_vars, [FreshStart]_vars
    PROVE  Fresh'
\* While findAncestor waits, no fetcher runs.
<1>NoFetcher. ASSUME Balanced, main \in {"idle", "ancestor", "search"}, Fresh
              PROVE  /\ hpc = "off" /\ bpc = "off" /\ unsent = NoRequest
                     /\ ~FetchHashes /\ ~FetchBlocks /\ ~FirstResult /\ ~LastResult
  <2> USE <1>NoFetcher
  <2>1. hpc = "off" /\ bpc = "off" /\ errc = <<>>
    BY NothingOwed DEF Expected
  <2>2. unsent = NoRequest
    BY <2>1 DEF Fresh
  <2>3. ~FetchHashes
    BY <2>1 DEF FetchHashes, HashesGiveUp, HashesPack, TellFinished
  <2>4. ~FirstResult /\ ~LastResult
    BY <2>1, Zenon DEF FirstResult, LastResult
  <2>5. ~FetchBlocks
    BY <2>1, <2>2, Zenon DEF FetchBlocks, VisitPeers, Prepare, BlocksCancelled, BlocksPack, News, Update,
                      Reserve, SendRequest, CancelRequest, Visited
  <2> QED
    BY <2>1, <2>2, <2>3, <2>4, <2>5
\* A synchronisation begins with nothing on its way.
<1>FreshBegins. ASSUME NEW p \in Peer, Synchronise(p)
                PROVE  Fresh'
  <2> USE <1>FreshBegins
  <2>1. /\ main = "idle" /\ sessions < MaxSessions /\ PeerHeight[p] > HeadHeight
        /\ sessions' = sessions + 1 /\ with' = p /\ top' = HeadHeight
        /\ main' = (IF p \in peers THEN "ancestor" ELSE "idle")
        /\ wire' = AskedHashes(p, FirstAsked(HeadHeight), MaxHashesFetch)
        /\ handler' = handler /\ hashPackCh' = hashPackCh /\ procs' = procs /\ batch' = batch
    BY DEF Synchronise, processVars, channels
  <2>2. sessions \in Nat
    BY DEF TypeInv, ControlType
  <2>3. Silent
    <3>1. ~(UNCHANGED vars)
      BY <2>1, <2>2 DEF vars, mainVars
    <3> QED
      BY <3>1 DEF FreshStart
  <2>4. unsent' # NoRequest => bpc' = "visit"
    BY UnsentStep DEF Fresh
  <2>5. OnlyPack(p, wire', handler', hashPackCh',
                 HashPack(p, HashesFrom(p, FirstAsked(HeadHeight), MaxHashesFetch)))
    BY <2>1, <2>3, AskOnly, Zenon DEF Silent
  <2>6. main' = "ancestor" => OnlyPack(with, wire, handler, hashPackCh, Answer)'
    <3> SUFFICES ASSUME main' = "ancestor"
                 PROVE  OnlyPack(with, wire, handler, hashPackCh, Answer)'
      OBVIOUS
    <3>1. FirstAsked(top)' = FirstAsked(HeadHeight)
      BY <2>1 DEF FirstAsked
    <3>2. Answer' = HashPack(p, HashesFrom(p, FirstAsked(HeadHeight), MaxHashesFetch))
      BY <2>1, <3>1 DEF Answer, HashPack, HashesFrom
    <3> QED
      BY <2>1, <2>5, <3>2, Zenon DEF OnlyPack
  <2>7. sessions' # 0 /\ (sessions' = 1 => procs' = 0 /\ batch' = <<>>)
    <3>1. sessions' # 0 /\ (sessions' = 1 => sessions = 0)
      BY <2>1, <2>2
    <3> QED
      BY <2>1, <3>1 DEF Fresh
  <2> QED
    BY <2>1, <2>4, <2>6, <2>7 DEF Fresh, AncestorIsCommon
\* Meanwhile only the network moves.
<1>FreshNet. ASSUME TypeInv, Fresh, [Next]_vars, NEW p \in Peer,
                        Handle(p) \/ Deposit(p) \/ LoseAnswer(p) \/ Disconnect(p) \/ Connect(p)
                 PROVE  Fresh'
  <2> USE <1>FreshNet
  \* The handlers and the network take the pack one step further, or lose it.
  <2>OnlyPackStep. ASSUME NEW q \in Peer, NEW a, a.kind = "hashes", OnlyPack(q, wire, handler, hashPackCh, a)
                   PROVE  OnlyPack(q, wire', handler', hashPackCh', a)
    <3> USE <2>OnlyPackStep
    <3>1. wire \in [Peer -> Seq(HashPacks \cup BlockPacks)] /\ DOMAIN handler = Peer
      BY DEF TypeInv, NetType
    <3>2. DOMAIN wire = Peer /\ Tail(<<a>>) = <<>> /\ Head(<<a>>) = a /\ <<a>> # <<>> /\ Append(<<>>, a) = <<a>>
      BY <3>1
    <3>3. CASE Handle(p)
      <4>1. /\ wire[p] # <<>> /\ wire' = [wire EXCEPT ![p] = Tail(wire[p])] /\ hashPackCh' = hashPackCh
            /\ handler' = IF closed THEN handler ELSE [handler EXCEPT ![p] = Head(wire[p])]
        BY <3>3 DEF Handle, channels
      <4>2. p = q /\ wire[q] = <<a>> /\ handler[q] = NoPack /\ hashPackCh = <<>>
        BY <4>1 DEF OnlyPack
      <4>3. /\ wire'[q] = <<>> /\ handler'[q] \in {NoPack, a}
            /\ \A r \in Peer : r # q => wire'[r] = wire[r] /\ handler'[r] = handler[r]
        BY <3>1, <3>2, <4>1, <4>2
      <4> QED
        BY <4>1, <4>2, <4>3 DEF OnlyPack
    <3>4. CASE Deposit(p)
      <4>1. /\ handler[p] # NoPack /\ handler' = [handler EXCEPT ![p] = NoPack] /\ wire' = wire
            /\ \/ handler[p].kind = "hashes" /\ hashPackCh' = Append(hashPackCh, handler[p])
               \/ handler[p].kind = "blocks"
        BY <3>4, Zenon DEF Deposit
      <4>2. p = q /\ wire[q] = <<>> /\ handler[q] = a /\ hashPackCh = <<>>
        BY <4>1, Zenon DEF OnlyPack
      <4>3. /\ wire'[q] = <<>> /\ handler'[q] = NoPack /\ hashPackCh' = <<a>>
            /\ \A r \in Peer : r # q => wire'[r] = wire[r] /\ handler'[r] = handler[r]
        BY <3>1, <3>2, <4>1, <4>2
      <4> QED
        BY <4>3, Zenon DEF OnlyPack
    <3>5. CASE LoseAnswer(p)
      <4>1. /\ wire[p] # <<>> /\ wire' = [wire EXCEPT ![p] = Tail(wire[p])] /\ hashPackCh' = hashPackCh
            /\ handler' = handler
        BY <3>5 DEF LoseAnswer, channels
      <4>2. p = q /\ wire[q] = <<a>> /\ handler[q] = NoPack /\ hashPackCh = <<>>
        BY <4>1, Zenon DEF OnlyPack
      <4>3. wire'[q] = <<>> /\ \A r \in Peer : r # q => wire'[r] = wire[r]
        BY <3>1, <3>2, <4>1, <4>2
      <4> QED
        BY <4>1, <4>2, <4>3, Zenon DEF OnlyPack
    <3>6. CASE Disconnect(p)
      <4>1. /\ wire' = [wire EXCEPT ![p] = <<>>] /\ hashPackCh' = hashPackCh /\ handler' = handler
        BY <3>6 DEF Disconnect, channels
      <4>2. wire'[p] = <<>> /\ \A r \in Peer : r # p => wire'[r] = wire[r]
        BY <3>2, <4>1
      <4> QED
        BY <4>1, <4>2, Zenon DEF OnlyPack
    <3>7. CASE Connect(p)
      BY <3>7, Zenon DEF Connect, OnlyPack, netVars, channels
    <3> QED
      BY <3>3, <3>4, <3>5, <3>6, <3>7
  \* Before the first synchronisation there is nothing for them to do.
  <2>SilentStep. ASSUME Silent
                 PROVE  Silent'
    <3> USE <2>SilentStep
    <3>1. DOMAIN wire = Peer
      BY DEF TypeInv, NetType
    <3>2. Disconnect(p) \/ Connect(p)
      BY Zenon DEF Silent, Handle, Deposit, LoseAnswer
    <3>3. handler' = handler /\ hashPackCh' = hashPackCh /\ (wire' = wire \/ wire' = [wire EXCEPT ![p] = <<>>])
      BY <3>2 DEF Disconnect, Connect, netVars, channels
    <3>4. \A r \in Peer : wire'[r] = <<>>
      BY <3>1, <3>3 DEF Silent
    <3> QED
      BY <3>3, <3>4 DEF Silent
  <2>1. /\ held' = held /\ procs' = procs /\ batch' = batch /\ UNCHANGED mainVars /\ unsent' = unsent /\ bpc' = bpc
    BY Zenon DEF Handle, Deposit, LoseAnswer, Disconnect, Connect, chainVars, processVars, blocksVars
  <2>2. Known' = Known
    BY <2>1 DEF Known
  <2>3. Answer' = Answer /\ Interval' = Interval /\ AncestorIsCommon' = AncestorIsCommon
    BY <2>1, <2>2, Zenon DEF Answer, Interval, AncestorIsCommon, mainVars, HashPack, HashesFrom, FirstAsked
  <2>4. sessions = 0 => Silent'
    BY <2>SilentStep DEF Fresh
  <2>5. main \in {"ancestor", "search"} => OnlyPack(with, wire', handler', hashPackCh', Answer)
    <3> SUFFICES ASSUME main \in {"ancestor", "search"}
                 PROVE  OnlyPack(with, wire', handler', hashPackCh', Answer)
      OBVIOUS
    <3>1. with \in Peer
      BY DEF TypeInv, ControlType
    <3>2. Answer.kind = "hashes"
      BY DEF Answer, HashPack
    <3>3. OnlyPack(with, wire, handler, hashPackCh, Answer)
      BY DEF Fresh
    <3> DEFINE a == Answer
    <3>4. a.kind = "hashes" /\ OnlyPack(with, wire, handler, hashPackCh, a)
      BY <3>2, <3>3
    <3> HIDE DEF a
    <3>5. OnlyPack(with, wire', handler', hashPackCh', a)
      BY <3>1, <3>4, <2>OnlyPackStep
    <3> QED
      BY <3>5 DEF a
  <2>6. main \in {"ancestor", "search"} => OnlyPack(with, wire, handler, hashPackCh, Answer)'
    BY <2>1, <2>3, <2>5, Zenon DEF OnlyPack, mainVars
  <2> QED
    BY <2>1, <2>3, <2>4, <2>6 DEF Fresh, mainVars
<1>0. unsent' # NoRequest => bpc' = "visit"
  BY UnsentStep DEF Fresh
<1>1. ASSUME NEW p \in Peer, Synchronise(p) PROVE Fresh'
  BY <1>1, <1>FreshBegins
<1>2. CASE AncestorPack \/ SearchPack
  BY <1>2, FreshAncestorPack, FreshSearchPack
<1>3. ASSUME NEW p \in Peer, Handle(p) \/ Deposit(p) \/ LoseAnswer(p) \/ Disconnect(p) \/ Connect(p)
      PROVE  Fresh'
  BY <1>3, <1>FreshNet
<1>4. CASE AncestorGivesUp
  <2>1. main' = "idle" /\ sessions' = sessions /\ sessions # 0
    BY <1>4 DEF AncestorGivesUp, AncestorFails, Fresh
  <2> QED
    BY <1>0, <2>1 DEF Fresh, AncestorIsCommon
<1>5. CASE UNCHANGED vars
  <2>1. /\ held' = held /\ procs' = procs /\ batch' = batch /\ UNCHANGED mainVars /\ UNCHANGED <<wire, handler, hashPackCh>>
    BY <1>5 DEF vars, chainVars, processVars, netVars, channels
  <2>2. Known' = Known
    BY <2>1 DEF Known
  <2>3. Answer' = Answer /\ Interval' = Interval /\ AncestorIsCommon' = AncestorIsCommon
    BY <2>1, <2>2, Zenon DEF Answer, Interval, AncestorIsCommon, mainVars, HashPack, HashesFrom, FirstAsked
  <2>4. OnlyPack(with, wire, handler, hashPackCh, Answer)' = OnlyPack(with, wire, handler, hashPackCh, Answer)
        /\ Silent' = Silent
    BY <2>1, <2>3, Zenon DEF OnlyPack, Silent, mainVars
  <2> QED
    BY <1>0, <2>1, <2>3, <2>4 DEF Fresh, mainVars
<1>6. CASE /\ FirstResult \/ LastResult \/ FetchHashes \/ FetchBlocks
           /\ ~(UNCHANGED vars)
  <2>1. main \in {"fetch", "last", "drain"} /\ sessions # 0
    BY <1>6, <1>NoFetcher DEF Balanced, Stages, Fresh
  <2>2. sessions' = sessions /\ number' = number /\ held' = held /\ main' \in {"fetch", "last", "drain", "idle"}
    <3>1. CASE FirstResult \/ LastResult
      BY <3>1, Zenon DEF FirstResult, LastResult, AfterError, chainVars
    <3>2. CASE FetchHashes
      BY <2>1, <3>2, Zenon DEF FetchHashes, HashesGiveUp, HashesPack, TellFinished, StrangePack, InsertHashes, mainVars, chainVars
    <3>3. CASE Prepare \/ BlocksCancelled \/ BlocksPack \/ News \/ SendRequest \/ CancelRequest \/ Visited
      BY <2>1, <3>3, Zenon DEF Prepare, BlocksCancelled, BlocksPack, News, SendRequest, CancelRequest, Visited, mainVars, chainVars
    <3>4. ASSUME NEW expired, Update(expired)
          PROVE  sessions' = sessions /\ number' = number /\ held' = held /\ main' = main
      BY <3>4, Zenon DEF Update, mainVars
    <3>5. ASSUME NEW p, Reserve(p)
          PROVE  sessions' = sessions /\ number' = number /\ held' = held /\ main' = main
      BY <3>5, Zenon DEF Reserve, mainVars, chainVars
    <3> QED
      BY <1>6, <2>1, <3>1, <3>2, <3>3, <3>4, <3>5 DEF FetchBlocks, VisitPeers
  <2>3. Known' = Known
    BY <2>2 DEF Known
  <2> QED
    BY <1>0, <2>1, <2>2, <2>3 DEF Fresh, AncestorIsCommon
<1>7. CASE ProcessQueue \/ InsertFails
  <2>1. procs > 0 \/ batch # <<>>
    BY <1>7 DEF ProcessQueue, TakeBlocks, InsertChain, InsertFails
  <2>2. sessions # 0 /\ ~(sessions = 1 /\ main \in {"ancestor", "search"})
    BY <2>1 DEF Fresh
  <2>3. UNCHANGED <<sessions, main, with, top, left, right, number, handler, hashPackCh>>
    BY <1>7, Zenon DEF ProcessQueue, TakeBlocks, InsertChain, InsertFails, mainVars, netVars, channels
  <2>4. wire' = wire \/ \E q : wire' = [wire EXCEPT ![q] = <<>>]
    BY <1>7, Zenon DEF ProcessQueue, TakeBlocks, InsertChain, InsertFails, netVars
  <2>5. held \subseteq held' /\ number \in Nat /\ left \in Nat
    BY HeldGrows DEF TypeInv, ControlType
  <2>6. /\ TheirBlock(number) \in Known => TheirBlock(number) \in Known'
        /\ TheirBlock(left) \in Known => TheirBlock(left) \in Known'
    BY <2>5, KnownStays
  <2>7. AncestorIsCommon' /\ (main' = "search" => Interval')
    BY <2>3, <2>6, Zenon DEF Fresh, AncestorIsCommon, Interval
  <2>8. main \in {"ancestor", "search"} => OnlyPack(with, wire, handler, hashPackCh, Answer)'
    <3>1. Answer' = Answer
      BY <2>3, Zenon DEF Answer, HashPack, HashesFrom, FirstAsked
    <3>2. DOMAIN wire = Peer
      BY DEF TypeInv, NetType
    <3>3. \A q \in Peer : wire'[q] = wire[q] \/ wire'[q] = <<>>
      BY <2>4, <3>2
    <3>4. with \in Peer \/ main \notin {"ancestor", "search"}
      BY DEF TypeInv, ControlType
    <3> QED
      BY <2>3, <3>1, <3>3, <3>4, Zenon DEF Fresh, OnlyPack
  <2> QED
    BY <1>0, <2>2, <2>3, <2>7, <2>8, Zenon DEF Fresh
<1> QED
  BY <1>1, <1>2, <1>3, <1>4, <1>5, <1>6, <1>7 DEF Next, Main, Environment

\* With one synchronisation there is nothing of an earlier one to begin with,
\* and nothing to insert before its search is over.
LEMMA OneIsFresh ==
    ASSUME MaxSessions = 1, TypeInv, Fresh, [Next]_vars
    PROVE  FreshStart /\ Undisturbed
<1>1. sessions \in Nat /\ sessions <= 1
  BY DEF TypeInv, ControlType
<1>2. FreshStart
  <2> SUFFICES ASSUME NEW p \in Peer, Synchronise(p) PROVE Silent
    BY DEF FreshStart
  <2>1. sessions < MaxSessions
    BY DEF Synchronise
  <2> QED
    BY <1>1, <2>1 DEF Fresh
<1>3. Undisturbed
  <2> SUFFICES ASSUME main \in {"ancestor", "search"} PROVE held' = held
    BY DEF Undisturbed
  <2>1. sessions = 1
    BY <1>1 DEF Fresh
  <2>2. batch = <<>>
    BY <2>1 DEF Fresh
  <2> QED
    BY <2>2, HeldGrows DEF InsertChain
<1> QED
  BY <1>2, <1>3

\* The step of the search: nothing common is left out above the ancestor.
LEMMA UpperStep ==
    ASSUME TypeInv, Fresh, Upper, [Next]_vars, [Undisturbed]_vars
    PROVE  Upper' /\ Highest
<1>1. CASE AncestorPack
  BY <1>1, FreshAncestorPack
<1>2. CASE SearchPack
  BY <1>2, FreshSearchPack
<1>3. ASSUME NEW p \in Peer, Synchronise(p) PROVE Upper' /\ Highest
  <2>1. main = "idle" /\ main' \in {"ancestor", "idle"}
    BY <1>3 DEF Synchronise
  <2> QED
    BY <2>1 DEF Upper, Highest, AncestorFound
<1>4. CASE UNCHANGED found /\ main' = "idle"
  BY <1>4 DEF Upper, Highest, AncestorFound
<1>5. CASE main \in {"fetch", "last", "drain"} /\ main' \in {"fetch", "last", "drain"}
  BY <1>5 DEF Upper, Highest, AncestorFound
<1>6. CASE UNCHANGED found /\ main' = main
  <2>1. Highest
    BY <1>6, Zenon DEF Highest, AncestorFound
  <2>2. main = "search" => held' = held
    BY DEF Undisturbed, vars, chainVars
  <2>3. main = "search" => Known' = Known
    BY <2>2 DEF Known
  <2> QED
    BY <1>6, <2>1, <2>3 DEF Upper, found
<1> QED
  BY <1>1, <1>2, <1>3, <1>4, <1>5, <1>6, OtherSteps, Zenon

\* findAncestor returns the height of a block we share with the peer, in every
\* synchronisation that begins when no answer of an earlier one is on its way:
\* whatever is lost or refused, whatever processQueue inserts meanwhile, and
\* also where the chains have forked.
THEOREM FreshAncestorCommon == Spec /\ [][FreshStart]_vars => []AncestorIsCommon
<1>1. TypeInv /\ Balanced /\ Fresh /\ [Next]_vars /\ [FreshStart]_vars => Fresh'
  BY FreshStep
<1>2. Fresh => AncestorIsCommon
  BY DEF Fresh
<1> QED
  BY TypesHold, InitFresh, <1>1, <1>2, PTL DEF Spec

\* Such synchronisations insert no block before its parent, however many follow
\* each other.
THEOREM FreshBlocksConnect == Spec /\ [][FreshStart]_vars => []BlocksConnect
BY FreshAncestorCommon, CommonAncestorConnects, PTL

\* If moreover nothing is inserted while findAncestor searches, neither its
\* first request nor its binary search stops short of the highest common block.
THEOREM FreshAncestorHighest ==
    Spec /\ [][FreshStart]_vars /\ [][Undisturbed]_vars => AncestorIsHighest
<1>1. TypeInv /\ Balanced /\ Fresh /\ [Next]_vars /\ [FreshStart]_vars => Fresh'
  BY FreshStep
<1>2. TypeInv /\ Fresh /\ Upper /\ [Next]_vars /\ [Undisturbed]_vars => Upper' /\ [Highest]_vars
  BY UpperStep
<1>3. Init => Upper
  BY DEF Init, Upper
<1>4. [][Highest]_vars => AncestorIsHighest
  BY PTL DEF Highest, AncestorIsHighest
<1> QED
  BY TypesHold, InitFresh, <1>1, <1>2, <1>3, <1>4, PTL DEF Spec

\* findAncestor returns the height of a block we share with the peer, in the
\* first synchronisation whatever is lost, late or refused, and in every one
\* when our chain has not left the peers' chain: then also when an answer to an
\* earlier request is taken for the answer to the current one.
THEOREM AncestorCommon ==
    ASSUME MaxSessions = 1 \/ OurHeight <= Fork
    PROVE  Spec => []AncestorIsCommon
\* In the beginning no search is under way.
<1>InitNoFork. Init => NoFork
  BY DEF Init, NoFork, AncestorIsCommon
<1>1. CASE MaxSessions = 1
  <2>1. TypeInv /\ Balanced /\ Fresh /\ [Next]_vars => Fresh'
    BY <1>1, OneIsFresh, FreshStep
  <2>2. Fresh => AncestorIsCommon
    BY DEF Fresh
  <2> QED
    BY TypesHold, InitFresh, <2>1, <2>2, PTL DEF Spec
<1>2. CASE OurHeight <= Fork
  <2>1. TypeInv /\ NoFork /\ [Next]_vars => NoFork'
    BY <1>2, NoForkStep
  <2>2. NoFork => AncestorIsCommon
    BY DEF NoFork
  <2> QED
    BY TypesHold, <1>InitNoFork, <2>1, <2>2, PTL DEF Spec
<1> QED
  BY <1>1, <1>2

\* Under the same conditions processQueue inserts no block before its parent.
THEOREM BlocksAlwaysConnect ==
    ASSUME MaxSessions = 1 \/ OurHeight <= Fork
    PROVE  Spec => []BlocksConnect
BY AncestorCommon, CommonAncestorConnects, PTL

\* In the first synchronisation neither the first request nor the binary search
\* of findAncestor stops short of the highest common block.
THEOREM AncestorHighest ==
    ASSUME MaxSessions = 1
    PROVE  Spec => AncestorIsHighest
<1>1. TypeInv /\ Balanced /\ Fresh /\ [Next]_vars => Fresh' /\ [FreshStart]_vars /\ [Undisturbed]_vars
  BY OneIsFresh, FreshStep
<1> QED
  BY TypesHold, InitFresh, <1>1, FreshAncestorHighest, PTL DEF Spec
=============================================================================
