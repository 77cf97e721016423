--------------------------- MODULE SyncSessionTypes ---------------------------
(***************************************************************************)
(* What the proofs about the synchronisation rest on, for any peers,       *)
(* chains and limits and any number of faults and synchronisations: both   *)
(* fetchers end, and every variable keeps its type.                        *)
(***************************************************************************)
EXTENDS SyncSession, WellFoundedInduction, TLAPS

-----------------------------------------------------------------------------
(* Both fetchers end.                                                      *)

\* Results synchronise has still to read: a fetcher that runs owes one, and one
\* that has returned has left it in errc.
Owed == (IF hpc = "off" THEN 0 ELSE 1) + (IF bpc = "off" THEN 0 ELSE 1) + Len(errc)

\* Results synchronise reads before it returns
Expected == IF main = "fetch" THEN 2 ELSE IF main \in {"last", "drain"} THEN 1 ELSE 0

\* The inductive invariant: synchronise reads as many results as there will be.
\* FetchersEnded alone is not inductive, since it does not say how many fetchers
\* are left after the first result.
Balanced ==
    /\ main \in Stages
    /\ errc \in Seq(BOOLEAN)
    /\ Owed = Expected

\* Where the three goroutines of a session stand
control == <<main, hpc, bpc, errc>>

\* Before the first synchronisation nothing runs and nothing is expected.
LEMMA InitBalanced == Init => Balanced
BY DEF Init, Balanced, Stages, Owed, Expected

\* With nothing expected, nothing runs and nothing is left to read.
LEMMA NothingOwed ==
    ASSUME Balanced, Expected = 0
    PROVE  hpc = "off" /\ bpc = "off" /\ errc = <<>>
<1>1. Len(errc) \in Nat
  BY DEF Balanced
<1>2. hpc = "off" /\ bpc = "off" /\ Len(errc) = 0
  BY <1>1 DEF Balanced, Owed
<1>3. errc = <<>>
  BY <1>2 DEF Balanced
<1> QED
  BY <1>2, <1>3

-----------------------------------------------------------------------------

\* Every step keeps the balance.
LEMMA NextBalanced == Balanced /\ [Next]_vars => Balanced'
\* A step of none of the three goroutines of a session keeps the balance.
<1>StillBalanced. ASSUME Balanced, UNCHANGED control
                  PROVE  Balanced'
  BY <1>StillBalanced DEF Balanced, control, Owed, Expected, Stages
\* findAncestor fails before any fetcher was started.
<1>FailBalanced. ASSUME Balanced, main \in {"ancestor", "search"}, AncestorFails
                 PROVE  Balanced'
  <2> USE <1>FailBalanced
  <2>1. main' = "idle" /\ errc' = errc /\ hpc' = hpc /\ bpc' = bpc
    BY DEF AncestorFails, hashesVars, blocksVars
  <2> QED
    BY <2>1 DEF Balanced, Owed, Expected, Stages
\* Two fetchers are started on an empty errc.
<1>StartBalanced. ASSUME NEW n, StartFetchers(n)
                  PROVE  Balanced'
  <2> USE <1>StartBalanced
  <2>1. main' = "fetch" /\ errc' = <<>> /\ hpc' = "wait" /\ bpc' = "prepare"
    BY DEF StartFetchers
  <2> QED
    BY <2>1 DEF Balanced, Owed, Expected, Stages
\* So does going on with findAncestor's binary search.
<1>SearchBalanced. ASSUME Balanced, main \in {"ancestor", "search"}, NEW l, NEW r, Search(l, r)
                   PROVE  Balanced'
  <2> USE <1>SearchBalanced
  <2>1. CASE StartFetchers(l)
    BY <2>1, <1>StartBalanced
  <2>2. CASE main' = "search" /\ UNCHANGED <<errc, hashesVars, blocksVars>>
    <3>1. main' = "search" /\ errc' = errc /\ hpc' = hpc /\ bpc' = bpc
      BY <2>2 DEF hashesVars, blocksVars
    <3> QED
      BY <3>1 DEF Balanced, Owed, Expected, Stages
  <2> QED
    BY <2>1, <2>2 DEF Search
\* A result that is read is one less to come, and one less to expect.
<1>ReadBalanced. ASSUME Balanced, errc # <<>>, errc' = Tail(errc), hpc' = hpc, bpc' = bpc,
                        main' \in Stages, Expected' = Expected - 1
                 PROVE  Balanced'
  <2> USE <1>ReadBalanced
  <2>1. errc' \in Seq(BOOLEAN) /\ Len(errc') = Len(errc) - 1 /\ Len(errc) \in Nat
    BY DEF Balanced
  <2>2. Owed' = Owed - 1
    BY <2>1 DEF Owed
  <2> QED
    BY <2>1, <2>2 DEF Balanced
\* A fetcher that returns leaves its result.
<1>ReturnBalanced. ASSUME Balanced, NEW ok \in BOOLEAN, errc' = Append(errc, ok), main' = main,
                          \/ hpc # "off" /\ hpc' = "off" /\ bpc' = bpc
                          \/ bpc # "off" /\ bpc' = "off" /\ hpc' = hpc
                   PROVE  Balanced'
  <2> USE <1>ReturnBalanced
  <2>1. errc' \in Seq(BOOLEAN) /\ Len(errc') = Len(errc) + 1 /\ Len(errc) \in Nat
    BY DEF Balanced
  <2>2. Owed' = Owed
    BY <2>1 DEF Owed
  <2>3. Expected' = Expected
    BY DEF Expected
  <2> QED
    BY <2>1, <2>2, <2>3 DEF Balanced
\* A fetcher that goes on has nothing to leave.
<1>GoingOnBalanced. ASSUME Balanced, errc' = errc, main' = main,
                           hpc' = hpc \/ (hpc # "off" /\ hpc' # "off"),
                           bpc' = bpc \/ (bpc # "off" /\ bpc' # "off")
                    PROVE  Balanced'
  BY <1>GoingOnBalanced DEF Balanced, Owed, Expected, Stages
\* Every step of synchronise and findAncestor keeps the balance.
<1>MainBalanced. Balanced /\ Main => Balanced'
  <2> SUFFICES ASSUME Balanced, Main PROVE Balanced'
    OBVIOUS
  <2>1. CASE StrangePack
    <3>1. UNCHANGED control
      BY <2>1 DEF StrangePack, control, mainVars, hashesVars, blocksVars
    <3> QED
      BY <3>1, <1>StillBalanced
  <2>2. CASE AncestorPack
    <3>1. main \in {"ancestor", "search"}
      BY <2>2 DEF AncestorPack
    <3>2. StrangePack \/ AncestorFails \/ (\E i : StartFetchers(HeightAt(i))) \/ Search(0, top)
      BY <2>2 DEF AncestorPack
    <3> QED
      BY <2>1, <3>1, <3>2, <1>FailBalanced, <1>StartBalanced, <1>SearchBalanced
  <2>3. CASE SearchPack
    <3>1. main \in {"ancestor", "search"}
      BY <2>3 DEF SearchPack
    <3>2. StrangePack \/ AncestorFails \/ \E l, r : Search(l, r)
      BY <2>3 DEF SearchPack
    <3> QED
      BY <2>1, <3>1, <3>2, <1>FailBalanced, <1>SearchBalanced
  <2>4. CASE AncestorGivesUp
    BY <2>4, <1>FailBalanced DEF AncestorGivesUp
  <2>5. CASE FirstResult
    <3>1. main = "fetch" /\ main' \in {"last", "drain"}
      BY <2>5, Zenon DEF FirstResult, AfterError
    <3>2. errc # <<>> /\ errc' = Tail(errc) /\ hpc' = hpc /\ bpc' = bpc
      BY <2>5, Zenon DEF FirstResult, hashesVars, blocksVars
    <3>3. main' \in Stages /\ Expected' = Expected - 1
      BY <3>1 DEF Expected, Stages
    <3> QED
      BY <3>2, <3>3, <1>ReadBalanced
  <2>6. CASE LastResult
    <3>1. main \in {"last", "drain"} /\ main' = "idle"
      BY <2>6 DEF LastResult
    <3>2. errc # <<>> /\ errc' = Tail(errc) /\ hpc' = hpc /\ bpc' = bpc
      BY <2>6 DEF LastResult, hashesVars, blocksVars
    <3>3. main' \in Stages /\ Expected' = Expected - 1
      BY <3>1 DEF Expected, Stages
    <3> QED
      BY <3>2, <3>3, <1>ReadBalanced
  <2> QED
    BY <2>2, <2>3, <2>4, <2>5, <2>6 DEF Main
\* Every step of fetchHashes keeps the balance: it leaves one result as it returns.
<1>FetchHashesBalanced. Balanced /\ FetchHashes => Balanced'
  <2> SUFFICES ASSUME Balanced, FetchHashes PROVE Balanced'
    OBVIOUS
  <2>1. CASE HashesGiveUp
    <3>1. hpc # "off" /\ hpc' = "off" /\ errc' = Append(errc, FALSE)
      BY <2>1 DEF HashesGiveUp, HashesReturn
    <3>2. main' = main /\ bpc' = bpc
      BY <2>1 DEF HashesGiveUp, mainVars, blocksVars
    <3> QED
      BY <3>1, <3>2, <1>ReturnBalanced, Zenon
  <2>2. CASE TellFinished
    <3>1. hpc # "off" /\ hpc' = "off" /\ errc' = Append(errc, TRUE)
      BY <2>2 DEF TellFinished, HashesReturn
    <3>2. main' = main /\ bpc' = bpc
      BY <2>2 DEF TellFinished, mainVars, blocksVars
    <3> QED
      BY <3>1, <3>2, <1>ReturnBalanced, Zenon
  <2>3. CASE HashesPack
    <3>1. hpc # "off"
      BY <2>3 DEF HashesPack
    <3>2. CASE StrangePack
      <4>1. UNCHANGED control
        BY <3>2 DEF StrangePack, control, mainVars, hashesVars, blocksVars
      <4> QED
        BY <4>1, <1>StillBalanced
    <3>3. CASE hpc' = "tell" /\ UNCHANGED <<mainVars, errc, blocksVars>>
      <4>1. hpc' # "off" /\ errc' = errc /\ main' = main /\ bpc' = bpc
        BY <3>3 DEF mainVars, blocksVars
      <4> QED
        BY <3>1, <4>1, <1>GoingOnBalanced
    <3>4. ASSUME NEW hashes, InsertHashes(hashes) PROVE Balanced'
      <4>1. main' = main /\ bpc' = bpc
        BY <3>4 DEF InsertHashes, mainVars, blocksVars
      <4>2. UNCHANGED <<hpc, errc>> \/ HashesReturn(FALSE)
        BY <3>4, Zenon DEF InsertHashes
      <4>3. CASE UNCHANGED <<hpc, errc>>
        BY <4>1, <4>3, <1>GoingOnBalanced
      <4>4. CASE HashesReturn(FALSE)
        BY <3>1, <4>1, <4>4, <1>ReturnBalanced, Zenon DEF HashesReturn
      <4> QED
        BY <4>2, <4>3, <4>4, Zenon
    <3> QED
      BY <2>3, <3>2, <3>3, <3>4 DEF HashesPack
  <2> QED
    BY <2>1, <2>2, <2>3 DEF FetchHashes
\* Every step of fetchBlocks keeps the balance: it leaves one result as it returns.
<1>FetchBlocksBalanced. Balanced /\ FetchBlocks => Balanced'
  <2> SUFFICES ASSUME Balanced, FetchBlocks PROVE Balanced'
    OBVIOUS
  <2>1. ASSUME UNCHANGED <<main, hpc>>, bpc # "off", NEW ok \in BOOLEAN, BlocksReturn(ok)
        PROVE  Balanced'
    BY <2>1, <1>ReturnBalanced DEF BlocksReturn
  <2>2. CASE Prepare
    <3>1. bpc # "off" /\ bpc' # "off" /\ errc' = errc /\ main' = main /\ hpc' = hpc
      BY <2>2 DEF Prepare, mainVars, hashesVars
    <3> QED
      BY <3>1, <1>GoingOnBalanced
  <2>3. CASE BlocksCancelled
    <3>1. UNCHANGED <<main, hpc>> /\ bpc # "off" /\ BlocksReturn(FALSE)
      BY <2>3, Zenon DEF BlocksCancelled, mainVars, hashesVars
    <3> QED
      BY <2>1, <3>1, Zenon
  <2>4. CASE BlocksPack
    <3>1. UNCHANGED control
      BY <2>4 DEF BlocksPack, control, mainVars, hashesVars, blocksVars
    <3> QED
      BY <3>1, <1>StillBalanced
  <2>5. CASE News
    <3>1. UNCHANGED control
      BY <2>5, Zenon DEF News, control, mainVars, hashesVars
    <3> QED
      BY <3>1, <1>StillBalanced
  <2>6. ASSUME NEW expired, Update(expired) PROVE Balanced'
    <3>1. UNCHANGED <<main, hpc>> /\ bpc # "off"
      BY <2>6 DEF Update, mainVars, hashesVars
    <3>2. BlocksReturn(FALSE) \/ BlocksReturn(TRUE) \/ (bpc' = "visit" /\ UNCHANGED errc)
      BY <2>6, Zenon DEF Update
    <3>3. CASE bpc' = "visit" /\ UNCHANGED errc
      BY <3>1, <3>3, <1>GoingOnBalanced
    <3> QED
      BY <2>1, <3>1, <3>2, <3>3, Zenon
  <2>7. ASSUME NEW p \in Peer, Reserve(p) PROVE Balanced'
    <3>1. UNCHANGED control
      BY <2>7 DEF Reserve, control, mainVars, hashesVars
    <3> QED
      BY <3>1, <1>StillBalanced
  <2>8. CASE SendRequest
    <3>1. UNCHANGED control
      BY <2>8 DEF SendRequest, control, mainVars, hashesVars
    <3> QED
      BY <3>1, <1>StillBalanced
  <2>9. CASE CancelRequest
    <3>1. UNCHANGED control
      BY <2>9 DEF CancelRequest, control, mainVars, hashesVars
    <3> QED
      BY <3>1, <1>StillBalanced
  <2>10. CASE Visited
    <3>1. UNCHANGED <<main, hpc>> /\ bpc # "off"
      BY <2>10 DEF Visited, mainVars, hashesVars
    <3>2. BlocksReturn(FALSE) \/ (bpc' = "select" /\ UNCHANGED errc)
      BY <2>10, Zenon DEF Visited
    <3>3. CASE bpc' = "select" /\ UNCHANGED errc
      BY <3>1, <3>3, <1>GoingOnBalanced
    <3> QED
      BY <2>1, <3>1, <3>2, <3>3, Zenon
  <2> QED
    BY <2>2, <2>3, <2>4, <2>5, <2>6, <2>7, <2>8, <2>9, <2>10 DEF FetchBlocks, VisitPeers
\* What processQueue, the handlers and the environment do leaves synchronise
\* and the fetchers where they are.
<1>OthersBalanced. ASSUME Balanced,
                          \/ ProcessQueue
                          \/ \E p \in Peer : Handle(p) \/ Deposit(p)
                          \/ Environment
                   PROVE  Balanced'
  <2> USE <1>OthersBalanced
  <2>1. ASSUME NEW p \in Peer, Handle(p) \/ Deposit(p) PROVE UNCHANGED control
    BY <2>1 DEF Handle, Deposit, control, mainVars, hashesVars, blocksVars
  <2>2. CASE ProcessQueue
    BY <2>2, <1>StillBalanced DEF ProcessQueue, TakeBlocks, InsertChain, control, mainVars,
                               hashesVars, blocksVars
  <2>3. CASE InsertFails
    BY <2>3, <1>StillBalanced DEF InsertFails, control, hashesVars, blocksVars
  <2>4. ASSUME NEW p \in Peer, LoseAnswer(p) \/ Disconnect(p) \/ Connect(p)
        PROVE  UNCHANGED control
    BY <2>4 DEF LoseAnswer, Disconnect, Connect, control, mainVars, hashesVars, blocksVars
  <2> QED
    BY <2>1, <2>2, <2>3, <2>4, <1>StillBalanced DEF Environment
<1> SUFFICES ASSUME Balanced, [Next]_vars PROVE Balanced'
  OBVIOUS
<1>1. ASSUME NEW p \in Peer, Synchronise(p) PROVE Balanced'
  <2>1. main = "idle" /\ main' \in {"ancestor", "idle"}
    BY <1>1 DEF Synchronise
  <2>2. errc' = errc /\ hpc' = hpc /\ bpc' = bpc
    BY <1>1 DEF Synchronise, hashesVars, blocksVars
  <2> QED
    BY <2>1, <2>2 DEF Balanced, Owed, Expected, Stages
<1>2. CASE UNCHANGED vars
  BY <1>2, <1>StillBalanced DEF vars, control, mainVars, hashesVars, blocksVars
<1> QED
  BY <1>1, <1>2, <1>MainBalanced, <1>FetchHashesBalanced, <1>FetchBlocksBalanced, <1>OthersBalanced
     DEF Next

\* When synchronise has returned, both fetchers have ended and their results
\* were read, whatever was lost, late, refused or cancelled before.
THEOREM FetchersEndedAlways == Spec => []FetchersEnded
<1>1. Balanced => FetchersEnded
  <2> SUFFICES ASSUME Balanced, main = "idle"
               PROVE  hpc = "off" /\ bpc = "off" /\ errc = <<>>
    BY DEF FetchersEnded
  <2> QED
    BY NothingOwed DEF Expected
<1> QED
  BY InitBalanced, NextBalanced, <1>1, PTL DEF Spec

-----------------------------------------------------------------------------
(* The peers' chain and ours.                                              *)

\* A set of natural numbers that is not empty and has a bound has a greatest
\* element.
LEMMA GreatestHeight ==
    ASSUME NEW T \in SUBSET Nat, T # {}, NEW b \in Nat, \A n \in T : n <= b
    PROVE  \E m \in T : \A n \in T : n <= m
<1> DEFINE R == {p \in Nat \X Nat : p[1] < p[2]}
           D == {d \in Nat : \E n \in T : d = b - n}
<1>1. IsWellFoundedOn(R, Nat)
  BY NatLessThanWellFounded DEF OpToRel
<1>2. \A n \in T : n \in Nat /\ b - n \in D
  OBVIOUS
<1>3. D \in SUBSET Nat /\ D # {}
  BY <1>2, Zenon
<1>4. PICK d \in D : \A e \in D : ~(<<e, d>> \in R)
  <2> HIDE DEF D, R
  <2> QED
    BY <1>1, <1>3, WFMin, Zenon
<1>5. PICK m \in T : d = b - m
  BY <1>4
<1>6. ASSUME NEW n \in T PROVE n <= m
  <2>1. <<b - n, d>> \in Nat \X Nat /\ ~(<<b - n, d>> \in R)
    BY <1>2, <1>4
  <2>2. ~(b - n < d)
    BY <2>1
  <2> QED
    BY <1>2, <1>5, <2>2
<1> QED
  BY <1>6

\* The peers' chain is as high as the highest peer's.
LEMMA TheirHeightMax ==
    /\ TheirHeight \in Nat
    /\ \A p \in Peer : PeerHeight[p] \in Nat /\ PeerHeight[p] <= TheirHeight
\* Peers are finitely many, so their heights have a bound.
<1>HeightsBounded. \E b \in Nat : \A p \in Peer : PeerHeight[p] <= b
  <2>1. IsFiniteSet(Peer) /\ PeerHeight \in [Peer -> Nat]
    BY SessionAssumption
  <2>2. PICK f \in Seq(Peer) : \A p \in Peer : \E i \in 1 .. Len(f) : f[i] = p
    BY <2>1 DEF IsFiniteSet
  <2> DEFINE n == Len(f)
  <2>3. n \in Nat /\ \A i \in 1 .. n : PeerHeight[f[i]] \in Nat
    BY <2>1, <2>2
  <2>4. \A p \in Peer : \E i \in 1 .. n : f[i] = p
    BY <2>2
  <2> HIDE DEF n
  <2> DEFINE Below(m, b) == \A i \in 1 .. n : i <= m => PeerHeight[f[i]] <= b
             S == {m \in 0 .. n : \E b \in Nat : Below(m, b)}
  <2>5. 0 \in S
    BY <2>3
  <2>6. PICK m \in S : \A k \in S : k <= m
    <3>1. S \in SUBSET Nat /\ \A k \in S : k <= n
      BY <2>3
    <3> HIDE DEF S
    <3> QED
      BY <2>3, <2>5, <3>1, GreatestHeight, Zenon
  <2>7. PICK b \in Nat : Below(m, b)
    BY <2>6
  <2>8. m = n
    <3> SUFFICES ASSUME m < n PROVE FALSE
      BY <2>3, <2>6
    <3>1. m \in Nat /\ m + 1 \in 1 .. n /\ PeerHeight[f[m + 1]] \in Nat
      BY <2>3, <2>6
    <3> DEFINE h == PeerHeight[f[m + 1]]
    <3>2. Below(m + 1, b + h)
      <4>1. \A i \in 1 .. n : i <= m + 1 => i <= m \/ i = m + 1
        BY <3>1
      <4> QED
        BY <2>3, <2>7, <3>1, <4>1
    <3>3. b + h \in Nat /\ m + 1 \in 0 .. n
      BY <3>1
    <3>4. m + 1 \in S
      <4> HIDE DEF Below, h
      <4> QED
        BY <3>2, <3>3
    <3>5. m + 1 <= m
      BY <2>6, <3>4, Zenon
    <3> QED
      BY <3>1, <3>5
  <2>9. \A i \in 1 .. n : PeerHeight[f[i]] <= b
    BY <2>7, <2>8
  <2> QED
    BY <2>4, <2>9, Zenon
<1> DEFINE T == {PeerHeight[p] : p \in Peer}
<1>1. T \in SUBSET Nat /\ T # {} /\ \A p \in Peer : PeerHeight[p] \in Nat
  BY SessionAssumption
<1>2. PICK b \in Nat : \A p \in Peer : PeerHeight[p] <= b
  BY <1>HeightsBounded
<1>3. \A n \in T : n <= b
  BY <1>2
<1>4. \E k \in T : \A n \in T : n <= k
  <2> HIDE DEF T
  <2> QED
    BY <1>1, <1>3, GreatestHeight, Zenon
<1>5. \E k \in T : \A p \in Peer : PeerHeight[p] <= k
  BY <1>4
<1>6. TheirHeight \in T /\ \A p \in Peer : PeerHeight[p] <= TheirHeight
  BY <1>5 DEF TheirHeight
<1> QED
  BY <1>1, <1>6

\* What a block of the peers' chain is
LEMMA TheirBlockFacts ==
    ASSUME NEW k \in Nat
    PROVE  /\ Height(TheirBlock(k)) = k
           /\ TheirBlock(k)[1] # "ours"
           /\ Parent(TheirBlock(k)) = TheirBlock(k - 1)
           /\ k <= Fork => OurBlock(k) = TheirBlock(k)
BY DEF Height, TheirBlock, OurBlock, Parent

\* A block of their chain is connected when it and all below it were inserted.
LEMMA TheirsKnown ==
    ASSUME NEW k \in Nat
    PROVE  TheirBlock(k) \in Known <=> \A j \in 0 .. k : TheirBlock(j) \in held
<1>1. Height(TheirBlock(k)) = k /\ TheirBlock(k)[1] # "ours"
  BY TheirBlockFacts
<1>2. TheirBlock(k) \in Known <=>
         TheirBlock(k) \in held /\ \A j \in 0 .. k : TheirBlock(j) \in held
  BY <1>1 DEF Known
<1> QED
  BY <1>2

\* What the chain begins with
Genuine == held \subseteq Block /\ {OurBlock(k) : k \in 0 .. OurHeight} \subseteq held

\* The head is a connected block.
LEMMA HeadFacts ==
    ASSUME Genuine
    PROVE  /\ HeadHeight \in Nat
           /\ \E b \in Known : Height(b) = HeadHeight
           /\ \A b \in Known : Height(b) <= HeadHeight
<1> DEFINE T == {Height(b) : b \in Known}
<1>1. TheirHeight \in Nat /\ OurHeight \in Nat /\ Fork \in Nat
  BY TheirHeightMax, SessionAssumption
<1>2. \A b \in Block : Height(b) \in Nat /\ Height(b) <= TheirHeight + OurHeight
  BY <1>1 DEF Block, Height, TheirBlock, OurBlock
<1>3. OurBlock(0) \in Known
  <2>1. OurBlock(0) = TheirBlock(0) /\ OurBlock(0) \in held
    BY <1>1, TheirBlockFacts DEF Genuine
  <2>2. \A j \in 0 .. 0 : TheirBlock(j) \in held
    BY <2>1
  <2> QED
    BY <2>1, <2>2, TheirsKnown
<1>4. T \in SUBSET Nat /\ T # {} /\ \A n \in T : n <= TheirHeight + OurHeight
  BY <1>2, <1>3 DEF Genuine, Known
<1>5. \E k \in T : \A n \in T : n <= k
  <2> HIDE DEF T
  <2>1. TheirHeight + OurHeight \in Nat
    BY <1>1
  <2> QED
    BY <1>4, <2>1, GreatestHeight, Zenon
<1>6. \E k \in T : \A b \in Known : Height(b) <= k
  BY <1>5
<1>7. HeadHeight \in T /\ \A b \in Known : Height(b) <= HeadHeight
  BY <1>6 DEF HeadHeight
<1> QED
  BY <1>4, <1>7

-----------------------------------------------------------------------------
(* The types: what controls the goroutines.                                *)

\* The blocks of the peers' chain
Theirs == {TheirBlock(k) : k \in 0 .. TheirHeight}

\* Hashes of consecutive blocks of that chain, as many as a peer sends at most
Runs == {h \in Seq(Theirs) :
           /\ Len(h) <= MaxHashesFetch
           /\ \E k \in Nat : \A i \in DOMAIN h : h[i] = TheirBlock(k + i - 1)}

\* The packs peers send
HashPacks  == [kind : {"hashes"}, peer : Peer, hashes : Runs]
BlockPacks == [kind : {"blocks"}, peer : Peer, blocks : SUBSET Theirs]

\* A block in the cache or in a batch, with the peer that sent it
Items == [block : Theirs, origin : Peer]

\* The types of what controls the goroutines
ControlType ==
    /\ peers \subseteq Peer /\ main \in Stages
    /\ with \in Peer \cup {NoPeer} /\ (main # "idle" => with \in Peer)
    /\ sessions \in 0 .. MaxSessions /\ faults \in 0 .. MaxFaults
    /\ top \in Nat /\ left \in Nat /\ right \in Nat /\ number \in Nat /\ from \in Nat
    /\ closed \in BOOLEAN /\ finished \in BOOLEAN
    /\ hpc \in {"off", "wait", "tell"} /\ bpc \in {"off", "prepare", "select", "visit"}
    /\ visiting \subseteq Peer
    /\ procs \in 0 .. MaxProcs

\* Of the queue and of what it is filled with and emptied to: only blocks of
\* the peers' chain get there.
QueueType ==
    /\ Genuine
    /\ unsent \in [peer : Peer, hashes : SUBSET Theirs] \cup {NoRequest}
    /\ hashPool \subseteq Theirs /\ waiting \subseteq Theirs /\ offset \in Nat
    /\ pending \in [Peer -> SUBSET Theirs] /\ ignored \in [Peer -> SUBSET Theirs]
    /\ cache \subseteq Items
    /\ batch \in Seq(Items)

\* And of what is on its way between goroutines and peers
NetType ==
    /\ wire \in [Peer -> Seq(HashPacks \cup BlockPacks)]
    /\ handler \in [Peer -> HashPacks \cup BlockPacks \cup {NoPack}]
    /\ hashPackCh \in Seq(HashPacks) /\ Len(hashPackCh) <= 1
    /\ blockPackCh \in Seq(BlockPacks) /\ Len(blockPackCh) <= 1
    /\ processCh \in Seq(BOOLEAN) /\ Len(processCh) <= 1

\* The inductive invariant behind TypeOK
TypeInv == ControlType /\ QueueType /\ NetType

\* What a peer answers to a request for hashes
LEMMA HashesFromFacts ==
    ASSUME NEW p \in Peer, NEW k \in Nat, NEW n \in 1 .. MaxHashesFetch
    PROVE  LET h == HashesFrom(p, k, n) IN
           /\ h \in Runs
           /\ Len(h) \in Nat /\ DOMAIN h = 1 .. Len(h) /\ Len(h) <= n
           /\ \A i \in DOMAIN h : h[i] = TheirBlock(k + i - 1)
           /\ Len(h) < n => k + Len(h) > PeerHeight[p]
<1> DEFINE h == HashesFrom(p, k, n)
           last == IF k + n - 1 <= PeerHeight[p] THEN k + n - 1 ELSE PeerHeight[p]
           m == IF last - k + 1 >= 0 THEN last - k + 1 ELSE 0
<1>1. PeerHeight[p] \in Nat /\ PeerHeight[p] <= TheirHeight /\ TheirHeight \in Nat
      /\ MaxHashesFetch \in Nat
  BY TheirHeightMax, SessionAssumption
<1>2. last \in Int /\ m \in Nat /\ m <= n /\ k + n - 1 \in Int
  BY <1>1
<1>3. 1 .. last - k + 1 = 1 .. m
  BY <1>2
<1>4. h = [i \in 1 .. m |-> TheirBlock(k + i - 1)]
  BY <1>3 DEF HashesFrom
<1>5. ASSUME NEW i \in 1 .. m PROVE TheirBlock(k + i - 1) \in Theirs
  <2>1. k + i - 1 \in 0 .. TheirHeight
    BY <1>1, <1>2
  <2> QED
    BY <2>1 DEF Theirs
<1>6. h \in Seq(Theirs) /\ Len(h) = m /\ DOMAIN h = 1 .. m
  <2> HIDE DEF h, m
  <2>1. h \in [1 .. m -> Theirs]
    BY <1>4, <1>5
  <2> QED
    BY <1>2, <2>1
<1>7. \A i \in DOMAIN h : h[i] = TheirBlock(k + i - 1)
  <2> HIDE DEF h, m
  <2> QED
    BY <1>4, <1>6
<1>8. m < n => k + m > PeerHeight[p]
  BY <1>1
<1>9. m <= MaxHashesFetch
  BY <1>1, <1>2
<1> HIDE DEF h, m
<1>10. h \in Runs
  BY <1>6, <1>7, <1>9 DEF Runs
<1>11. /\ Len(h) \in Nat /\ DOMAIN h = 1 .. Len(h) /\ Len(h) <= n
       /\ Len(h) < n => k + Len(h) > PeerHeight[p]
  BY <1>2, <1>6, <1>8
<1> QED
  BY <1>7, <1>10, <1>11 DEF h

\* The next pack for findAncestor or fetchHashes
LEMMA HeadPack ==
    ASSUME NetType, hashPackCh # <<>>
    PROVE  /\ Head(hashPackCh) \in HashPacks
           /\ Head(hashPackCh).peer \in Peer /\ Head(hashPackCh).hashes \in Runs
           /\ Head(hashPackCh).hashes \in Seq(Theirs)
           /\ Len(Head(hashPackCh).hashes) \in Nat
           /\ DOMAIN Head(hashPackCh).hashes = 1 .. Len(Head(hashPackCh).hashes)
           /\ Len(Head(hashPackCh).hashes) <= MaxHashesFetch
           /\ Tail(hashPackCh) \in Seq(HashPacks) /\ Len(Tail(hashPackCh)) <= 1
<1>1. Head(hashPackCh) \in HashPacks /\ Tail(hashPackCh) \in Seq(HashPacks)
      /\ Len(Tail(hashPackCh)) = Len(hashPackCh) - 1 /\ Len(hashPackCh) \in Nat
  BY DEF NetType
<1>2. Head(hashPackCh).peer \in Peer /\ Head(hashPackCh).hashes \in Runs
  BY <1>1 DEF HashPacks
<1>3. Head(hashPackCh).hashes \in Seq(Theirs) /\ Len(Head(hashPackCh).hashes) <= MaxHashesFetch
  BY <1>2 DEF Runs
<1>4. Len(Head(hashPackCh).hashes) \in Nat
      /\ DOMAIN Head(hashPackCh).hashes = 1 .. Len(Head(hashPackCh).hashes)
  BY <1>3
<1> QED
  BY <1>1, <1>2, <1>3, <1>4 DEF NetType

\* The first number findAncestor asks for is a block number.
LEMMA FirstAskedType == ASSUME NEW h \in Nat PROVE FirstAsked(h) \in Nat
BY SessionAssumption DEF FirstAsked

\* Every step keeps the control well-typed.
LEMMA ControlStep == ASSUME TypeInv, [Next]_vars PROVE ControlType'
\* The elements of a sequence that is not empty
<1>HeadTail. ASSUME NEW S, NEW s \in Seq(S), s # <<>>
             PROVE  Head(s) \in S /\ Tail(s) \in Seq(S)
  BY <1>HeadTail
\* findAncestor returning an error keeps the control well-typed.
<1>ControlFails. ASSUME ControlType, AncestorFails, UNCHANGED <<peers, faults, procs>>
                      PROVE  ControlType'
  BY <1>ControlFails DEF ControlType, AncestorFails, Stages, Cancel, hashesVars, blocksVars
\* So does starting the fetchers from a block number.
<1>ControlStart. ASSUME ControlType, main # "idle", NEW n \in Nat, StartFetchers(n), UNCHANGED <<peers, faults, procs>>
                 PROVE  ControlType'
  <2> USE <1>ControlStart
  <2>1. /\ main' = "fetch" /\ number' = n /\ hpc' = "wait" /\ from' = n + 1 /\ bpc' = "prepare"
        /\ finished' = FALSE /\ visiting' = {} /\ UNCHANGED <<sessions, with, top, left, right, closed>>
    BY DEF StartFetchers
  <2>2. number' \in Nat /\ from' \in Nat /\ with' \in Peer
    BY <2>1 DEF ControlType
  <2> QED
    BY <2>1, <2>2, Zenon DEF ControlType, Stages
\* So does going on with the binary search.
<1>ControlSearch. ASSUME ControlType, main # "idle", NEW l \in Nat, NEW r \in Nat, Search(l, r), UNCHANGED <<peers, faults, procs>>
                  PROVE  ControlType'
  <2> USE <1>ControlSearch
  <2>1. CASE StartFetchers(l)
    BY <2>1, <1>ControlStart
  <2>2. CASE ~StartFetchers(l)
    BY <2>2 DEF ControlType, Search, Stages, hashesVars, blocksVars
  <2> QED
    BY <2>1, <2>2
\* Every step of synchronise and findAncestor keeps the control well-typed.
<1>ControlMain. ASSUME TypeInv, Main PROVE ControlType'
  <2> USE <1>ControlMain
  <2>0. ControlType /\ NetType
    BY DEF TypeInv
  <2>1. ASSUME StrangePack, UNCHANGED <<peers, faults, procs>> PROVE ControlType'
    BY <2>0, <2>1 DEF ControlType, StrangePack, mainVars, hashesVars, blocksVars
  <2>2. CASE AncestorPack
    <3> DEFINE hashes == Head(hashPackCh).hashes
               matches == {i \in DOMAIN hashes : hashes[i] \in Known}
    <3>1. main = "ancestor" /\ hashPackCh # <<>> /\ UNCHANGED <<peers, faults, procs>>
      BY <2>2, Zenon DEF AncestorPack, chainVars, processVars
    <3>2. \/ StrangePack \/ AncestorFails \/ Search(0, top)
          \/ \E i \in matches : StartFetchers(HeightAt(i))
      BY <2>2, Zenon DEF AncestorPack
    <3>3. ASSUME NEW i \in matches, StartFetchers(HeightAt(i)) PROVE ControlType'
      <4>1. i \in Nat \ {0}
        <5>1. i \in DOMAIN hashes /\ DOMAIN hashes = 1 .. Len(hashes) /\ Len(hashes) \in Nat
          BY <2>0, <3>1, HeadPack, Zenon
        <5> HIDE DEF hashes, matches
        <5> QED
          BY ONLY <5>1
      <4>2. FirstAsked(top) \in Nat
        BY <2>0, FirstAskedType DEF ControlType
      <4>3. HeightAt(i) \in Nat
        BY <4>1, <4>2 DEF HeightAt
      <4> QED
        BY <2>0, <3>1, <3>3, <4>3, <1>ControlStart
    <3>4. CASE Search(0, top)
      BY <2>0, <3>1, <3>4, <1>ControlSearch DEF ControlType
    <3> QED
      BY <2>0, <2>1, <3>1, <3>2, <3>3, <3>4, <1>ControlFails
  <2>3. CASE SearchPack
    <3> DEFINE half == Half(Head(hashPackCh).hashes[1] \in Known)
    <3>1. main = "search" /\ UNCHANGED <<peers, faults, procs>>
      BY <2>3, Zenon DEF SearchPack, chainVars, processVars
    <3>2. half[1] \in Nat /\ half[2] \in Nat
      BY <2>0 DEF Half, ControlType
    <3>3. StrangePack \/ AncestorFails \/ Search(half[1], half[2])
      BY <2>3 DEF SearchPack
    <3> HIDE DEF half
    <3> QED
      BY <2>0, <2>1, <3>1, <3>2, <3>3, <1>ControlFails, <1>ControlSearch
  <2>4. CASE AncestorGivesUp
    <3>1. faults' \in 0 .. MaxFaults
      BY <2>0, <2>4, SessionAssumption DEF AncestorGivesUp, TimedOut, Fault, ControlType
    <3> QED
      BY <2>0, <2>4, <3>1 DEF AncestorGivesUp, ControlType, AncestorFails, Stages, Cancel,
                              hashesVars, blocksVars, processVars
  <2>5. CASE FirstResult
    BY <2>0, <2>5, Zenon DEF FirstResult, ControlType, AfterError, CancelOther, Cancel, Stages,
                      chainVars, hashesVars, blocksVars, processVars
  <2>6. CASE LastResult
    BY <2>0, <2>6, Zenon DEF LastResult, ControlType, Cancel, Stages,
                      chainVars, hashesVars, blocksVars, processVars
  <2> QED
    BY <2>2, <2>3, <2>4, <2>5, <2>6 DEF Main
\* Every step of fetchHashes keeps the control well-typed.
<1>ControlHashes. ASSUME TypeInv, FetchHashes PROVE ControlType'
  <2> USE <1>ControlHashes
  <2>0. ControlType /\ NetType
    BY DEF TypeInv
  <2>1. CASE HashesGiveUp
    <3>1. faults' \in 0 .. MaxFaults
      BY <2>0, <2>1, SessionAssumption DEF HashesGiveUp, TimedOut, Fault, ControlType
    <3> QED
      BY <2>0, <2>1, <3>1 DEF HashesGiveUp, HashesReturn, ControlType, mainVars, blocksVars, processVars
  <2>2. CASE TellFinished
    BY <2>0, <2>2 DEF TellFinished, HashesReturn, ControlType, chainVars, mainVars, blocksVars, processVars
  <2>3. CASE HashesPack
    <3>1. hashPackCh # <<>> /\ UNCHANGED <<peers, faults, procs>>
      BY <2>3 DEF HashesPack, chainVars, processVars
    <3>2. CASE StrangePack
      BY <2>0, <3>1, <3>2 DEF ControlType, StrangePack, mainVars, hashesVars, blocksVars
    <3>3. CASE hpc' = "tell" /\ UNCHANGED <<mainVars, from, blocksVars>>
      BY <2>0, <3>1, <3>3 DEF ControlType, mainVars, blocksVars
    <3>4. CASE InsertHashes(Head(hashPackCh).hashes)
      <4>1. Len(Head(hashPackCh).hashes) \in Nat
        BY <2>0, <3>1, HeadPack
      <4> DEFINE n == Len(Head(hashPackCh).hashes)
      <4>4. \/ from' = from + n /\ UNCHANGED hpc
            \/ hpc' = "off" /\ UNCHANGED from
        BY <3>4, Zenon DEF InsertHashes, HashesReturn
      <4>2. from' \in Nat /\ hpc' \in {"off", "wait", "tell"}
        <5> HIDE DEF n
        <5>1. n \in Nat /\ from \in Nat /\ hpc \in {"off", "wait", "tell"}
          BY <2>0, <4>1 DEF ControlType, n
        <5> QED
          BY <5>1, <4>4
      <4>3. UNCHANGED <<mainVars, blocksVars>>
        BY <3>4, Zenon DEF InsertHashes
      <4> QED
        BY <2>0, <3>1, <4>2, <4>3 DEF ControlType, mainVars, blocksVars
    <3> QED
      BY <2>3, <3>2, <3>3, <3>4, Zenon DEF HashesPack
  <2> QED
    BY <2>1, <2>2, <2>3 DEF FetchHashes
\* Every step of fetchBlocks keeps the control well-typed.
<1>ControlBlocks. ASSUME TypeInv, FetchBlocks PROVE ControlType'
  <2> USE <1>ControlBlocks
  <2>0. ControlType /\ NetType
    BY DEF TypeInv
  <2>1. CASE Prepare
    BY <2>0, <2>1 DEF Prepare, ControlType, chainVars, mainVars, hashesVars, processVars
  <2>2. CASE BlocksCancelled
    BY <2>0, <2>2 DEF BlocksCancelled, BlocksReturn, ControlType, chainVars, mainVars, hashesVars, processVars
  <2>3. CASE BlocksPack
    <3>1. procs' \in 0 .. MaxProcs
      BY <2>0, <2>3, SessionAssumption DEF BlocksPack, ControlType
    <3> QED
      BY <2>0, <2>3, <3>1 DEF BlocksPack, ControlType, chainVars, mainVars, hashesVars, blocksVars
  <2>4. CASE News
    <3>1. processCh \in Seq(BOOLEAN) /\ processCh # <<>>
      BY <2>0, <2>4, Zenon DEF News, NetType
    <3>0. Head(processCh) \in BOOLEAN
      BY <3>1, <1>HeadTail
    <3>2. finished' \in BOOLEAN
      BY <2>0, <2>4, <3>0, Zenon DEF News, ControlType
    <3> QED
      BY <2>0, <2>4, <3>2, Zenon DEF News, ControlType, chainVars, mainVars, hashesVars, processVars
  <2>5. ASSUME NEW expired \in SUBSET {p \in Peer : pending[p] # {}}, Update(expired) PROVE ControlType'
    <3>1. faults' \in 0 .. MaxFaults
      <4>1. UNCHANGED faults \/ TimedOut(expired, "blocks")
        BY <2>5, Zenon DEF Update
      <4> QED
        BY <2>0, <4>1, SessionAssumption DEF TimedOut, Fault, ControlType
    <3>2. bpc' \in {"off", "visit"} /\ visiting' \subseteq Peer
      BY <2>0, <2>5, Zenon DEF Update, BlocksReturn, ControlType
    <3> QED
      BY <2>0, <2>5, <3>1, <3>2 DEF Update, ControlType, mainVars, hashesVars, processVars
  <2>6. ASSUME NEW p \in Peer, Reserve(p) PROVE ControlType'
    BY <2>0, <2>6 DEF Reserve, ControlType, chainVars, mainVars, hashesVars, processVars
  <2>7. CASE SendRequest
    BY <2>0, <2>7, Zenon DEF SendRequest, ControlType, chainVars, mainVars, hashesVars, processVars
  <2>8. CASE CancelRequest
    <3>1. faults' \in 0 .. MaxFaults
      <4>1. UNCHANGED faults \/ Fault("send")
        BY <2>8, Zenon DEF CancelRequest
      <4>2. faults \in 0 .. MaxFaults
        BY <2>0 DEF ControlType
      <4> QED
        BY <4>1, <4>2, SessionAssumption DEF Fault
    <3> QED
      BY <2>0, <2>8, <3>1, Zenon DEF CancelRequest, ControlType, mainVars, hashesVars, processVars
  <2>9. CASE Visited
    BY <2>0, <2>9, Zenon DEF Visited, BlocksReturn, ControlType, chainVars, mainVars, hashesVars, processVars
  <2> QED
    BY <2>1, <2>2, <2>3, <2>4, <2>5, <2>6, <2>7, <2>8, <2>9 DEF FetchBlocks, VisitPeers
\* So do the inserting goroutine, the peers' handlers and the faults.
<1>ControlOthers. ASSUME TypeInv,
                         \/ ProcessQueue
                         \/ \E p \in Peer : Handle(p) \/ Deposit(p)
                         \/ Environment
                  PROVE  ControlType'
  <2> USE <1>ControlOthers
  <2>0. ControlType /\ NetType
    BY DEF TypeInv
  <2>1. CASE TakeBlocks
    <3>1. procs' \in 0 .. MaxProcs
      BY <2>0, <2>1, SessionAssumption DEF TakeBlocks, ControlType
    <3> QED
      BY <2>0, <2>1, <3>1 DEF TakeBlocks, ControlType, chainVars, mainVars, hashesVars, blocksVars
  <2>2. CASE InsertChain
    BY <2>0, <2>2 DEF InsertChain, ControlType, mainVars, hashesVars, blocksVars
  <2>3. CASE InsertFails
    <3>1. faults' \in 0 .. MaxFaults
      BY <2>0, <2>3, SessionAssumption DEF InsertFails, Fault, ControlType
    <3> QED
      BY <2>0, <2>3, <3>1 DEF InsertFails, ControlType, Cancel, hashesVars, blocksVars
  <2>4. ASSUME NEW p \in Peer, Handle(p) \/ Deposit(p) PROVE ControlType'
    BY <2>0, <2>4, Zenon DEF Handle, Deposit, ControlType, chainVars, mainVars, hashesVars, blocksVars, processVars
  <2>5. ASSUME NEW p \in Peer, LoseAnswer(p) \/ Disconnect(p) \/ Connect(p) PROVE ControlType'
    <3>1. faults' \in 0 .. MaxFaults
      BY <2>0, <2>5, SessionAssumption DEF LoseAnswer, Disconnect, Connect, Fault, ControlType
    <3> QED
      BY <2>0, <2>5, <3>1 DEF LoseAnswer, Disconnect, Connect, ControlType, mainVars, hashesVars,
                              blocksVars, processVars
  <2> QED
    BY <2>1, <2>2, <2>3, <2>4, <2>5 DEF ProcessQueue, Environment
<1>0. ControlType /\ QueueType
  BY DEF TypeInv
<1>1. ASSUME NEW p \in Peer, Synchronise(p) PROVE ControlType'
  <2>1. HeadHeight \in Nat
    BY <1>0, HeadFacts DEF QueueType
  <2>2. sessions' \in 0 .. MaxSessions
    BY <1>0, <1>1, SessionAssumption DEF Synchronise, ControlType
  <2> QED
    BY <1>0, <1>1, <2>1, <2>2, Zenon DEF Synchronise, ControlType, Stages, chainVars, hashesVars, blocksVars, processVars
<1>2. CASE UNCHANGED vars
  BY <1>0, <1>2 DEF vars, ControlType, chainVars, mainVars, hashesVars, blocksVars, processVars
<1> QED
  BY <1>1, <1>2, <1>ControlMain, <1>ControlHashes, <1>ControlBlocks, <1>ControlOthers DEF Next

-----------------------------------------------------------------------------
(* The types: the queue.                                                   *)

\* Blocks of the peers' chain are blocks, and their heights name them.
LEMMA TheirsBlocks == Theirs \subseteq Block /\ \A b \in Theirs : Height(b) \in Nat /\ b = TheirBlock(Height(b))
<1>1. \A k \in 0 .. TheirHeight : Height(TheirBlock(k)) = k
  BY TheirHeightMax, TheirBlockFacts
<1> QED
  BY <1>1 DEF Theirs, Block

\* The next pack for fetchBlocks
LEMMA HeadBlocks ==
    ASSUME NetType, blockPackCh # <<>>
    PROVE  /\ Head(blockPackCh).peer \in Peer /\ Head(blockPackCh).blocks \subseteq Theirs
           /\ Tail(blockPackCh) \in Seq(BlockPacks) /\ Len(Tail(blockPackCh)) <= 1
<1>1. Head(blockPackCh) \in BlockPacks /\ Tail(blockPackCh) \in Seq(BlockPacks)
      /\ Len(Tail(blockPackCh)) = Len(blockPackCh) - 1 /\ Len(blockPackCh) \in Nat
  BY DEF NetType
<1>2. Head(blockPackCh).peer \in Peer /\ Head(blockPackCh).blocks \subseteq Theirs
  BY <1>1 DEF BlockPacks
<1> QED
  BY <1>1, <1>2 DEF NetType

\* Every step keeps the queue well-typed.
LEMMA QueueStep == ASSUME TypeInv, [Next]_vars PROVE QueueType'
\* The block of the next item of a batch
<1>HeadItem. ASSUME QueueType, batch # <<>>
             PROVE  /\ Head(batch) \in Items /\ Head(batch).block \in Theirs /\ Head(batch).origin \in Peer
                    /\ Tail(batch) \in Seq(Items)
  <2> USE <1>HeadItem
  <2>1. Head(batch) \in Items /\ Tail(batch) \in Seq(Items)
    BY DEF QueueType
  <2> QED
    BY <2>1 DEF Items
\* The queue of a step that resets it, or leaves it alone
<1>QueueReset. ASSUME QueueType, held' = held, batch' = batch, unsent' = unsent \/ unsent' = NoRequest,
                      ResetQueue \/ UNCHANGED <<hashPool, waiting, pending, cache, offset>>,
                      ignored' = ignored \/ ignored' = [q \in Peer |-> {}]
               PROVE  QueueType'
  <2> USE <1>QueueReset
  <2>2. Genuine'
    BY DEF QueueType, Genuine
  <2>3. unsent' \in [peer : Peer, hashes : SUBSET Theirs] \cup {NoRequest} /\ batch' \in Seq(Items)
    BY DEF QueueType
  <2>4. ignored' \in [Peer -> SUBSET Theirs]
    BY DEF QueueType
  <2>5. /\ hashPool' \subseteq Theirs /\ waiting' \subseteq Theirs /\ offset' \in Nat
        /\ pending' \in [Peer -> SUBSET Theirs] /\ cache' \subseteq Items
    <3>1. CASE ResetQueue
      BY <3>1 DEF ResetQueue
    <3>2. CASE UNCHANGED <<hashPool, waiting, pending, cache, offset>>
      BY <3>2 DEF QueueType
    <3> QED
      BY <3>1, <3>2
  <2> QED
    BY <2>2, <2>3, <2>4, <2>5 DEF QueueType, NoRequest
\* Every step of synchronise and findAncestor keeps the queue well-typed.
<1>QueueMain. ASSUME TypeInv, Main PROVE QueueType'
  <2> USE <1>QueueMain
  <2>0. QueueType
    BY DEF TypeInv
  <2>1. ASSUME held' = held, batch' = batch, AncestorFails PROVE QueueType'
    <3>1. held' = held /\ batch' = batch /\ unsent' = unsent /\ ResetQueue /\ ignored' = ignored
      BY <2>1 DEF AncestorFails, Cancel, blocksVars
    <3> QED
      BY <2>0, <3>1, <1>QueueReset
  <2>2. ASSUME held' = held, batch' = batch, StrangePack PROVE QueueType'
    <3>1. held' = held /\ batch' = batch /\ unsent' = unsent /\ UNCHANGED <<hashPool, waiting, pending, cache, offset>>
          /\ ignored' = ignored
      BY <2>2 DEF StrangePack, blocksVars, queueVars
    <3> QED
      BY <2>0, <3>1, <1>QueueReset
  <2>3. ASSUME NEW n, held' = held, batch' = batch, StartFetchers(n) PROVE QueueType'
    <3>1. held' = held /\ batch' = batch /\ unsent' = NoRequest
          /\ UNCHANGED <<hashPool, waiting, pending, cache, offset>> /\ ignored' = ignored
      BY <2>3 DEF StartFetchers, queueVars
    <3> QED
      BY <2>0, <3>1, <1>QueueReset
  <2>4. ASSUME NEW l, NEW r, held' = held, batch' = batch, Search(l, r) PROVE QueueType'
    <3>1. CASE StartFetchers(l)
      BY <2>3, <2>4, <3>1
    <3>2. CASE ~StartFetchers(l)
      <4>1. held' = held /\ batch' = batch /\ unsent' = unsent /\ UNCHANGED <<hashPool, waiting, pending, cache, offset>>
            /\ ignored' = ignored
        BY <2>4, <3>2 DEF Search, blocksVars, queueVars
      <4> QED
        BY <2>0, <4>1, <1>QueueReset
    <3> QED
      BY <3>1, <3>2
  <2>5. CASE AncestorPack
    <3>1. held' = held /\ batch' = batch
      BY <2>5 DEF AncestorPack, chainVars, processVars
    <3>2. StrangePack \/ AncestorFails \/ Search(0, top) \/ \E n : StartFetchers(n)
      BY <2>5 DEF AncestorPack
    <3> QED
      BY <2>1, <2>2, <2>3, <2>4, <3>1, <3>2
  <2>6. CASE SearchPack
    <3>1. held' = held /\ batch' = batch
      BY <2>6 DEF SearchPack, chainVars, processVars
    <3>2. StrangePack \/ AncestorFails \/ \E l, r : Search(l, r)
      BY <2>6 DEF SearchPack
    <3> QED
      BY <2>1, <2>2, <2>4, <3>1, <3>2
  <2>7. CASE AncestorGivesUp
    BY <2>1, <2>7 DEF AncestorGivesUp, processVars
  <2>8. CASE FirstResult \/ LastResult
    <3>1. /\ held' = held /\ batch' = batch /\ unsent' = unsent /\ ignored' = ignored
          /\ ResetQueue \/ UNCHANGED <<hashPool, waiting, pending, cache, offset>>
      BY <2>8, Zenon DEF FirstResult, LastResult, CancelOther, Cancel, chainVars, blocksVars, processVars, queueVars
    <3> QED
      BY <2>0, <3>1, <1>QueueReset
  <2> QED
    BY <2>5, <2>6, <2>7, <2>8 DEF Main
\* Every step of fetchHashes keeps the queue well-typed: the hashes it inserts
\* are of the peers' chain.
<1>QueueHashes. ASSUME TypeInv, FetchHashes PROVE QueueType'
  <2> USE <1>QueueHashes
  <2>0. QueueType /\ NetType
    BY DEF TypeInv
  <2>1. CASE HashesGiveUp \/ TellFinished
    <3>1. held' = held /\ batch' = batch /\ unsent' = unsent /\ UNCHANGED <<hashPool, waiting, pending, cache, offset>>
          /\ ignored' = ignored
      BY <2>1, Zenon DEF HashesGiveUp, TellFinished, chainVars, blocksVars, queueVars, processVars
    <3> QED
      BY <2>0, <3>1, <1>QueueReset
  <2>2. CASE HashesPack
    <3> DEFINE hashes == Head(hashPackCh).hashes
    <3>1. hashPackCh # <<>> /\ held' = held /\ batch' = batch
      BY <2>2, Zenon DEF HashesPack, chainVars, processVars
    <3>2. CASE UNCHANGED <<blocksVars, queueVars>>
      <4>1. held' = held /\ batch' = batch /\ unsent' = unsent /\ UNCHANGED <<hashPool, waiting, pending, cache, offset>>
            /\ ignored' = ignored
        BY <3>1, <3>2 DEF blocksVars, queueVars
      <4> QED
        BY <2>0, <4>1, <1>QueueReset
    <3>3. CASE InsertHashes(hashes)
      <4>1. Range(hashes) \subseteq Theirs
        <5>1. hashes \in Seq(Theirs)
          BY <2>0, <3>1, HeadPack
        <5> HIDE DEF hashes
        <5> QED
          BY <5>1 DEF Range
      <4>2. hashPool' \subseteq Theirs /\ waiting' \subseteq Theirs
        BY <2>0, <3>3, <4>1, Zenon DEF InsertHashes, QueueType
      <4>3. UNCHANGED <<pending, cache, offset, ignored, unsent>>
        BY <3>3 DEF InsertHashes, blocksVars
      <4>4. Genuine'
        BY <2>0, <3>1 DEF QueueType, Genuine
      <4> QED
        BY <2>0, <3>1, <4>2, <4>3, <4>4 DEF QueueType, NoRequest
    <3> QED
      BY <2>2, <3>2, <3>3 DEF HashesPack, StrangePack
  <2> QED
    BY <2>1, <2>2 DEF FetchHashes
\* What Deliver stores came from the peer that was asked for it.
<1>QueueDeliver. ASSUME QueueType, NEW p \in Peer, NEW blocks \in SUBSET Theirs, Deliver(p, blocks),
                        held' = held, batch' = batch, unsent' = unsent
                 PROVE  QueueType'
  <2> USE <1>QueueDeliver
  <2>1. CASE pending[p] = {}
    <3>1. UNCHANGED <<hashPool, waiting, pending, cache, offset>> /\ ignored' = ignored
      BY <2>1 DEF Deliver, queueVars
    <3> QED
      BY <3>1, <1>QueueReset
  <2>2. CASE pending[p] # {}
    <3> DEFINE got == blocks \cap pending[p]
               low == {b \in got : Height(b) < offset}
    <3>1. PICK stored \in SUBSET (got \ low) :
             /\ pending' = [pending EXCEPT ![p] = {}]
             /\ hashPool' = hashPool \ stored
             /\ cache' = {c \in cache : \A b \in stored : Height(c.block) # Height(b)}
                            \cup {[block |-> b, origin |-> p] : b \in stored}
             /\ waiting' = IF low = {} THEN waiting \cup (pending[p] \ stored) ELSE waiting
             /\ ignored' = IF blocks = {} THEN [ignored EXCEPT ![p] = @ \cup pending[p]]
                                          ELSE ignored
             /\ UNCHANGED offset
      BY <2>2, Zenon DEF Deliver
    <3>2. stored \subseteq Theirs /\ pending[p] \subseteq Theirs
      BY DEF QueueType
    <3>3. /\ pending' \in [Peer -> SUBSET Theirs] /\ hashPool' \subseteq Theirs
          /\ waiting' \subseteq Theirs /\ ignored' \in [Peer -> SUBSET Theirs] /\ offset' \in Nat
      <4> HIDE DEF low
      <4> QED
        BY <3>1, <3>2 DEF QueueType
    <3> DEFINE old == {c \in cache : \A b \in stored : Height(c.block) # Height(b)}
               new == {[block |-> b, origin |-> p] : b \in stored}
    <3>4. cache' = old \cup new
      BY <3>1, Zenon
    <3>5. cache \subseteq Items
      BY DEF QueueType
    <3>6. \A b \in stored : [block |-> b, origin |-> p] \in Items
      BY <3>2 DEF Items
    <3>7. old \subseteq Items /\ new \subseteq Items
      BY <3>5, <3>6, Zenon
    <3> HIDE DEF old, new
    <3>8. cache' \subseteq Items
      BY <3>4, <3>7
    <3>9. Genuine'
      BY DEF QueueType, Genuine
    <3> QED
      BY <3>3, <3>8, <3>9, Zenon DEF QueueType, NoRequest
  <2> QED
    BY <2>1, <2>2
\* Every step of fetchBlocks keeps the queue well-typed, whether it reserves,
\* delivers, expires or cancels.
<1>QueueBlocks. ASSUME TypeInv, FetchBlocks PROVE QueueType'
  <2> USE <1>QueueBlocks
  <2>0. QueueType /\ NetType /\ ControlType
    BY DEF TypeInv
  <2>1. ASSUME held' = held PROVE Genuine'
    BY <2>0, <2>1 DEF QueueType, Genuine
  <2>2. CASE Prepare
    <3>1. held' = held /\ batch' = batch /\ unsent' = unsent
          /\ UNCHANGED <<hashPool, waiting, pending, cache, ignored>>
      BY <2>2 DEF Prepare, chainVars, processVars
    <3>2. offset' \in Nat
      BY <2>0, <2>2 DEF Prepare, QueueType, ControlType
    <3> QED
      BY <2>0, <2>1, <3>1, <3>2, Zenon DEF QueueType, NoRequest
  <2>3. CASE BlocksCancelled \/ News \/ Visited
    <3>1. held' = held /\ batch' = batch /\ unsent' = unsent
          /\ UNCHANGED <<hashPool, waiting, pending, cache, offset>> /\ ignored' = ignored
      BY <2>3, Zenon DEF BlocksCancelled, News, Visited, chainVars, processVars, queueVars
    <3> QED
      BY <2>0, <3>1, <1>QueueReset
  <2>4. CASE BlocksPack
    <3>1. held' = held /\ batch' = batch /\ unsent' = unsent /\ blockPackCh # <<>>
      BY <2>4 DEF BlocksPack, chainVars, blocksVars
    <3>2. \/ Deliver(Head(blockPackCh).peer, Head(blockPackCh).blocks)
          \/ UNCHANGED queueVars
      BY <2>4 DEF BlocksPack
    <3>3. CASE UNCHANGED queueVars
      <4>1. UNCHANGED <<hashPool, waiting, pending, cache, offset>> /\ ignored' = ignored
        BY <3>3 DEF queueVars
      <4> QED
        BY <2>0, <3>1, <4>1, <1>QueueReset
    <3>4. Head(blockPackCh).peer \in Peer /\ Head(blockPackCh).blocks \in SUBSET Theirs
      BY <2>0, <3>1, HeadBlocks
    <3> QED
      BY <2>0, <3>1, <3>2, <3>3, <3>4, <1>QueueDeliver
  <2>5. ASSUME NEW expired \in SUBSET {p \in Peer : pending[p] # {}}, Update(expired) PROVE QueueType'
    <3>1. held' = held /\ batch' = batch /\ unsent' = unsent /\ UNCHANGED <<hashPool, cache, offset, ignored>>
      BY <2>5 DEF Update, processVars
    <3>2. \/ UNCHANGED <<waiting, pending>>
          \/ /\ waiting' = waiting \cup UNION {pending[p] : p \in expired}
             /\ pending' = [p \in Peer |-> IF p \in expired THEN {} ELSE pending[p]]
      BY <2>5, Zenon DEF Update
    <3>3. pending \in [Peer -> SUBSET Theirs] /\ waiting \subseteq Theirs
      BY <2>0 DEF QueueType
    <3>4. waiting' \subseteq Theirs
      BY <3>2, <3>3
    <3>5. pending' \in [Peer -> SUBSET Theirs]
      BY <3>2, <3>3
    <3> QED
      BY <2>0, <2>1, <3>1, <3>4, <3>5, Zenon DEF QueueType, NoRequest
  <2>6. ASSUME NEW p \in Peer, Reserve(p) PROVE QueueType'
    <3>1. held' = held /\ batch' = batch /\ UNCHANGED <<hashPool, cache, offset, ignored>>
      BY <2>6, Zenon DEF Reserve, chainVars, processVars
    <3>2. \/ UNCHANGED <<waiting, pending, unsent>>
          \/ \E send \in SUBSET waiting : /\ waiting' = waiting \ send
                                          /\ pending' = [pending EXCEPT ![p] = send]
                                          /\ unsent' = [peer |-> p, hashes |-> send]
      BY <2>6, Zenon DEF Reserve
    <3>3. pending \in [Peer -> SUBSET Theirs] /\ waiting \subseteq Theirs
          /\ unsent \in [peer : Peer, hashes : SUBSET Theirs] \cup {NoRequest}
      BY <2>0 DEF QueueType
    <3>4. /\ waiting' \subseteq Theirs /\ pending' \in [Peer -> SUBSET Theirs]
          /\ unsent' \in [peer : Peer, hashes : SUBSET Theirs] \cup {NoRequest}
      BY <3>2, <3>3
    <3> QED
      BY <2>0, <2>1, <3>1, <3>4, Zenon DEF QueueType, NoRequest
  <2>7. CASE SendRequest
    <3>1. held' = held /\ batch' = batch /\ unsent' = NoRequest
          /\ UNCHANGED <<hashPool, waiting, pending, cache, offset>> /\ ignored' = ignored
      BY <2>7, Zenon DEF SendRequest, chainVars, processVars, queueVars
    <3> QED
      BY <2>0, <3>1, <1>QueueReset
  <2>8. CASE CancelRequest
    <3>1. held' = held /\ batch' = batch /\ unsent' = NoRequest
          /\ UNCHANGED <<hashPool, cache, offset, ignored>> /\ unsent # NoRequest
          /\ waiting' = waiting \cup unsent.hashes /\ pending' = [pending EXCEPT ![unsent.peer] = {}]
      BY <2>8, Zenon DEF CancelRequest, processVars
    <3>2. unsent \in [peer : Peer, hashes : SUBSET Theirs]
      BY <2>0, <3>1 DEF QueueType
    <3>3. waiting' \subseteq Theirs /\ pending' \in [Peer -> SUBSET Theirs]
      BY <2>0, <3>1, <3>2 DEF QueueType
    <3> QED
      BY <2>0, <2>1, <3>1, <3>3 DEF QueueType, NoRequest
  <2> QED
    BY <2>2, <2>3, <2>4, <2>5, <2>6, <2>7, <2>8 DEF FetchBlocks, VisitPeers
\* So do the inserting goroutine, the peers' handlers and the faults.
<1>QueueOthers. ASSUME TypeInv,
                       \/ ProcessQueue
                       \/ \E p \in Peer : Handle(p) \/ Deposit(p)
                       \/ Environment
                PROVE  QueueType'
  <2> USE <1>QueueOthers
  <2>0. QueueType
    BY DEF TypeInv
  <2>1. CASE TakeBlocks
    <3>1. PICK n \in 0 .. Cardinality(cache) :
             /\ \E taken \in [1 .. n -> cache] : batch' = taken /\ cache' = cache \ Range(taken)
             /\ offset' = offset + n
      BY <2>1 DEF TakeBlocks
    <3>2. offset \in Nat /\ cache \subseteq Items
      BY <2>0 DEF QueueType
    <3>3. n \in Nat /\ offset' \in Nat
      BY <3>1, <3>2
    <3>4. PICK taken \in [1 .. n -> cache] : batch' = taken /\ cache' = cache \ Range(taken)
      BY <3>1
    <3>5. batch' \in Seq(Items)
      <4>1. taken \in [1 .. n -> Items]
        BY <3>2
      <4> QED
        BY <3>3, <3>4, <4>1
    <3>6. cache' \subseteq Items
      <4> DEFINE T == Range(taken)
      <4>1. cache' = cache \ T
        BY <3>4
      <4> HIDE DEF T
      <4>2. cache' \in SUBSET cache
        BY <4>1
      <4> QED
        BY <3>2, <4>2
    <3>7. UNCHANGED <<held, unsent, hashPool, waiting, pending, ignored>>
      BY <2>1 DEF TakeBlocks, chainVars, blocksVars
    <3>8. Genuine'
      BY <2>0, <3>7 DEF QueueType, Genuine
    <3> QED
      BY <2>0, <3>3, <3>5, <3>6, <3>7, <3>8, Zenon DEF QueueType, NoRequest
  <2>2. CASE InsertChain
    <3>1. Head(batch).block \in Theirs /\ Tail(batch) \in Seq(Items)
      BY <2>0, <2>2, <1>HeadItem DEF InsertChain
    <3>2. held' = held \cup {Head(batch).block} /\ batch' = Tail(batch) /\ UNCHANGED queueVars /\ unsent' = unsent
      BY <2>2 DEF InsertChain, blocksVars
    <3>3. Genuine'
      BY <2>0, <3>1, <3>2, TheirsBlocks, Zenon DEF QueueType, Genuine
    <3> QED
      BY <2>0, <3>1, <3>2, <3>3, Zenon DEF QueueType, NoRequest, queueVars
  <2>3. CASE InsertFails
    <3>1. held' = held /\ unsent' = unsent /\ batch' = <<>> /\ ResetQueue /\ ignored' = ignored
      BY <2>3 DEF InsertFails, Cancel, blocksVars
    <3>2. Genuine' /\ <<>> \in Seq(Items)
      BY <2>0, <3>1 DEF QueueType, Genuine
    <3> QED
      BY <2>0, <3>1, <3>2, Zenon DEF QueueType, NoRequest, ResetQueue
  <2>4. CASE \E p \in Peer : Handle(p) \/ Deposit(p) \/ LoseAnswer(p) \/ Disconnect(p) \/ Connect(p)
    <3>1. held' = held /\ batch' = batch /\ unsent' = unsent
          /\ UNCHANGED <<hashPool, waiting, pending, cache, offset>> /\ ignored' = ignored
      BY <2>4, Zenon DEF Handle, Deposit, LoseAnswer, Disconnect, Connect, chainVars, blocksVars, processVars, queueVars
    <3> QED
      BY <2>0, <3>1, <1>QueueReset
  <2> QED
    BY <2>1, <2>2, <2>3, <2>4 DEF ProcessQueue, Environment
<1>0. QueueType
  BY DEF TypeInv
<1>1. ASSUME NEW p \in Peer, Synchronise(p) PROVE QueueType'
  <2>1. held' = held /\ batch' = batch /\ unsent' = unsent /\ ResetQueue /\ ignored' = [q \in Peer |-> {}]
    BY <1>1 DEF Synchronise, chainVars, blocksVars, processVars
  <2> QED
    BY <1>0, <2>1, <1>QueueReset
<1>2. CASE UNCHANGED vars
  <2>1. held' = held /\ batch' = batch /\ unsent' = unsent
        /\ UNCHANGED <<hashPool, waiting, pending, cache, offset>> /\ ignored' = ignored
    BY <1>2 DEF vars, chainVars, blocksVars, processVars, queueVars
  <2> QED
    BY <1>0, <2>1, <1>QueueReset
<1> QED
  BY <1>1, <1>2, <1>QueueMain, <1>QueueHashes, <1>QueueBlocks, <1>QueueOthers DEF Next

-----------------------------------------------------------------------------
(* The types: what is on its way.                                          *)

\* What peers send
Packs == HashPacks \cup BlockPacks

\* Every step keeps the messages well-typed.
LEMMA NetStep == ASSUME TypeInv, [Next]_vars PROVE NetType'
\* A request of a peer leaves the answers on their way well-typed.
<1>AskedType. ASSUME NetType, NEW p \in Peer, NEW k \in Nat, NEW n \in 1 .. MaxHashesFetch
              PROVE  AskedHashes(p, k, n) \in [Peer -> Seq(HashPacks \cup BlockPacks)]
  <2> USE <1>AskedType
  <2> DEFINE a == HashPack(p, HashesFrom(p, k, n))
  <2>1. HashesFrom(p, k, n) \in Runs
    BY HashesFromFacts
  <2>2. a \in HashPacks \cup BlockPacks
    BY <2>1 DEF HashPack, HashPacks
  <2>3. wire \in [Peer -> Seq(HashPacks \cup BlockPacks)]
    BY DEF NetType
  <2> HIDE DEF a
  <2>4. Append(wire[p], a) \in Seq(HashPacks \cup BlockPacks)
    BY <2>2, <2>3
  <2>5. AskedHashes(p, k, n) = IF p \in peers THEN [wire EXCEPT ![p] = Append(wire[p], a)] ELSE wire
    BY DEF AskedHashes, Asked, a
  <2> QED
    BY <2>3, <2>4, <2>5
\* A step that makes no request and touches no channel
<1>NetKept. ASSUME NetType, UNCHANGED <<wire, handler>>, UNCHANGED <<hashPackCh, blockPackCh, processCh>>
            PROVE  NetType'
  BY <1>NetKept DEF NetType
\* A step of findAncestor or of fetchHashes: it takes a pack and may ask for
\* more.
<1>NetPack. ASSUME NetType, hashPackCh # <<>>, hashPackCh' = Tail(hashPackCh), UNCHANGED <<handler, blockPackCh>>,
                   wire' \in [Peer -> Seq(Packs)], processCh' \in Seq(BOOLEAN), Len(processCh') <= 1
            PROVE  NetType'
  <2> USE <1>NetPack
  <2>1. hashPackCh' \in Seq(HashPacks) /\ Len(hashPackCh') <= 1
    BY HeadPack
  <2> QED
    BY <2>1 DEF NetType, Packs
\* Every step of synchronise and findAncestor keeps the messages well-typed.
<1>NetMain. ASSUME TypeInv, Main PROVE NetType'
  <2> USE <1>NetMain
  <2>0. NetType /\ ControlType
    BY DEF TypeInv
  <2>1. 1 \in 1 .. MaxHashesFetch /\ MaxHashesFetch \in 1 .. MaxHashesFetch
    BY SessionAssumption
  <2>2. wire \in [Peer -> Seq(Packs)] /\ processCh \in Seq(BOOLEAN) /\ Len(processCh) <= 1
    BY <2>0 DEF NetType, Packs
  <2>3. ASSUME NEW n \in Nat, main # "idle", StartFetchers(n) PROVE wire' \in [Peer -> Seq(Packs)]
    <3>1. with \in Peer /\ n + 1 \in Nat /\ wire' = AskedHashes(with, n + 1, MaxHashesFetch)
      BY <2>0, <2>3 DEF ControlType, StartFetchers
    <3> QED
      BY <2>0, <2>1, <3>1, <1>AskedType DEF Packs
  <2>4. ASSUME NEW l \in Nat, NEW r \in Nat, main # "idle", Search(l, r) PROVE wire' \in [Peer -> Seq(Packs)]
    <3>1. CASE StartFetchers(l)
      BY <2>3, <2>4, <3>1
    <3>2. CASE ~StartFetchers(l)
      <4>1. with \in Peer /\ (l + r) \div 2 \in Nat /\ wire' = AskedHashes(with, (l + r) \div 2, 1)
        BY <2>0, <2>4, <3>2 DEF ControlType, Search
      <4> QED
        BY <2>0, <2>1, <4>1, <1>AskedType DEF Packs
    <3> QED
      BY <3>1, <3>2
  <2>5. CASE AncestorPack
    <3> DEFINE hashes == Head(hashPackCh).hashes
               matches == {i \in DOMAIN hashes : hashes[i] \in Known}
    <3>1. /\ main # "idle" /\ hashPackCh # <<>> /\ hashPackCh' = Tail(hashPackCh)
          /\ UNCHANGED <<handler, blockPackCh>> /\ processCh' = processCh
      BY <2>5, Zenon DEF AncestorPack
    <3>2. \/ wire' = wire \/ Search(0, top)
          \/ \E i \in matches : StartFetchers(HeightAt(i))
      BY <2>5, Zenon DEF AncestorPack, StrangePack, AncestorFails
    <3>3. ASSUME NEW i \in matches, StartFetchers(HeightAt(i)) PROVE wire' \in [Peer -> Seq(Packs)]
      <4>1. i \in Nat \ {0}
        <5>1. i \in DOMAIN hashes /\ DOMAIN hashes = 1 .. Len(hashes) /\ Len(hashes) \in Nat
          BY <2>0, <3>1, HeadPack, Zenon
        <5> HIDE DEF hashes, matches
        <5> QED
          BY ONLY <5>1
      <4>2. FirstAsked(top) \in Nat
        BY <2>0, FirstAskedType DEF ControlType
      <4>3. HeightAt(i) \in Nat
        BY <4>1, <4>2 DEF HeightAt
      <4> QED
        BY <2>3, <3>1, <3>3, <4>3, Zenon
    <3>4. top \in Nat
      BY <2>0 DEF ControlType
    <3>5. wire' \in [Peer -> Seq(Packs)]
      BY <2>2, <2>4, <3>1, <3>2, <3>3, <3>4, Zenon
    <3> QED
      BY <2>0, <2>2, <3>1, <3>5, <1>NetPack
  <2>6. CASE SearchPack
    <3> DEFINE half == Half(Head(hashPackCh).hashes[1] \in Known)
    <3>1. /\ main # "idle" /\ hashPackCh # <<>> /\ hashPackCh' = Tail(hashPackCh)
          /\ UNCHANGED <<handler, blockPackCh>> /\ processCh' = processCh
      BY <2>6, Zenon DEF SearchPack
    <3>2. half[1] \in Nat /\ half[2] \in Nat
      BY <2>0 DEF Half, ControlType
    <3>3. wire' = wire \/ Search(half[1], half[2])
      BY <2>6, Zenon DEF SearchPack, StrangePack, AncestorFails
    <3> HIDE DEF half
    <3>4. wire' \in [Peer -> Seq(Packs)]
      BY <2>2, <2>4, <3>1, <3>2, <3>3
    <3> QED
      BY <2>0, <2>2, <3>1, <3>4, <1>NetPack
  <2>7. CASE AncestorGivesUp \/ FirstResult \/ LastResult
    <3>1. UNCHANGED <<wire, handler>> /\ UNCHANGED <<hashPackCh, blockPackCh, processCh>>
      BY <2>7, Zenon DEF AncestorGivesUp, AncestorFails, FirstResult, LastResult, netVars, channels
    <3> QED
      BY <2>0, <3>1, <1>NetKept
  <2> QED
    BY <2>5, <2>6, <2>7 DEF Main
\* One more element in a channel that had room
<1>RoomAppend. ASSUME NEW S, NEW ch \in Seq(S), Room(ch), NEW x \in S
               PROVE  Append(ch, x) \in Seq(S) /\ Len(Append(ch, x)) <= 1
  <2> USE <1>RoomAppend
  <2>1. Len(ch) \in Nat /\ Len(ch) < 1
    BY DEF Room
  <2>2. Append(ch, x) \in Seq(S) /\ Len(Append(ch, x)) = Len(ch) + 1
    OBVIOUS
  <2> QED
    BY <2>1, <2>2
\* Every step of fetchHashes keeps the messages well-typed.
<1>NetHashes. ASSUME TypeInv, FetchHashes PROVE NetType'
  <2> USE <1>NetHashes
  <2>0. NetType /\ ControlType
    BY DEF TypeInv
  <2>1. MaxHashesFetch \in 1 .. MaxHashesFetch
    BY SessionAssumption
  <2>2. wire \in [Peer -> Seq(Packs)] /\ processCh \in Seq(BOOLEAN) /\ Len(processCh) <= 1
    BY <2>0 DEF NetType, Packs
  <2>3. CASE HashesGiveUp
    <3>1. UNCHANGED <<wire, handler>> /\ UNCHANGED <<hashPackCh, blockPackCh, processCh>>
      BY <2>3 DEF HashesGiveUp, netVars, channels
    <3> QED
      BY <2>0, <3>1, <1>NetKept
  <2>4. CASE TellFinished
    <3>1. UNCHANGED <<wire, handler, hashPackCh, blockPackCh>> /\ processCh' = Append(processCh, FALSE)
          /\ Room(processCh)
      BY <2>4 DEF TellFinished, netVars
    <3>2. processCh' \in Seq(BOOLEAN) /\ Len(processCh') <= 1
      BY <2>2, <3>1, <1>RoomAppend
    <3> QED
      BY <2>0, <3>1, <3>2 DEF NetType
  <2>5. CASE HashesPack
    <3> DEFINE hashes == Head(hashPackCh).hashes
    <3>1. /\ hashPackCh # <<>> /\ hashPackCh' = Tail(hashPackCh) /\ UNCHANGED <<handler, blockPackCh>>
      BY <2>5 DEF HashesPack
    <3>2. CASE UNCHANGED <<wire, processCh>>
      BY <2>0, <2>2, <3>1, <3>2, <1>NetPack
    <3>3. CASE InsertHashes(hashes) /\ Head(hashPackCh).peer = with
      <4>1. Len(hashes) \in Nat /\ with \in Peer
        BY <2>0, <3>1, <3>3, HeadPack
      <4>2. \/ UNCHANGED <<wire, processCh>>
            \/ /\ processCh' = IF Room(processCh) THEN Append(processCh, TRUE) ELSE processCh
               /\ wire' = AskedHashes(with, from + Len(hashes), MaxHashesFetch)
        BY <3>3, Zenon DEF InsertHashes
      <4>3. processCh' \in Seq(BOOLEAN) /\ Len(processCh') <= 1
        <5>1. Room(processCh) => /\ Append(processCh, TRUE) \in Seq(BOOLEAN)
                                 /\ Len(Append(processCh, TRUE)) <= 1
          BY <2>2, <1>RoomAppend
        <5> QED
          BY <2>2, <4>2, <5>1, Zenon
      <4>4. from + Len(hashes) \in Nat
        BY <2>0, <4>1 DEF ControlType
      <4>5. AskedHashes(with, from + Len(hashes), MaxHashesFetch) \in [Peer -> Seq(Packs)]
        BY <2>0, <2>1, <4>1, <4>4, <1>AskedType, Zenon DEF Packs
      <4>6. wire' \in [Peer -> Seq(Packs)]
        BY <2>2, <4>2, <4>5, Zenon
      <4> QED
        BY <2>0, <3>1, <4>3, <4>6, <1>NetPack
    <3> QED
      BY <2>5, <3>2, <3>3 DEF HashesPack, StrangePack
  <2> QED
    BY <2>3, <2>4, <2>5 DEF FetchHashes
\* Every step of fetchBlocks keeps the messages well-typed.
<1>NetBlocks. ASSUME TypeInv, FetchBlocks PROVE NetType'
  <2> USE <1>NetBlocks
  <2>0. NetType /\ QueueType
    BY DEF TypeInv
  <2>1. CASE Prepare \/ BlocksCancelled \/ CancelRequest \/ Visited
    <3>1. UNCHANGED <<wire, handler>> /\ UNCHANGED <<hashPackCh, blockPackCh, processCh>>
      BY <2>1, Zenon DEF Prepare, BlocksCancelled, CancelRequest, Visited, netVars, channels
    <3> QED
      BY <2>0, <3>1, <1>NetKept
  <2>2. ASSUME NEW expired, Update(expired) PROVE NetType'
    <3>1. UNCHANGED <<wire, handler>> /\ UNCHANGED <<hashPackCh, blockPackCh, processCh>>
      BY <2>2 DEF Update, netVars, channels
    <3> QED
      BY <2>0, <3>1, <1>NetKept
  <2>3. ASSUME NEW p, Reserve(p) PROVE NetType'
    <3>1. UNCHANGED <<wire, handler>> /\ UNCHANGED <<hashPackCh, blockPackCh, processCh>>
      BY <2>3, Zenon DEF Reserve, netVars, channels
    <3> QED
      BY <2>0, <3>1, <1>NetKept
  <2>4. CASE BlocksPack
    <3>1. blockPackCh # <<>> /\ blockPackCh' = Tail(blockPackCh) /\ UNCHANGED <<wire, handler, hashPackCh, processCh>>
      BY <2>4 DEF BlocksPack, netVars
    <3>2. blockPackCh' \in Seq(BlockPacks) /\ Len(blockPackCh') <= 1
      BY <2>0, <3>1, HeadBlocks, Zenon
    <3> QED
      BY <2>0, <3>1, <3>2 DEF NetType
  <2>5. CASE News
    <3>1. processCh # <<>> /\ processCh' = Tail(processCh) /\ UNCHANGED <<wire, handler, hashPackCh, blockPackCh>>
      BY <2>5, Zenon DEF News, netVars
    <3>2. Tail(processCh) \in Seq(BOOLEAN) /\ Len(Tail(processCh)) = Len(processCh) - 1
          /\ Len(processCh) \in Nat /\ Len(processCh) <= 1
      BY <2>0, <3>1 DEF NetType
    <3>3. processCh' \in Seq(BOOLEAN) /\ Len(processCh') <= 1
      BY <3>1, <3>2
    <3> QED
      BY <2>0, <3>1, <3>3 DEF NetType
  <2>6. CASE SendRequest
    <3> DEFINE p == unsent.peer
    <3>1. unsent # NoRequest /\ UNCHANGED handler /\ UNCHANGED <<hashPackCh, blockPackCh, processCh>>
      BY <2>6 DEF SendRequest, channels
    <3>2. p \in Peer /\ unsent.hashes \subseteq Theirs
      BY <2>0, <3>1 DEF QueueType
    <3>3. PICK blocks \in SUBSET unsent.hashes : wire' = Asked(p, BlockPack(p, blocks))
      BY <2>6 DEF SendRequest
    <3> DEFINE a == BlockPack(p, blocks)
    <3>4. a \in Packs
      BY <3>2 DEF BlockPack, BlockPacks, Packs
    <3>5. wire \in [Peer -> Seq(Packs)]
      BY <2>0 DEF NetType, Packs
    <3>6. wire' = IF p \in peers THEN [wire EXCEPT ![p] = Append(wire[p], a)] ELSE wire
      BY <3>3 DEF Asked
    <3> HIDE DEF a, p
    <3>7. Append(wire[p], a) \in Seq(Packs)
      <4>1. wire[p] \in Seq(Packs)
        BY <3>2, <3>5, Zenon
      <4> HIDE DEF Packs
      <4> QED
        BY ONLY <3>4, <4>1
    <3>8. wire' \in [Peer -> Seq(Packs)]
      BY <3>5, <3>6, <3>7, Zenon
    <3> QED
      BY <2>0, <3>1, <3>8 DEF NetType, Packs
  <2> QED
    BY <2>1, <2>2, <2>3, <2>4, <2>5, <2>6 DEF FetchBlocks, VisitPeers
\* So do the inserting goroutine, the peers' handlers and the faults.
<1>NetOthers. ASSUME TypeInv,
                     \/ ProcessQueue
                     \/ \E p \in Peer : Handle(p) \/ Deposit(p)
                     \/ Environment
              PROVE  NetType'
  <2> USE <1>NetOthers
  <2>0. NetType /\ QueueType
    BY DEF TypeInv
  <2>1. wire \in [Peer -> Seq(Packs)] /\ handler \in [Peer -> Packs \cup {NoPack}]
    BY <2>0 DEF NetType, Packs
  <2>2. ASSUME wire' \in [Peer -> Seq(Packs)], handler' \in [Peer -> Packs \cup {NoPack}],
               UNCHANGED <<hashPackCh, blockPackCh, processCh>>
        PROVE  NetType'
    BY <2>0, <2>2 DEF NetType, Packs
  <2>3. CASE ProcessQueue
    <3>1. UNCHANGED <<wire, handler>> /\ UNCHANGED <<hashPackCh, blockPackCh, processCh>>
      BY <2>3, Zenon DEF ProcessQueue, TakeBlocks, InsertChain, netVars, channels
    <3> QED
      BY <2>0, <3>1, <1>NetKept
  <2>4. CASE InsertFails
    <3> DEFINE o == Head(batch).origin
    <3>1. wire' = [wire EXCEPT ![o] = <<>>] /\ UNCHANGED handler /\ UNCHANGED <<hashPackCh, blockPackCh, processCh>>
      BY <2>4 DEF InsertFails, channels
    <3>2. wire' \in [Peer -> Seq(Packs)]
      <4>1. <<>> \in Seq(Packs)
        OBVIOUS
      <4> HIDE DEF o
      <4> QED
        BY <2>1, <3>1, <4>1, Zenon
    <3> QED
      BY <2>1, <2>2, <3>1, <3>2
  <2>5. ASSUME NEW p \in Peer, wire[p] # <<>> PROVE Tail(wire[p]) \in Seq(Packs) /\ Head(wire[p]) \in Packs
    BY <2>1, <2>5
  <2>6. ASSUME NEW p \in Peer, Handle(p) PROVE NetType'
    <3>1. /\ wire[p] # <<>> /\ wire' = [wire EXCEPT ![p] = Tail(wire[p])]
          /\ handler' = IF closed THEN handler ELSE [handler EXCEPT ![p] = Head(wire[p])]
          /\ UNCHANGED <<hashPackCh, blockPackCh, processCh>>
      BY <2>6 DEF Handle, channels
    <3>2. wire' \in [Peer -> Seq(Packs)] /\ handler' \in [Peer -> Packs \cup {NoPack}]
      BY <2>1, <2>5, <3>1
    <3> QED
      BY <2>2, <3>1, <3>2
  <2>7. ASSUME NEW p \in Peer, Deposit(p) PROVE NetType'
    <3> DEFINE a == handler[p]
    <3>1. /\ a # NoPack /\ handler' = [handler EXCEPT ![p] = NoPack] /\ UNCHANGED <<wire, processCh>>
          /\ \/ /\ a.kind = "hashes" /\ Room(hashPackCh)
                /\ hashPackCh' = Append(hashPackCh, a) /\ UNCHANGED blockPackCh
             \/ /\ a.kind = "blocks" /\ Room(blockPackCh)
                /\ blockPackCh' = Append(blockPackCh, a) /\ UNCHANGED hashPackCh
      BY <2>7, Zenon DEF Deposit
    <3>2. a \in Packs
      BY <2>1, <3>1
    <3>3. /\ a.kind = "hashes" => a \in HashPacks
          /\ a.kind = "blocks" => a \in BlockPacks
      BY <3>2, Zenon DEF Packs, HashPacks, BlockPacks
    <3>4. handler' \in [Peer -> Packs \cup {NoPack}]
      BY <2>1, <3>1
    <3> HIDE DEF a
    <3>5. /\ hashPackCh' \in Seq(HashPacks) /\ Len(hashPackCh') <= 1
          /\ blockPackCh' \in Seq(BlockPacks) /\ Len(blockPackCh') <= 1
      <4>1. CASE a.kind = "hashes" /\ Room(hashPackCh) /\ hashPackCh' = Append(hashPackCh, a) /\ UNCHANGED blockPackCh
        BY <2>0, <3>3, <4>1, <1>RoomAppend DEF NetType
      <4>2. CASE a.kind = "blocks" /\ Room(blockPackCh) /\ blockPackCh' = Append(blockPackCh, a) /\ UNCHANGED hashPackCh
        BY <2>0, <3>3, <4>2, <1>RoomAppend DEF NetType
      <4> QED
        BY <3>1, <4>1, <4>2
    <3> QED
      BY <2>0, <3>1, <3>4, <3>5 DEF NetType, Packs
  <2>8. ASSUME NEW p \in Peer, LoseAnswer(p) PROVE NetType'
    <3>1. /\ wire[p] # <<>> /\ wire' = [wire EXCEPT ![p] = Tail(wire[p])] /\ UNCHANGED handler
          /\ UNCHANGED <<hashPackCh, blockPackCh, processCh>>
      BY <2>8 DEF LoseAnswer, channels
    <3> QED
      BY <2>1, <2>2, <2>5, <3>1
  <2>9. ASSUME NEW p \in Peer, Disconnect(p) PROVE NetType'
    <3>1. /\ wire' = [wire EXCEPT ![p] = <<>>] /\ UNCHANGED handler
          /\ UNCHANGED <<hashPackCh, blockPackCh, processCh>>
      BY <2>9 DEF Disconnect, channels
    <3>2. wire' \in [Peer -> Seq(Packs)]
      BY <2>1, <3>1
    <3> QED
      BY <2>1, <2>2, <3>1, <3>2
  <2>10. ASSUME NEW p \in Peer, Connect(p) PROVE NetType'
    <3>1. UNCHANGED <<wire, handler>> /\ UNCHANGED <<hashPackCh, blockPackCh, processCh>>
      BY <2>10 DEF Connect, netVars, channels
    <3> QED
      BY <2>0, <3>1, <1>NetKept
  <2> QED
    BY <2>3, <2>4, <2>6, <2>7, <2>8, <2>9, <2>10 DEF Environment
<1>0. NetType /\ QueueType
  BY DEF TypeInv
<1>1. ASSUME NEW p \in Peer, Synchronise(p) PROVE NetType'
  <2>1. wire' = AskedHashes(p, FirstAsked(HeadHeight), MaxHashesFetch)
        /\ UNCHANGED handler /\ UNCHANGED <<hashPackCh, blockPackCh, processCh>>
    BY <1>1 DEF Synchronise, channels
  <2>2. HeadHeight \in Nat
    BY <1>0, HeadFacts DEF QueueType
  <2>3. FirstAsked(HeadHeight) \in Nat /\ MaxHashesFetch \in 1 .. MaxHashesFetch
    BY <2>2, FirstAskedType, SessionAssumption
  <2>4. wire' \in [Peer -> Seq(Packs)]
    BY <1>0, <2>1, <2>3, <1>AskedType, Zenon DEF Packs
  <2> QED
    BY <1>0, <2>1, <2>4 DEF NetType, Packs
<1>2. CASE UNCHANGED vars
  <2>1. UNCHANGED <<wire, handler>> /\ UNCHANGED <<hashPackCh, blockPackCh, processCh>>
    BY <1>2 DEF vars, netVars, channels
  <2> QED
    BY <1>0, <2>1, <1>NetKept
<1> QED
  BY <1>1, <1>2, <1>NetMain, <1>NetHashes, <1>NetBlocks, <1>NetOthers DEF Next

-----------------------------------------------------------------------------
(* Batches connect to the chain.                                           *)

\* Everything is well-typed in the beginning.
LEMMA InitTypes == Init => TypeInv
<1> SUFFICES ASSUME Init PROVE TypeInv
  OBVIOUS
<1>1. ControlType
  <2>1. 0 \in 0 .. MaxSessions /\ 0 \in 0 .. MaxFaults /\ 0 \in 0 .. MaxProcs /\ 0 \in Nat
    BY SessionAssumption
  <2> QED
    BY <2>1, Zenon DEF Init, ControlType, Stages
<1>2. QueueType
  <2>1. Genuine
    BY DEF Init, Genuine, Block
  <2>2. <<>> \in Seq(Items)
    OBVIOUS
  <2> QED
    BY <2>1, <2>2 DEF Init, QueueType
<1>3. NetType
  <2>1. <<>> \in Seq(HashPacks) /\ <<>> \in Seq(BlockPacks) /\ <<>> \in Seq(BOOLEAN) /\ Len(<<>>) = 0
        /\ <<>> \in Seq(HashPacks \cup BlockPacks)
    OBVIOUS
  <2> QED
    BY <2>1 DEF Init, NetType
<1> QED
  BY <1>1, <1>2, <1>3 DEF TypeInv

\* Everything is well-typed for ever.
LEMMA TypesHold == Spec => [](TypeInv /\ Balanced)
<1>1. TypeInv /\ [Next]_vars => TypeInv'
  BY ControlStep, QueueStep, NetStep DEF TypeInv
<1> QED
  BY InitTypes, InitBalanced, NextBalanced, <1>1, PTL DEF Spec
=============================================================================
