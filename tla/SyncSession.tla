---------------------------- MODULE SyncSession ----------------------------
(***************************************************************************)
(* One synchronisation after another (backend/syncmgr.go): synchronise,    *)
(* findAncestor, the two fetchers it starts, the processQueue goroutines   *)
(* nobody waits for, and the peers' message handlers, with the channels    *)
(* between them.  The channels outlive a synchronisation.                  *)
(*                                                                         *)
(* The download queue is taken here as the sets it keeps; its priorities   *)
(* and its limit are the subject of SyncQueue, so Throttle is FALSE and    *)
(* Reserve may pick any of the waiting hashes.  InsertChain keeps a block  *)
(* and connects it once its ancestors are there, as ChainStore shows.      *)
(* All peers are on one chain, which leaves ours at height Fork.           *)
(***************************************************************************)
EXTENDS Integers, Sequences, FiniteSets, Functions

CONSTANTS
    Peer,
    PeerHeight,      \* [Peer -> Nat], the height of each peer's chain
    Fork,            \* height of the last block we share with the peers
    OurHeight,       \* height of our chain at the beginning
    MaxHashesFetch,  \* maxHashesFetch (512)
    ReserveCount,    \* the count fetchBlocks passes to Reserve (20)
    MaxSessions,     \* bound: synchronisations
    Faults,          \* the kinds of fault that happen: see Fault
    MaxFaults,       \* bound: faults
    MaxProcs,        \* bound: processQueue goroutines waiting for the lock
    NoPeer, NoPack

ASSUME SessionAssumption ==
    /\ IsFiniteSet(Peer) /\ Peer # {}
    /\ PeerHeight \in [Peer -> Nat] /\ Fork \in Nat /\ OurHeight \in Nat
    /\ MaxHashesFetch \in Nat \ {0} /\ ReserveCount \in Nat \ {0}
    /\ MaxSessions \in Nat /\ MaxFaults \in Nat /\ MaxProcs \in Nat

VARIABLES
    held,        \* blocks InsertChain was given
    peers,       \* peerSet.peers
    sessions,    \* synchronisations begun
    main,        \* where synchronise is: see Stages
    with,        \* the peer of the synchronisation
    top,         \* the head's height findAncestor read
    left, right, \* the interval of findAncestor's binary search
    number,      \* what findAncestor returned
    closed,      \* mgr.cancelCh is closed
    errc,        \* what the fetchers returned: TRUE is nil
    hpc, from,   \* fetchHashes: where it is, the height it asks for next
    bpc,         \* fetchBlocks: where it is
    finished,    \* fetchBlocks: no more hashes will come
    visiting,    \* fetchBlocks: peers its loop has yet to visit
    unsent,      \* fetchBlocks: the request that is reserved and not sent
    hashPackCh, blockPackCh, processCh,   \* channels with a buffer of one
    hashPool, waiting, pending, cache, offset, \* syncQueue: hashPool, hashQueue, pendPool, blockCache, blockOffset
    ignored,     \* [Peer -> ignoreHashes]
    procs,       \* processQueue goroutines that wait for processLock
    batch,       \* what the one that holds it still has to insert
    wire,        \* [Peer -> answers on their way]
    handler,     \* [Peer -> the pack its handler is about to send]
    faults       \* faults so far

chainVars   == <<held, peers, faults>>
mainVars    == <<sessions, main, with, top, left, right, number, closed>>
hashesVars  == <<hpc, from>>
blocksVars  == <<bpc, finished, visiting, unsent>>
queueVars   == <<hashPool, waiting, pending, cache, offset, ignored>>
processVars == <<procs, batch>>
netVars     == <<wire, handler>>
channels    == <<hashPackCh, blockPackCh, processCh>>
vars == <<chainVars, mainVars, errc, hashesVars, blocksVars, queueVars,
          processVars, netVars, channels>>

-----------------------------------------------------------------------------
(* Blocks.  A hash stands for its block, whose first part says which       *)
(* chains it is on.                                                        *)

Height(b) == b[2]
TheirBlock(k) == IF k <= Fork THEN <<"shared", k>> ELSE <<"theirs", k>>
OurBlock(k)   == IF k <= Fork THEN <<"shared", k>> ELSE <<"ours", k>>
Parent(b) == IF b[1] = "ours" THEN OurBlock(b[2] - 1) ELSE TheirBlock(b[2] - 1)

TheirHeight == CHOOSE k \in {PeerHeight[p] : p \in Peer} :
                  \A p \in Peer : PeerHeight[p] <= k
Block == {TheirBlock(k) : k \in 0 .. TheirHeight}
            \cup {OurBlock(k) : k \in 0 .. OurHeight}
ChainOf(p) == {TheirBlock(k) : k \in 0 .. PeerHeight[p]}

\* GetBlockByHash finds a block once it is connected.
Known == {b \in held : \A k \in 0 .. Height(b) :
            (IF b[1] = "ours" THEN OurBlock(k) ELSE TheirBlock(k)) \in held}
HeadHeight == CHOOSE k \in {Height(b) : b \in Known} :
                 \A b \in Known : Height(b) <= k

\* handleGetBlockHashes of peer p: count hashes from height k, fewer at the
\* end of its chain.
HashesFrom(p, k, count) ==
    LET last == IF k + count - 1 <= PeerHeight[p] THEN k + count - 1 ELSE PeerHeight[p]
    IN  [i \in 1 .. last - k + 1 |-> TheirBlock(k + i - 1)]

HashPack(p, hashes)  == [kind |-> "hashes", peer |-> p, hashes |-> hashes]
BlockPack(p, blocks) == [kind |-> "blocks", peer |-> p, blocks |-> blocks]

\* A request made of p puts its answer on the wire; one made of a peer that is
\* gone fails, which is only logged.
Asked(p, pack) == IF p \in peers THEN [wire EXCEPT ![p] = Append(@, pack)] ELSE wire
AskedHashes(p, k, count) == Asked(p, HashPack(p, HashesFrom(p, k, count)))

\* A fault of kind k: an answer is "lost", or comes after the timeout ("late
\* hashes" and "late blocks"); a request cannot be sent ("send"); a connection
\* breaks ("drop"); InsertChain refuses a block ("insert").
Fault(k) == k \in Faults /\ faults < MaxFaults /\ faults' = faults + 1

\* Slip: channels with a buffer of two.
RoomSlip(ch) == Len(ch) < 2

\* A channel of the manager takes another element.
Room(ch) == Len(ch) < 1

\* p's handler waits for room in a channel that nobody reads, and the other
\* messages of p wait behind it.
Stuck(p) ==
    /\ handler[p] # NoPack
    /\ \/ /\ handler[p].kind = "hashes" /\ ~Room(hashPackCh)
          /\ main \notin {"ancestor", "search"} /\ hpc # "wait"
       \/ /\ handler[p].kind = "blocks" /\ ~Room(blockPackCh)
          /\ bpc = "off"

\* An answer of p of this kind will arrive, or waits to be read.
Coming(p, kind) ==
    \/ ~Stuck(p) /\ \E i \in DOMAIN wire[p] : wire[p][i].kind = kind
    \/ handler[p] # NoPack /\ handler[p].kind = kind
    \/ \E pack \in Range(hashPackCh) \cup Range(blockPackCh) :
          pack.kind = kind /\ pack.peer = p

LateFault == [hashes |-> "late hashes", blocks |-> "late blocks"]

\* A timeout for these peers' answers, which is a fault if they come.
TimedOut(who, kind) ==
    IF \E p \in who : Coming(p, kind) THEN Fault(LateFault[kind]) ELSE UNCHANGED faults

NoRequest == [peer |-> NoPeer, hashes |-> {}]

Init ==
    /\ held = {OurBlock(k) : k \in 0 .. OurHeight}
    /\ peers = Peer
    /\ sessions = 0 /\ main = "idle" /\ with = NoPeer
    /\ top = 0 /\ left = 0 /\ right = 0 /\ number = 0
    /\ closed = FALSE
    /\ errc = <<>>
    /\ hpc = "off" /\ from = 0
    /\ bpc = "off" /\ finished = FALSE /\ visiting = {} /\ unsent = NoRequest
    /\ hashPackCh = <<>> /\ blockPackCh = <<>> /\ processCh = <<>>
    /\ hashPool = {} /\ waiting = {} /\ cache = {} /\ offset = 0
    /\ pending = [p \in Peer |-> {}]
    /\ ignored = [p \in Peer |-> {}]
    /\ procs = 0 /\ batch = <<>>
    /\ wire = [p \in Peer |-> <<>>]
    /\ handler = [p \in Peer |-> NoPack]
    /\ faults = 0

-----------------------------------------------------------------------------
(* synchronise and syncWithPeer.                                           *)

\* queue.Reset
ResetQueue ==
    /\ hashPool' = {} /\ waiting' = {} /\ cache' = {} /\ offset' = 0
    /\ pending' = [p \in Peer |-> {}]

\* Slip: the queue keeps what it has.
CancelSlip == closed' = TRUE /\ UNCHANGED queueVars

\* cancel
Cancel == closed' = TRUE /\ ResetQueue /\ UNCHANGED ignored

\* The first height findAncestor asks for, with the head at height h
FirstAsked(h) == IF h < MaxHashesFetch THEN 0 ELSE h - MaxHashesFetch

\* Synchronise with p, called with a peer that is higher than we are, and the
\* beginning of findAncestor.  Without p in the peer set it returns at once,
\* after the resets.
Synchronise(p) ==
    /\ main = "idle" /\ sessions < MaxSessions
    /\ PeerHeight[p] > HeadHeight
    /\ sessions' = sessions + 1
    /\ ResetQueue
    /\ ignored' = [q \in Peer |-> {}]
    /\ closed' = FALSE
    /\ with' = p
    /\ top' = HeadHeight
    /\ main' = IF p \in peers THEN "ancestor" ELSE "idle"
    /\ wire' = AskedHashes(p, FirstAsked(HeadHeight), MaxHashesFetch)
    /\ UNCHANGED <<chainVars, left, right, number, errc, hashesVars, blocksVars,
                   processVars, handler, channels>>

\* findAncestor fails, and with it the synchronisation.
AncestorFails ==
    /\ main' = "idle"
    /\ Cancel
    /\ UNCHANGED <<sessions, with, top, left, right, number, errc, hashesVars,
                   blocksVars, wire>>

\* findAncestor returns n: the fetchers start above it, and fetchHashes makes
\* its first request.
StartFetchers(n) ==
    /\ main' = "fetch"
    /\ number' = n
    /\ errc' = <<>>
    /\ hpc' = "wait" /\ from' = n + 1
    /\ bpc' = "prepare" /\ finished' = FALSE /\ visiting' = {} /\ unsent' = NoRequest
    /\ wire' = AskedHashes(with, n + 1, MaxHashesFetch)
    /\ UNCHANGED <<sessions, with, top, left, right, closed, queueVars>>

\* Slip: the search stops one step early.
UndecidedSlip(l, r) == l + 2 < r

Undecided(l, r) == l + 1 < r

\* The binary search goes on with the interval from l to r, or is over.
Search(l, r) ==
    IF Undecided(l, r)
    THEN /\ main' = "search" /\ left' = l /\ right' = r
         /\ wire' = AskedHashes(with, (l + r) \div 2, 1)
         /\ UNCHANGED <<sessions, with, top, number, closed, errc, hashesVars,
                        blocksVars, queueVars>>
    ELSE StartFetchers(l)

\* A pack of another peer is thrown away.
StrangePack ==
    /\ Head(hashPackCh).peer # with
    /\ UNCHANGED <<mainVars, errc, hashesVars, blocksVars, queueVars, wire, processCh>>

\* The height of the i-th hash of the answer to the first request
HeightAt(i) == FirstAsked(top) + i - 1

\* The answer to the first request: the last hash of a known block counts from
\* the first height asked for, whatever the pack is an answer to.
AncestorPack ==
    LET hashes  == Head(hashPackCh).hashes
        matches == {i \in DOMAIN hashes : hashes[i] \in Known}
    IN
    /\ main = "ancestor" /\ hashPackCh # <<>>
    /\ hashPackCh' = Tail(hashPackCh)
    /\ \/ StrangePack
       \/ /\ Head(hashPackCh).peer = with
          /\ \/ hashes = <<>> /\ AncestorFails
             \/ \E i \in matches : /\ \A j \in matches : j <= i
                                   /\ StartFetchers(HeightAt(i))
             \/ hashes # <<>> /\ matches = {} /\ Search(0, top)
    /\ UNCHANGED <<chainVars, processVars, handler, blockPackCh, processCh>>

\* Slip: the halves are swapped.
HalfSlip(known) == LET mid == (left + right) \div 2
                   IN  IF known THEN <<left, mid>> ELSE <<mid, right>>

\* The half of the interval in which the search goes on
Half(known) == LET mid == (left + right) \div 2
               IN  IF known THEN <<mid, right>> ELSE <<left, mid>>

\* The answer to a request of the binary search
SearchPack ==
    LET hashes == Head(hashPackCh).hashes
        half   == Half(hashes[1] \in Known)
    IN
    /\ main = "search" /\ hashPackCh # <<>>
    /\ hashPackCh' = Tail(hashPackCh)
    /\ \/ StrangePack
       \/ /\ Head(hashPackCh).peer = with
          /\ IF Len(hashes) # 1 THEN AncestorFails ELSE Search(half[1], half[2])
    /\ UNCHANGED <<chainVars, processVars, handler, blockPackCh, processCh>>

\* findAncestor sees the closed channel, or its time is over.
AncestorGivesUp ==
    /\ main \in {"ancestor", "search"}
    /\ \/ closed /\ UNCHANGED faults
       \/ TimedOut({with}, "hashes")
    /\ AncestorFails
    /\ UNCHANGED <<held, peers, processVars, handler, channels>>

\* Slip: an error does not wait for the other fetcher.
AfterErrorSlip == "idle"

AfterError == "drain"

\* Slip: an error does not cancel the other fetcher.
CancelOtherSlip == UNCHANGED <<closed, queueVars>>

CancelOther == Cancel

\* The first result of a fetcher: an error cancels the other one.
FirstResult ==
    /\ main = "fetch" /\ errc # <<>>
    /\ errc' = Tail(errc)
    /\ IF Head(errc)
       THEN main' = "last" /\ UNCHANGED <<closed, queueVars>>
       ELSE main' = AfterError /\ CancelOther
    /\ UNCHANGED <<chainVars, sessions, with, top, left, right, number,
                   hashesVars, blocksVars, processVars, netVars, channels>>

\* The second result ends the synchronisation.  err is nil unless the first
\* result was an error, so only then the deferred function cancels (again).
LastResult ==
    /\ main \in {"last", "drain"} /\ errc # <<>>
    /\ errc' = Tail(errc)
    /\ main' = "idle"
    /\ IF main = "drain" THEN Cancel ELSE UNCHANGED <<closed, queueVars>>
    /\ UNCHANGED <<chainVars, sessions, with, top, left, right, number,
                   hashesVars, blocksVars, processVars, netVars, channels>>

-----------------------------------------------------------------------------
(* fetchHashes.                                                            *)

HashesReturn(ok) == hpc' = "off" /\ errc' = Append(errc, ok)

\* The channel is closed, or the time for an answer is over.
HashesGiveUp ==
    /\ hpc = "wait"
    /\ \/ closed /\ UNCHANGED faults
       \/ TimedOut({with}, "hashes")
    /\ HashesReturn(FALSE)
    /\ UNCHANGED <<held, peers, mainVars, from, blocksVars, queueVars,
                   processVars, netVars, channels>>

\* Insert, and the news of it to fetchBlocks unless there is older news
InsertHashes(hashes) ==
    LET fresh == Range(hashes) \ hashPool IN
    /\ hashPool' = hashPool \cup fresh
    /\ waiting'  = waiting \cup fresh
    /\ IF Cardinality(fresh) = Len(hashes)
       THEN /\ processCh' = IF Room(processCh) THEN Append(processCh, TRUE) ELSE processCh
            /\ from' = from + Len(hashes)
            /\ wire' = AskedHashes(with, from', MaxHashesFetch)
            /\ UNCHANGED <<hpc, errc>>
       ELSE HashesReturn(FALSE) /\ UNCHANGED <<processCh, from, wire>>
    /\ UNCHANGED <<mainVars, blocksVars, pending, cache, offset, ignored>>

HashesPack ==
    LET hashes == Head(hashPackCh).hashes IN
    /\ hpc = "wait" /\ hashPackCh # <<>>
    /\ hashPackCh' = Tail(hashPackCh)
    /\ \/ StrangePack
       \/ /\ Head(hashPackCh).peer = with
          /\ \/ /\ hashes = <<>>
                /\ hpc' = "tell"
                /\ UNCHANGED <<mainVars, errc, from, blocksVars, queueVars, wire,
                               processCh>>
             \/ hashes # <<>> /\ InsertHashes(hashes)
    /\ UNCHANGED <<chainVars, processVars, handler, blockPackCh>>

\* The end of the hashes goes to fetchBlocks; the send waits for the buffer to
\* be free and for nothing else.
TellFinished ==
    /\ hpc = "tell" /\ Room(processCh)
    /\ processCh' = Append(processCh, FALSE)
    /\ HashesReturn(TRUE)
    /\ UNCHANGED <<chainVars, mainVars, from, blocksVars, queueVars,
                   processVars, netVars, hashPackCh, blockPackCh>>

-----------------------------------------------------------------------------
(* fetchBlocks.                                                            *)

BlocksReturn(ok) == bpc' = "off" /\ errc' = Append(errc, ok)

NothingPending(requests) == \A p \in Peer : requests[p] = {}

Prepare ==
    /\ bpc = "prepare"
    /\ bpc' = "select"
    /\ offset' = IF offset < number + 1 THEN number + 1 ELSE offset
    /\ UNCHANGED <<chainVars, mainVars, errc, hashesVars, finished, visiting,
                   unsent, hashPool, waiting, pending, cache, ignored,
                   processVars, netVars, channels>>

BlocksCancelled ==
    /\ bpc = "select" /\ closed
    /\ BlocksReturn(FALSE)
    /\ UNCHANGED <<chainVars, mainVars, hashesVars, finished, visiting, unsent,
                   queueVars, processVars, netVars, channels>>

\* Deliver.  A requested block below the offset ends its loop: what was not
\* stored before it is gone.
Deliver(p, blocks) ==
    LET got == blocks \cap pending[p]
        low == {b \in got : Height(b) < offset}
    IN
    IF pending[p] = {} THEN UNCHANGED queueVars
    ELSE \E stored \in SUBSET (got \ low) :
           /\ low = {} => stored = got
           /\ pending' = [pending EXCEPT ![p] = {}]
           /\ hashPool' = hashPool \ stored
           /\ cache' = {c \in cache : \A b \in stored : Height(c.block) # Height(b)}
                          \cup {[block |-> b, origin |-> p] : b \in stored}
           /\ waiting' = IF low = {} THEN waiting \cup (pending[p] \ stored) ELSE waiting
           /\ ignored' = IF blocks = {} THEN [ignored EXCEPT ![p] = @ \cup pending[p]]
                                        ELSE ignored
           /\ UNCHANGED offset

BlocksPack ==
    LET pack == Head(blockPackCh) IN
    /\ bpc = "select" /\ blockPackCh # <<>>
    /\ procs < MaxProcs
    /\ blockPackCh' = Tail(blockPackCh)
    /\ IF pack.peer \in peers
       THEN Deliver(pack.peer, pack.blocks) /\ procs' = procs + 1
       ELSE UNCHANGED <<queueVars, procs>>
    /\ UNCHANGED <<chainVars, mainVars, errc, hashesVars, blocksVars, batch,
                   netVars, hashPackCh, processCh>>

News ==
    /\ bpc = "select" /\ processCh # <<>>
    /\ processCh' = Tail(processCh)
    /\ finished' = (finished \/ ~Head(processCh))
    /\ UNCHANGED <<chainVars, mainVars, errc, hashesVars, bpc, visiting, unsent,
                   queueVars, processVars, netVars, hashPackCh, blockPackCh>>

\* The peers whose request will get no answer
Overdue == {p \in Peer : pending[p] # {} /\ ~Coming(p, "blocks")}

\* Slip: what is on its way is forgotten.
DownloadOverSlip(hashes, requests) == hashes = {} /\ finished

DownloadOver(hashes, requests) == hashes = {} /\ NothingPending(requests) /\ finished

\* The update case, which the ticker makes ready again and again, up to the
\* loop over the peers: the requests of expired are given back, and the
\* download is over when nothing waits, nothing is pending and no hashes come.
Update(expired) ==
    LET stillPending == [p \in Peer |-> IF p \in expired THEN {} ELSE pending[p]]
        nowWaiting   == waiting \cup UNION {pending[p] : p \in expired}
    IN
    /\ bpc = "select"
    /\ IF peers = {}
       THEN /\ BlocksReturn(FALSE)
            /\ UNCHANGED <<faults, visiting, waiting, pending>>
       ELSE /\ TimedOut(expired, "blocks")
            /\ waiting' = nowWaiting
            /\ pending' = stillPending
            /\ \/ nowWaiting # {} /\ bpc' = "visit" /\ visiting' = peers /\ UNCHANGED errc
               \/ DownloadOver(nowWaiting, stillPending) /\ BlocksReturn(TRUE) /\ UNCHANGED visiting
    /\ UNCHANGED <<held, peers, mainVars, hashesVars, finished, unsent, hashPool,
                   cache, offset, ignored, processVars, netVars, channels>>

\* Reserve for the next peer of the loop
Reserve(p) ==
    LET free  == waiting \ ignored[p]
        count == IF Cardinality(free) < ReserveCount THEN Cardinality(free) ELSE ReserveCount
    IN
    /\ bpc = "visit" /\ unsent = NoRequest /\ p \in visiting
    /\ visiting' = visiting \ {p}
    /\ IF pending[p] # {} \/ free = {} THEN UNCHANGED <<waiting, pending, unsent>>
       ELSE \E send \in SUBSET free :
              /\ Cardinality(send) = count
              /\ waiting' = waiting \ send
              /\ pending' = [pending EXCEPT ![p] = send]
              /\ unsent' = [peer |-> p, hashes |-> send]
    /\ UNCHANGED <<chainVars, mainVars, errc, hashesVars, bpc, finished,
                   hashPool, cache, offset, ignored, processVars, netVars, channels>>

\* sendFetchRequest, which handleGetBlocks of the peer answers with the blocks
\* before the first one it does not have
SendRequest ==
    LET p == unsent.peer IN
    /\ unsent # NoRequest /\ p \in peers
    /\ \E blocks \in SUBSET (unsent.hashes \cap ChainOf(p)) :
          /\ unsent.hashes \subseteq ChainOf(p) => blocks = unsent.hashes
          /\ wire' = Asked(p, BlockPack(p, blocks))
    /\ unsent' = NoRequest
    /\ UNCHANGED <<chainVars, mainVars, errc, hashesVars, bpc, finished, visiting,
                   queueVars, processVars, handler, channels>>

\* sendFetchRequest fails, and the queue's Cancel takes the request back.
CancelRequest ==
    /\ unsent # NoRequest
    /\ IF unsent.peer \in peers THEN Fault("send") ELSE UNCHANGED faults
    /\ waiting' = waiting \cup unsent.hashes
    /\ pending' = [pending EXCEPT ![unsent.peer] = {}]
    /\ unsent' = NoRequest
    /\ UNCHANGED <<held, peers, mainVars, errc, hashesVars, bpc, finished, visiting,
                   hashPool, cache, offset, ignored, processVars, netVars, channels>>

\* The end of the loop over the peers
Visited ==
    /\ bpc = "visit" /\ unsent = NoRequest /\ visiting = {}
    /\ IF NothingPending(pending) THEN BlocksReturn(FALSE)
       ELSE bpc' = "select" /\ UNCHANGED errc
    /\ UNCHANGED <<chainVars, mainVars, hashesVars, finished, visiting, unsent,
                   queueVars, processVars, netVars, channels>>

-----------------------------------------------------------------------------
(* processQueue.  The goroutine that has processLock inserts its batch; the *)
(* others wait.                                                            *)

\* TakeBlocks: the blocks at the offset and above, up to the first gap
TakeBlocks ==
    /\ procs > 0 /\ batch = <<>>
    /\ procs' = procs - 1
    /\ \E n \in 0 .. Cardinality(cache) :
          /\ \A c \in cache : Height(c.block) # offset + n
          /\ \E taken \in [1 .. n -> cache] :
                /\ \A i \in 1 .. n : Height(taken[i].block) = offset + i - 1
                /\ batch' = taken
                /\ cache' = cache \ Range(taken)
          /\ offset' = offset + n
    /\ UNCHANGED <<chainVars, mainVars, errc, hashesVars, blocksVars, hashPool,
                   waiting, pending, ignored, netVars, channels>>

\* InsertChain of the next block; that it is ignored, or an orphan, is no error.
InsertChain ==
    /\ batch # <<>>
    /\ held' = held \cup {Head(batch).block}
    /\ batch' = Tail(batch)
    /\ UNCHANGED <<peers, faults, mainVars, errc, hashesVars, blocksVars,
                   queueVars, procs, netVars, channels>>

\* InsertChain refuses the block: the synchronisation of the moment is
\* cancelled and the peer that sent the block dropped.
InsertFails ==
    LET origin == Head(batch).origin IN
    /\ batch # <<>>
    /\ Fault("insert")
    /\ Cancel
    /\ peers' = peers \ {origin}
    /\ wire' = [wire EXCEPT ![origin] = <<>>]
    /\ batch' = <<>>
    /\ UNCHANGED <<held, sessions, main, with, top, left, right, number, errc,
                   hashesVars, blocksVars, procs, handler, channels>>

-----------------------------------------------------------------------------
(* The peers' handlers: handleHashes and handleBlocks.                     *)

\* The handler looks at the channel of the synchronisation of the moment,
\* whichever one the answer belongs to ...
Handle(p) ==
    /\ p \in peers /\ handler[p] = NoPack /\ wire[p] # <<>>
    /\ wire' = [wire EXCEPT ![p] = Tail(@)]
    /\ handler' = IF closed THEN handler ELSE [handler EXCEPT ![p] = Head(wire[p])]
    /\ UNCHANGED <<chainVars, mainVars, errc, hashesVars, blocksVars, queueVars,
                   processVars, channels>>

\* ... and then waits for room in the pack's channel.
Deposit(p) ==
    LET pack == handler[p] IN
    /\ pack # NoPack
    /\ handler' = [handler EXCEPT ![p] = NoPack]
    /\ \/ /\ pack.kind = "hashes" /\ Room(hashPackCh)
          /\ hashPackCh' = Append(hashPackCh, pack) /\ UNCHANGED blockPackCh
       \/ /\ pack.kind = "blocks" /\ Room(blockPackCh)
          /\ blockPackCh' = Append(blockPackCh, pack) /\ UNCHANGED hashPackCh
    /\ UNCHANGED <<chainVars, mainVars, errc, hashesVars, blocksVars, queueVars,
                   processVars, wire, processCh>>

\* A peer does not answer a request.
LoseAnswer(p) ==
    /\ wire[p] # <<>>
    /\ Fault("lost")
    /\ wire' = [wire EXCEPT ![p] = Tail(@)]
    /\ UNCHANGED <<held, peers, mainVars, errc, hashesVars, blocksVars, queueVars,
                   processVars, handler, channels>>

\* The connection to p breaks, and handlePeer drops the peer ...
Disconnect(p) ==
    /\ p \in peers /\ handler[p] = NoPack
    /\ Fault("drop")
    /\ peers' = peers \ {p}
    /\ wire' = [wire EXCEPT ![p] = <<>>]
    /\ UNCHANGED <<held, mainVars, errc, hashesVars, blocksVars, queueVars,
                   processVars, handler, channels>>

\* ... and a new one is made.
Connect(p) ==
    /\ p \notin peers /\ handler[p] = NoPack
    /\ peers' = peers \cup {p}
    /\ UNCHANGED <<held, faults, mainVars, errc, hashesVars, blocksVars, queueVars,
                   processVars, netVars, channels>>

-----------------------------------------------------------------------------
Main == AncestorPack \/ SearchPack \/ AncestorGivesUp \/ FirstResult \/ LastResult

FetchHashes == HashesGiveUp \/ HashesPack \/ TellFinished

VisitPeers ==
    \/ \E p \in Peer : Reserve(p)
    \/ SendRequest
    \/ CancelRequest
    \/ Visited

FetchBlocks ==
    \/ Prepare
    \/ BlocksCancelled
    \/ BlocksPack
    \/ News
    \/ \E expired \in SUBSET {p \in Peer : pending[p] # {}} : Update(expired)
    \/ VisitPeers

ProcessQueue == TakeBlocks \/ InsertChain

Environment ==
    \/ InsertFails
    \/ \E p \in Peer : LoseAnswer(p) \/ Disconnect(p) \/ Connect(p)

Next ==
    \/ \E p \in Peer : Synchronise(p)
    \/ Main
    \/ FetchHashes
    \/ FetchBlocks
    \/ ProcessQueue
    \/ \E p \in Peer : Handle(p) \/ Deposit(p)
    \/ Environment

Spec == Init /\ [][Next]_vars

\* Every goroutine that can go on does so.  Weak fairness is the scheduler's;
\* fetchBlocks returns to its select statement again and again, where select
\* chooses at random among the ready cases and the ticker readies the update
\* case, hence strong fairness for these.  Timers are steps of their goroutine.
\* Nothing obliges the environment to do anything.
Fairness ==
    /\ WF_vars(Main)
    /\ WF_vars(FetchHashes)
    /\ WF_vars(Prepare)
    /\ WF_vars(VisitPeers)
    /\ SF_vars(BlocksCancelled \/ BlocksPack \/ News)
    /\ SF_vars(Update(Overdue))
    /\ WF_vars(ProcessQueue)
    /\ WF_vars(\E p \in Peer : Handle(p) \/ Deposit(p))

FairSpec == Spec /\ Fairness

-----------------------------------------------------------------------------
Stages == {"idle", "ancestor", "search", "fetch", "last", "drain"}

\* The state has the shape the declarations give it: no channel holds more
\* than its buffer, and findAncestor's heights stay natural numbers.
TypeOK ==
    /\ held \subseteq Block /\ peers \subseteq Peer
    /\ main \in Stages /\ with \in Peer \cup {NoPeer}
    /\ sessions \in 0 .. MaxSessions /\ faults \in 0 .. MaxFaults
    /\ top \in Nat /\ left \in Nat /\ right \in Nat /\ number \in Nat /\ from \in Nat
    /\ closed \in BOOLEAN /\ finished \in BOOLEAN
    /\ errc \in Seq(BOOLEAN) /\ Len(errc) <= 2
    /\ hpc \in {"off", "wait", "tell"} /\ bpc \in {"off", "prepare", "select", "visit"}
    /\ visiting \subseteq Peer
    /\ unsent \in [peer : Peer, hashes : SUBSET Block] \cup {NoRequest}
    /\ Len(hashPackCh) <= 1 /\ Len(blockPackCh) <= 1 /\ Len(processCh) <= 1
    /\ hashPool \subseteq Block /\ waiting \subseteq Block /\ offset \in Nat
    /\ pending \in [Peer -> SUBSET Block] /\ ignored \in [Peer -> SUBSET Block]
    /\ cache \subseteq [block : Block, origin : Peer]
    /\ procs \in 0 .. MaxProcs /\ batch \in Seq([block : Block, origin : Peer])

\* No fetcher outlives its synchronisation: when synchronise has returned and
\* the next one may begin, both have ended and their results were read, so two
\* synchronisations never work on the queue at the same time.
FetchersEnded == main = "idle" => hpc = "off" /\ bpc = "off" /\ errc = <<>>

\* findAncestor returns the height of a block of the peer that we have.  It
\* does as long as answers come before the timeouts; an answer to an earlier
\* request is taken for the answer to the current one.
AncestorIsCommon ==
    main \in {"fetch", "last", "drain"} => TheirBlock(number) \in Known

\* When its answers are in time, the block above the one findAncestor returned
\* is unknown, or so near the head that the first request leaves it out: neither
\* the first request nor the binary search misses common blocks, which would
\* then be downloaded again.
AncestorFound == main \in {"ancestor", "search"} /\ main' = "fetch"

AncestorIsHighest ==
    [][(AncestorFound /\ number' + 1 < top) => TheirBlock(number' + 1) \notin Known]_vars

\* processQueue inserts blocks whose parent is there: across cancellations,
\* late processQueue goroutines and the next synchronisation, nothing is
\* inserted out of order.  The genesis block has no parent.
BlocksConnect ==
    batch # <<>> => LET b == Head(batch).block
                    IN  Height(b) > 0 => Parent(b) \in Known

\* The one place where a synchronisation can stay for ever: fetchHashes has to
\* tell a fetchBlocks that has returned, and old news is in the way.
WaitsForReader == hpc = "tell" /\ processCh # <<>> /\ bpc = "off"

\* Every synchronisation comes to its end, or to that place: whatever is lost
\* or late, no other channel operation, lock or wait for a fetcher blocks.
EndsOrWaitsForReader == (main # "idle") ~> (main = "idle" \/ WaitsForReader)

\* As long as peers answer, a synchronisation brings all blocks of its peer's
\* chain, also when it asks other peers for some that these do not have, unless
\* the next one begins, and resets the queue, before processQueue, for which
\* nobody waits, has taken the last of them.
CatchesUp ==
    \A p \in Peer :
        (main = "fetch" /\ with = p) ~>
            (TheirBlock(PeerHeight[p]) \in Known \/ faults > 0 \/ main = "ancestor")
=============================================================================
