----------------------------- MODULE SyncQueue -----------------------------
(***************************************************************************)
(* The download queue of the block synchroniser (backend/queue.go), driven *)
(* as backend/syncmgr.go drives it.                                        *)
(*                                                                         *)
(* Three goroutines share the queue, each method being one critical        *)
(* section under its lock:                                                 *)
(*   fetchHashes   Insert                                                  *)
(*   fetchBlocks   Prepare, then Reserve, Cancel, Expire and Deliver       *)
(*   processQueue  TakeBlocks                                              *)
(* and synchronise() and cancel() call Reset.                              *)
(*                                                                         *)
(* A hash stands for the block it identifies: HeaderHash() is computed     *)
(* from the header, so the height of a block is a function of its hash.    *)
(* The index kept in hashPool is only logged and the height kept in        *)
(* blockPool is never read, so both maps are sets of hashes here.          *)
(* A request of pendPool is its map "hash -> priority", a set of pairs;    *)
(* no request is ever stored empty, so {} says "no entry for this peer".   *)
(* hashQueue is a set of such pairs too: only after a cancellation can a   *)
(* pair be pushed twice, and it is then kept once.                         *)
(***************************************************************************)
EXTENDS Integers, Sequences, FiniteSets

CONSTANTS
    Hash,          \* hashes of blocks a peer may talk about
    Peer,          \* peers blocks are fetched from
    Height,        \* [Hash -> Nat], the height of each block
    CacheLimit,    \* blockCacheLimit, the slots of blockCache
    ReserveCount,  \* the count fetchBlocks passes to Reserve (20)
    MaxCounter,    \* bound on hashCounter and on the hashes of one synchronisation
    Starts,        \* the heights a synchronisation may start from
    HashLists,     \* the answers to a request for hashes
    BlockLists,    \* the answers to a request for blocks
    NoBlock,       \* nil in blockCache
    NoPeer         \* no request is between Reserve and its transmission

ASSUME SyncQueueAssumption ==
    /\ IsFiniteSet(Hash) /\ IsFiniteSet(Peer)
    /\ Height \in [Hash -> Nat]
    /\ CacheLimit \in Nat \ {0}
    /\ ReserveCount \in Nat \ {0}
    /\ MaxCounter \in Nat
    /\ Starts \subseteq Nat
    /\ \A hs \in HashLists : hs \in Seq(Hash)
    /\ \A bs \in BlockLists : bs \in Seq(Hash)
    /\ NoBlock \notin Hash
    /\ NoPeer \notin Peer

VARIABLES
    hashCounter,   \* hashes inserted since the last Reset
    hashPool,      \* hashes scheduled and not yet delivered
    hashQueue,     \* <<hash, priority>> waiting to be requested
    pendPool,      \* [Peer -> the pairs requested from the peer]
    blockPool,     \* hashes delivered and not yet taken
    blockCache,    \* [slot -> hash of the delivered block or NoBlock]
    blockOffset,   \* height of slot 0
    ignoreHashes,  \* [Peer -> hashes the peer could not deliver]
    start,         \* height the synchronisation started from
    from,          \* next height fetchHashes asks for
    hashing,       \* fetchHashes is running
    prepared,      \* fetchBlocks has called Prepare
    cancelled,     \* cancel() was called in this synchronisation
    unsent,        \* peer whose request is reserved but not yet sent
    request,       \* that request's own map, which outlives a Reset
    feed           \* blocks handed to InsertChain since the last Reset

poolVars    == <<hashCounter, hashPool, hashQueue, pendPool>>
cacheVars   == <<blockPool, blockCache, blockOffset, feed>>
sessionVars == <<start, from, hashing, prepared, cancelled>>
sendVars    == <<unsent, request>>
vars == <<poolVars, cacheVars, sessionVars, ignoreHashes, sendVars>>

Slots    == 0 .. CacheLimit - 1
Priority == -MaxCounter .. -1
Entry    == Hash \X Priority
HashesOf(entries) == {e[1] : e \in entries}

-----------------------------------------------------------------------------
(* Synchronisation start and cancellation.                                 *)

EmptyQueue ==
    /\ hashCounter = 0
    /\ hashPool    = {}
    /\ hashQueue   = {}
    /\ pendPool    = [p \in Peer |-> {}]
    /\ blockPool   = {}
    /\ blockCache  = [k \in Slots |-> NoBlock]
    /\ blockOffset = 0
    /\ feed        = <<>>

\* newSyncQueue, and a synchronisation about to start at some height
Init ==
    /\ EmptyQueue
    /\ ignoreHashes = [p \in Peer |-> {}]
    /\ start \in Starts
    /\ from = start
    /\ hashing   = TRUE
    /\ prepared  = FALSE
    /\ cancelled = FALSE
    /\ unsent    = NoPeer
    /\ request   = {}

\* Reset empties every collection and rewinds the counters.
Reset ==
    /\ hashCounter' = 0
    /\ hashPool'    = {}
    /\ hashQueue'   = {}
    /\ pendPool'    = [p \in Peer |-> {}]
    /\ blockPool'   = {}
    /\ blockCache'  = [k \in Slots |-> NoBlock]
    /\ blockOffset' = 0
    /\ feed'        = <<>>

\* synchronise: the queue and the peers' ignore sets are reset and, the
\* ancestor being known, fetchHashes and fetchBlocks start above it, at n.
\* The fetchers of the synchronisation before have returned.
Start(n) ==
    /\ unsent = NoPeer
    /\ Reset
    /\ ignoreHashes' = [p \in Peer |-> {}]
    /\ start'     = n
    /\ from'      = n
    /\ hashing'   = TRUE
    /\ prepared'  = FALSE
    /\ cancelled' = FALSE
    /\ UNCHANGED sendVars

\* cancel: the queue is reset under the feet of the two fetchers, which may
\* still take steps before they notice the closed channel; a processQueue
\* whose block is refused calls it while fetchBlocks is sending a request.
CancelSync ==
    /\ Reset
    /\ cancelled' = TRUE
    /\ UNCHANGED <<ignoreHashes, start, from, hashing, prepared, sendVars>>

\* Prepare, called once when fetchBlocks starts, before it delivers
\* anything to the cache.
Prepare(offset) ==
    /\ ~prepared
    /\ prepared' = TRUE
    /\ blockOffset' = IF blockOffset < offset THEN offset ELSE blockOffset
    /\ UNCHANGED <<poolVars, blockPool, blockCache, feed, ignoreHashes, start,
                   from, hashing, cancelled, sendVars>>

-----------------------------------------------------------------------------
(* fetchHashes.                                                            *)

\* The positions of hs whose hash is not scheduled yet, once each.
FreshPositions(hs) ==
    {i \in DOMAIN hs : /\ hs[i] \notin hashPool
                       /\ \A j \in 1 .. i - 1 : hs[j] # hs[i]}

\* The entry pushed for the fresh position i: the counter after i's increment.
NewEntry(hs, i) ==
    <<hs[i], -(hashCounter + Cardinality({j \in FreshPositions(hs) : j <= i}))>>

\* Insert, and what fetchHashes does with its result: an empty answer ends
\* the hash download, a list with a known hash fails it (errBadPeer), any
\* other list moves on to the next request.
Insert(hs) ==
    LET fresh == FreshPositions(hs) IN
    /\ hashing
    /\ hashCounter + Cardinality(fresh) <= MaxCounter
    /\ from + Len(hs) <= start + MaxCounter
    /\ hashCounter' = hashCounter + Cardinality(fresh)
    /\ hashPool'  = hashPool \cup {hs[i] : i \in fresh}
    /\ hashQueue' = hashQueue \cup {NewEntry(hs, i) : i \in fresh}
    /\ hashing'   = (hs # <<>> /\ fresh = DOMAIN hs)
    /\ from'      = IF fresh = DOMAIN hs THEN from + Len(hs) ELSE from
    /\ UNCHANGED <<pendPool, cacheVars, start, prepared, cancelled,
                   ignoreHashes, sendVars>>

-----------------------------------------------------------------------------
(* fetchBlocks.                                                            *)

\* len(request.hashes) summed over the requests, as the set of its summands
InFlight == {x \in Peer \X Entry : x[2] \in pendPool[x[1]]}

\* Slip: the blocks that are on their way are not counted.
SpaceSlip == CacheLimit - Cardinality(blockPool)

Space == CacheLimit - Cardinality(blockPool) - Cardinality(InFlight)

\* Slip: one slot is held back.
ThrottleSlip == Cardinality(InFlight) + 1 >= CacheLimit - Cardinality(blockPool)

Throttle == Cardinality(InFlight) >= CacheLimit - Cardinality(blockPool)

\* The maps send and skip of Reserve, made from the entries it popped: the
\* last one popped of a hash counts, and p's ignored hashes are skipped.
LastPopped(popped) == {e \in popped : \A f \in popped : f[1] = e[1] => e[2] <= f[2]}

SendOf(p, popped) == {e \in LastPopped(popped) : e[1] \notin ignoreHashes[p]}

SkipOf(p, popped) == LastPopped(popped) \ SendOf(p, popped)

\* Slip: only the length of the request is limited.
LoopGoesOnSlip(p, popped) == Cardinality(SendOf(p, popped)) < ReserveCount

\* The loop of Reserve: popped is what it has popped, highest priority first,
\* when its condition first fails.
LoopGoesOn(p, popped) ==
    Cardinality(popped) < Space /\ Cardinality(SendOf(p, popped)) < ReserveCount

PoppedBy(p, popped) ==
    /\ \A e \in popped, f \in hashQueue \ popped : e[2] > f[2]
    /\ \/ popped = {}
       \/ \E last \in popped : /\ \A e \in popped : e[2] >= last[2]
                               /\ LoopGoesOn(p, popped \ {last})
    /\ popped = hashQueue \/ ~LoopGoesOn(p, popped)

\* Reserve; there is no request when every popped hash was skipped.
Reserve(p) ==
    /\ prepared /\ unsent = NoPeer
    /\ ~Throttle
    /\ hashQueue # {}
    /\ pendPool[p] = {}
    /\ \E popped \in SUBSET hashQueue :
          /\ PoppedBy(p, popped)
          /\ hashQueue' = (hashQueue \ popped) \cup SkipOf(p, popped)
          /\ pendPool'  = [pendPool EXCEPT ![p] = SendOf(p, popped)]
          /\ request'   = SendOf(p, popped)
    /\ unsent' = IF request' = {} THEN NoPeer ELSE p
    /\ UNCHANGED <<hashCounter, hashPool, cacheVars, sessionVars, ignoreHashes>>

\* sendFetchRequest succeeded
Sent ==
    /\ unsent # NoPeer
    /\ unsent' = NoPeer /\ request' = {}
    /\ UNCHANGED <<poolVars, cacheVars, sessionVars, ignoreHashes>>

\* sendFetchRequest failed: Cancel gives the request back to the queue, also
\* to one that was reset in the meantime
Cancel ==
    /\ unsent # NoPeer
    /\ hashQueue' = hashQueue \cup request
    /\ pendPool'  = [pendPool EXCEPT ![unsent] = {}]
    /\ unsent' = NoPeer /\ request' = {}
    /\ UNCHANGED <<hashCounter, hashPool, cacheVars, sessionVars, ignoreHashes>>

\* Slip: an expired request stays pending.
ExpireSlip(expired) ==
    /\ prepared /\ unsent = NoPeer
    /\ hashQueue' = hashQueue \cup UNION {pendPool[p] : p \in expired}
    /\ UNCHANGED <<hashCounter, hashPool, pendPool, cacheVars, sessionVars,
                   ignoreHashes, sendVars>>

\* Expire, for any set of requests whose time has run out
Expire(expired) ==
    /\ prepared /\ unsent = NoPeer
    /\ hashQueue' = hashQueue \cup UNION {pendPool[p] : p \in expired}
    /\ pendPool'  = [p \in Peer |-> IF p \in expired THEN {} ELSE pendPool[p]]
    /\ UNCHANGED <<hashCounter, hashPool, cacheVars, sessionVars, ignoreHashes,
                   sendVars>>

\* Slip: off by one.
IndexSlip(h) == Height[h] - blockOffset - 1

Index(h) == Height[h] - blockOffset

\* The positions of bs that name a block still requested when the loop of
\* Deliver reaches them: a repeated block is no longer requested.
RequestedPositions(p, bs) ==
    {i \in DOMAIN bs : /\ bs[i] \in HashesOf(pendPool[p])
                       /\ \A j \in 1 .. i - 1 : bs[j] # bs[i]}

\* The loop stops at the first requested block without a slot (errInvalidChain).
BadPositions(p, bs) ==
    {i \in RequestedPositions(p, bs) : Index(bs[i]) \notin Slots}

StoredPositions(p, bs) ==
    {i \in RequestedPositions(p, bs) : \A b \in BadPositions(p, bs) : i < b}

\* The cache after the loop; of two blocks for one slot the later one stays.
CacheAfter(stored, bs) ==
    [k \in Slots |->
        LET Last(i) == /\ Index(bs[i]) = k
                       /\ \A j \in stored : Index(bs[j]) = k => j <= i
        IN  IF \E i \in stored : Last(i)
            THEN bs[CHOOSE i \in stored : Last(i)] ELSE blockCache[k]]

\* Slip: what the peer did not send is not asked for again.
GiveBackSlip(p, bs, got) == {}

\* What Deliver returns to the hash queue: what it did not store, unless it
\* left its loop early.
GiveBack(p, bs, got) ==
    IF BadPositions(p, bs) = {}
    THEN {e \in pendPool[p] : e[1] \notin got} ELSE {}

\* Slip: every hash of the request leaves hashPool, delivered or not.
DeliverSlip(p, bs) ==
    LET stored == StoredPositions(p, bs)
        got    == {bs[i] : i \in stored}
    IN
    /\ prepared /\ unsent = NoPeer
    /\ pendPool[p] # {}
    /\ pendPool'   = [pendPool EXCEPT ![p] = {}]
    /\ blockCache' = CacheAfter(stored, bs)
    /\ blockPool'  = blockPool \cup got
    /\ hashPool'   = hashPool \ HashesOf(pendPool[p])
    /\ hashQueue'  = hashQueue \cup GiveBack(p, bs, got)
    /\ UNCHANGED <<hashCounter, blockOffset, feed, sessionVars, ignoreHashes,
                   sendVars>>

\* Deliver for a peer with a request (without one it changes nothing)
Deliver(p, bs) ==
    LET stored == StoredPositions(p, bs)
        got    == {bs[i] : i \in stored}
    IN
    /\ prepared /\ unsent = NoPeer
    /\ pendPool[p] # {}
    /\ pendPool'   = [pendPool EXCEPT ![p] = {}]
    /\ blockCache' = CacheAfter(stored, bs)
    /\ blockPool'  = blockPool \cup got
    /\ hashPool'   = hashPool \ got
    /\ hashQueue'  = hashQueue \cup GiveBack(p, bs, got)
    /\ ignoreHashes' = IF bs = <<>>
                       THEN [ignoreHashes EXCEPT ![p] = @ \cup HashesOf(pendPool[p])]
                       ELSE ignoreHashes
    /\ UNCHANGED <<hashCounter, blockOffset, feed, sessionVars, sendVars>>

-----------------------------------------------------------------------------
(* processQueue.                                                           *)

\* Slip: the freed end of the cache is not refilled.
ShiftedSlip(n) == [k \in 0 .. CacheLimit - n - 1 |-> blockCache[k + n]]

\* The cache moved down by the n blocks taken from its front
Shifted(n) ==
    [k \in Slots |-> IF k + n < CacheLimit THEN blockCache[k + n] ELSE NoBlock]

\* TakeBlocks: the blocks before the first empty slot go to InsertChain.
TakeBlocks ==
    /\ \E n \in 1 .. CacheLimit :
          /\ \A k \in 0 .. n - 1 : blockCache[k] # NoBlock
          /\ n < CacheLimit => blockCache[n] = NoBlock
          /\ blockPool'   = blockPool \ {blockCache[k] : k \in 0 .. n - 1}
          /\ blockCache'  = Shifted(n)
          /\ blockOffset' = blockOffset + n
          /\ feed' = feed \o [i \in 1 .. n |-> blockCache[i - 1]]
    /\ UNCHANGED <<poolVars, sessionVars, ignoreHashes, sendVars>>

-----------------------------------------------------------------------------
(* fetchHashes asks its peer for the hashes from height from upwards.       *)
(* Contiguous says the answer is what was asked for; the code checks       *)
(* nothing of the kind, so Next takes any answer and HonestNext only these. *)
Contiguous(hs) == \A i \in DOMAIN hs : Height[hs[i]] = from + i - 1

Session == (\E n \in Starts : Start(n)) \/ CancelSync

Fetch ==
    \/ Prepare(start)
    \/ \E p \in Peer : Reserve(p)
    \/ Sent
    \/ Cancel
    \/ \E expired \in SUBSET {p \in Peer : pendPool[p] # {}} : Expire(expired)
    \/ \E p \in Peer, bs \in BlockLists : Deliver(p, bs)
    \/ TakeBlocks

AnyInsert    == \E hs \in HashLists : Insert(hs)
HonestInsert == \E hs \in HashLists : Contiguous(hs) /\ Insert(hs)

Next       == Session \/ Fetch \/ AnyInsert
HonestNext == Session \/ Fetch \/ HonestInsert

Spec       == Init /\ [][Next]_vars
HonestSpec == Init /\ [][HonestNext]_vars

-----------------------------------------------------------------------------
(* Properties.                                                             *)

TypeOK ==
    /\ hashCounter \in 0 .. MaxCounter
    /\ hashPool \in SUBSET Hash
    /\ hashQueue \in SUBSET Entry
    /\ pendPool \in [Peer -> SUBSET Entry]
    /\ blockPool \in SUBSET Hash
    /\ blockCache \in [Slots -> Hash \cup {NoBlock}]
    /\ blockOffset \in Nat
    /\ ignoreHashes \in [Peer -> SUBSET Hash]
    /\ start \in Nat
    /\ from \in Nat
    /\ hashing \in BOOLEAN
    /\ prepared \in BOOLEAN
    /\ cancelled \in BOOLEAN
    /\ unsent \in Peer \cup {NoPeer}
    /\ request \in SUBSET Entry
    /\ feed \in Seq(Hash)

\* While the synchronisation is not cancelled, a hash has at most one owner: it
\* waits in hashQueue once, or it is in the request of one peer, and it is still
\* scheduled.  No sequence of Reserve, Cancel, Expire and late or repeated
\* Deliver calls makes two peers work on one block, pushes a hash back twice or
\* asks again for a block that was delivered.
OneOwner ==
    ~cancelled =>
      /\ \A e, f \in hashQueue : e[1] = f[1] => e = f
      /\ \A x, y \in InFlight : x[2][1] = y[2][1] => x = y
      /\ \A e \in hashQueue, x \in InFlight : e[1] # x[2][1]
      /\ \A e \in hashQueue \cup {x[2] : x \in InFlight} : e[1] \in hashPool

\* Reserve never asks for more blocks than blockCache can still take, however
\* requests, deliveries and takings interleave.
NotOvercommitted ==
    Cardinality(blockPool) + Cardinality(InFlight) <= CacheLimit

\* TakeBlocks hands blocks to InsertChain in the order of their heights and
\* without gaps, whatever order they were delivered in: each one fed is one
\* above the one before, and the next one to come is at blockOffset.
InOrder ==
    \A i \in DOMAIN feed : Height[feed[i]] = blockOffset - Len(feed) + i - 1

\* While a synchronisation with a peer that answers contiguous hashes goes on,
\* every block asked for has a slot in blockCache when it arrives: Deliver
\* never returns errInvalidChain, the early return that forgets the request.
SlotForEveryRequest ==
    ~cancelled => \A x \in InFlight : Index(x[2][1]) \in Slots

\* Under the same condition no scheduled hash is forgotten: what is in
\* hashPool is waiting in hashQueue or in a peer's request.
NothingForgotten ==
    ~cancelled => \A h \in hashPool :
                     \/ \E e \in hashQueue : e[1] = h
                     \/ \E x \in InFlight : x[2][1] = h

\* The queue keeps the promise of BlockFeed: a scheduled hash is one in
\* hashPool or delivered and not taken; Reserve, Cancel, Expire and Deliver
\* only move hashes about and are invisible, except that after a cancellation
\* the block of a request that was reset may still be delivered.
Feed == INSTANCE BlockFeed
        WITH todo <- hashPool \cup blockPool, next <- blockOffset, out <- feed

ImplementsBlockFeed == Feed!Spec

-----------------------------------------------------------------------------
(* Progress.                                                               *)

\* An answer that holds every block asked for
DeliverAll(p, bs) ==
    HashesOf(pendPool[p]) \subseteq {bs[i] : i \in DOMAIN bs} /\ Deliver(p, bs)

\* fetchBlocks runs its loop at every tick, processQueue after every delivery.
\* Of the peers only this is assumed: requests do not fail to be sent for
\* ever, nor are they for ever answered in part or too late.
LiveSpec ==
    /\ HonestSpec
    /\ WF_vars(Prepare(start))
    /\ WF_vars(\E p \in Peer : Reserve(p))
    /\ SF_vars(Sent)
    /\ SF_vars(\E p \in Peer, bs \in BlockLists : DeliverAll(p, bs))
    /\ WF_vars(TakeBlocks)

\* Every scheduled block is eventually handed to InsertChain, unless the
\* synchronisation is cancelled or followed by the next one (whose fetchBlocks
\* is not prepared yet), or some block is found to be missing at every peer:
\* the throttling by free slots never leaves the queue waiting for a block it
\* has no room to ask for.
EveryBlockIsFed ==
    \A h \in Hash :
        h \in hashPool ~> \/ \E i \in DOMAIN feed : feed[i] = h
                          \/ cancelled \/ ~prepared
                          \/ \E g \in Hash : \A p \in Peer : g \in ignoreHashes[p]
=============================================================================
