------------------------------- MODULE TxPool -------------------------------
(***************************************************************************)
(* The transaction pool of transaction_pool.go, with the nonces that       *)
(* ManagedState (manage_state.go) keeps for it.  Every operation holds     *)
(* pool.mu and is one step; the chain's state changes underneath it.       *)
(*                                                                         *)
(* A transaction stands for its hash.  The checks of validateTx that read  *)
(* only the transaction, the balance or a setting refuse a call without    *)
(* any effect, and are left out: Add is not called with such transactions. *)
(***************************************************************************)
EXTENDS Integers, Sequences, Functions, FiniteSets

CONSTANTS
    Tx, Addr,
    From,       \* [Tx -> Addr], the sender
    Nonce,      \* [Tx -> Nat]
    Price,      \* [Tx -> Nat], the gas price
    MaxSize,    \* TxPoolMaxSize
    MaxQueued,  \* maxQueued, per address
    MaxNonce,   \* bound on the nonces of the chain's state
    MaxPriced   \* bound on the length of priced, which the code lets grow

ASSUME TxPoolAssumption ==
    /\ From \in [Tx -> Addr] /\ Nonce \in [Tx -> Nat] /\ Price \in [Tx -> Nat]
    /\ MaxSize \in Nat \ {0} /\ MaxQueued \in Nat /\ MaxNonce \in Nat
    /\ MaxPriced \in Nat
    /\ IsFiniteSet(Tx)

VARIABLES
    stateNonce, \* [Addr -> Nat], the nonces of currentState()
    pendNonce,  \* [Addr -> Nat], the nonces of pendingState
    pending,    \* processable transactions
    queue,      \* waiting transactions of all addresses
    priced,     \* all transactions added, the highest price first
    beats,      \* addresses with a heartbeat within the last Lifetime
    recent,     \* transactions added within the last Lifetime
    taken,      \* transactions a worker of the miner was last given
    settled     \* checkQueue has run since the head last changed

nonces == <<stateNonce, pendNonce>>
vars   == <<nonces, pending, queue, priced, beats, recent, taken, settled>>

Pool == pending \cup queue

Size == Cardinality(pending) + Cardinality(queue)

SmallerOf(m, n) == IF m < n THEN m ELSE n

-----------------------------------------------------------------------------
(* checkQueue, for each address on its own.                                *)

\* What is left of the queue of a when the processed ones are dropped, in
\* every order sort.Sort may give it
SortedQueues(a, q, state) ==
    LET own == {t \in q : From[t] = a /\ Nonce[t] >= state[a]}
    IN  {s \in Bijection(1 .. Cardinality(own), own) :
            \A i, j \in DOMAIN s : i < j => Nonce[s[i]] <= Nonce[s[j]]}

\* Number of transactions not above the guessed nonce, which is read once
ReadyIn(s, guessed) == Cardinality({i \in DOMAIN s : Nonce[s[i]] <= guessed})

\* Number of transactions moved to pending: beyond maxQueued they are deleted.
MovedIn(s, guessed) == SmallerOf(ReadyIn(s, guessed), MaxQueued + 1)

\* Slips: the limit is counted from the beginning of the list; off by one.
KeptInSlipFront(s, guessed) ==
    SubSeq(s, ReadyIn(s, guessed) + 1, SmallerOf(MaxQueued, Len(s)))
KeptInSlipMore(s, guessed) ==
    LET k == ReadyIn(s, guessed) IN SubSeq(s, k + 1, SmallerOf(k + MaxQueued + 1, Len(s)))

\* What stays in the queue: at most maxQueued of the others, and none of them
\* when there are more than maxQueued in front.
KeptIn(s, guessed) ==
    LET k == ReadyIn(s, guessed)
    IN  IF k > MaxQueued THEN <<>> ELSE SubSeq(s, k + 1, SmallerOf(k + MaxQueued, Len(s)))

\* One list for each address
SortedLists(q, state) ==
    {s \in [Addr -> UNION {SortedQueues(a, q, state) : a \in Addr}] :
        \A a \in Addr : s[a] \in SortedQueues(a, q, state)}

\* What checkQueue moves, keeps and does to the pending nonces n: addTx sets
\* them to one above the last transaction moved.
MovedBy(n, s) == UNION {Range(SubSeq(s[a], 1, MovedIn(s[a], n[a]))) : a \in Addr}

KeptBy(n, s) == UNION {Range(KeptIn(s[a], n[a])) : a \in Addr}

NoncesAfter(n, s) ==
    [a \in Addr |-> LET k == MovedIn(s[a], n[a])
                    IN  IF k = 0 THEN n[a] ELSE Nonce[s[a][k]] + 1]

HeartbeatsOf(n, s) == {a \in Addr : MovedIn(s[a], n[a]) > 0}

\* validatePool
Valid(p) == {t \in p : Nonce[t] >= stateNonce[From[t]]}

-----------------------------------------------------------------------------
(* Adding and removing.                                                    *)

\* RemoveTx for every transaction of gone: the pending nonce falls to the
\* lowest of their nonces.
NoncesWithout(gone) ==
    [a \in Addr |->
        LET low == {t \in gone : From[t] = a /\ Nonce[t] < pendNonce[a]}
        IN  IF low = {} THEN pendNonce[a]
            ELSE CHOOSE n \in {Nonce[t] : t \in low} : \A t \in low : n <= Nonce[t]]

\* addPriced: sort.Sort is not stable, so equal prices come in any order
Insertions(list, tx) ==
    {SubSeq(list, 1, i - 1) \o <<tx>> \o SubSeq(list, i, Len(list)) : i \in
        {k \in 1 .. Len(list) + 1 :
            /\ \A j \in 1 .. k - 1 : Price[list[j]] >= Price[tx]
            /\ \A j \in k .. Len(list) : Price[list[j]] <= Price[tx]}}

Full == Size >= MaxSize

\* Slip: plus for minus.
DropSlip == Size + (MaxSize - 1)

\* Number of entries of priced that are dropped to make room
Drop == Size - (MaxSize - 1)

Evicted == IF Full THEN Range(SubSeq(priced, Len(priced) - Drop + 1, Len(priced))) ELSE {}

\* Slip: one entry more is cut off than was removed.
PricedLeftSlip == IF Full THEN SubSeq(priced, 1, Len(priced) - Drop - 1) ELSE priced

PricedLeft == IF Full THEN SubSeq(priced, 1, Len(priced) - Drop) ELSE priced

\* Slip: a transaction that is already processable is taken again.
AcceptedSlip(tx) ==
    /\ Nonce[tx] >= stateNonce[From[tx]]
    /\ Full => Price[tx] > Price[priced[Len(priced)]]

Accepted(tx) ==
    /\ tx \notin pending
    /\ Nonce[tx] >= stateNonce[From[tx]]
    /\ Full => Price[tx] > Price[priced[Len(priced)]]

\* Add: the transaction is queued, then the queue is checked.
Add(tx) ==
    LET q == (queue \ Evicted) \cup {tx}
        n == NoncesWithout(Evicted)
    IN
    /\ Accepted(tx)
    /\ Len(PricedLeft) < MaxPriced
    /\ priced' \in Insertions(PricedLeft, tx)
    /\ \E s \in SortedLists(q, stateNonce) :
          /\ pending'   = (pending \ Evicted) \cup MovedBy(n, s)
          /\ queue'     = KeptBy(n, s)
          /\ pendNonce' = NoncesAfter(n, s)
          /\ beats'     = beats \cup HeartbeatsOf(n, s)
    /\ recent'  = recent \cup {tx}
    /\ settled' = TRUE
    /\ UNCHANGED <<stateNonce, taken>>

\* A worker of the miner takes the processable transactions.
GetPendingTxs ==
    /\ \E s \in SortedLists(queue, stateNonce) :
          /\ pending'   = Valid(pending \cup MovedBy(pendNonce, s))
          /\ queue'     = KeptBy(pendNonce, s)
          /\ pendNonce' = NoncesAfter(pendNonce, s)
          /\ beats'     = beats \cup HeartbeatsOf(pendNonce, s)
    /\ taken'   = pending'
    /\ settled' = TRUE
    /\ UNCHANGED <<stateNonce, priced, recent>>

\* The transactions of gone leave the pool; priced keeps them.
RemoveAll(gone) ==
    /\ pending'   = pending \ gone
    /\ queue'     = queue \ gone
    /\ pendNonce' = NoncesWithout(gone)

\* The worker removes one that could not be applied.
RemoveTransactions(tx) ==
    /\ tx \in taken
    /\ RemoveAll({tx})
    /\ UNCHANGED <<stateNonce, priced, beats, recent, taken, settled>>

\* expirationLoop
Evict ==
    LET old == {t \in queue : From[t] \notin beats} IN
    /\ old # {}
    /\ RemoveAll(old)
    /\ UNCHANGED <<stateNonce, priced, beats, recent, taken, settled>>

\* A Lifetime goes by.
TimePasses ==
    /\ recent # {} \/ beats # {}
    /\ recent' = {} /\ beats' = {}
    /\ UNCHANGED <<nonces, pending, queue, priced, taken, settled>>

\* The chain has a new head.  The pool is not told: ChainHeadEvent does not
\* reach eventLoop (see EventBus), and resetState only runs in NewTxPool.
NewHead ==
    /\ stateNonce' \in [Addr -> 0 .. MaxNonce] /\ stateNonce' # stateNonce
    /\ settled' = FALSE
    /\ UNCHANGED <<pendNonce, pending, queue, priced, beats, recent, taken>>

-----------------------------------------------------------------------------
\* NewTxPool
Init ==
    /\ stateNonce = [a \in Addr |-> 0]
    /\ pendNonce = stateNonce
    /\ pending = {} /\ queue = {} /\ priced = <<>>
    /\ beats = {} /\ recent = {} /\ taken = {} /\ settled = TRUE

Next ==
    \/ \E tx \in Tx : Add(tx) \/ RemoveTransactions(tx)
    \/ GetPendingTxs
    \/ Evict
    \/ TimePasses
    \/ NewHead

Spec == Init /\ [][Next]_vars

\* Nothing but additions, and the miner's reads
AddSpec == Init /\ [][GetPendingTxs \/ \E tx \in Tx : Add(tx)]_vars

-----------------------------------------------------------------------------
(* Properties.                                                             *)

TypeOK ==
    /\ stateNonce \in [Addr -> Nat] /\ pendNonce \in [Addr -> Nat]
    /\ pending \subseteq Tx /\ queue \subseteq Tx /\ taken \subseteq Tx
    /\ priced \in Seq(Tx)
    /\ beats \subseteq Addr /\ recent \subseteq Tx
    /\ settled \in BOOLEAN

\* A transaction is processable or waiting, not both: checkQueue takes it out
\* of queue before addTx puts it in pending, and add refuses one in pending.
Disjoint == pending \cap queue = {}

\* Every transaction of the pool is in the price list, which is what add
\* drops from when the pool is full, although the pool and the list are
\* pruned in different places.
PricedHoldsPool == Pool \subseteq Range(priced)

\* When the pool is full there are enough entries in the price list to drop:
\* the slice expression in add stays inside priced.
RoomToEvict == Full => Drop <= Len(priced)

\* The price list falls, so that the entries at its end are the cheapest.
PricedSorted ==
    \A i, j \in DOMAIN priced : i < j => Price[priced[i]] >= Price[priced[j]]

\* No address has more than maxQueued transactions waiting.
QueueLimited ==
    \A a \in Addr : Cardinality({t \in queue : From[t] = a}) <= MaxQueued

\* A transaction leaves the pool when it is removed or evicted, when it was
\* dropped for a better paid one, when its nonce is used up, and when its
\* sender has maxQueued others waiting or has had more than that moved at
\* once; checkQueue loses no other.
NothingVanishes ==
    [][\/ \A t \in Pool \ (pending' \cup queue') :
             \/ Nonce[t] < stateNonce[From[t]]
             \/ t \in Evicted
             \/ Cardinality({u \in queue' : From[u] = From[t]}) = MaxQueued
             \/ Cardinality({u \in pending' \ pending : From[u] = From[t]}) > MaxQueued
       \/ Evict
       \/ \E tx \in Tx : RemoveTransactions(tx)]_vars

\* The pool keeps within TxPoolMaxSize.
PoolLimited == Size <= MaxSize

\* Once the queue was checked against the head, a transaction that can be
\* applied to the state is among the processable ones.
Processable ==
    settled => \A t \in queue : Nonce[t] # stateNonce[From[t]]

\* While transactions are only added, the pending nonce of an address is above
\* those of its pending transactions: addTx increments it.
PendingNonceAhead == \A t \in pending : Nonce[t] < pendNonce[From[t]]

\* An account whose transaction came in within the last Lifetime is active, so
\* that expirationLoop leaves the transaction alone.
NotEvictedEarly == \A t \in queue \cap recent : From[t] \in beats
=============================================================================
