----------------------------- MODULE ChainStore -----------------------------
(***************************************************************************)
(* The block store of block_chain.go over chaindb.go and extradb.go:       *)
(* insertion of blocks that arrive in any order, the orphan pool, the      *)
(* switch to a higher branch (reorg), and a crash between any two writes.  *)
(*                                                                         *)
(* InsertChain and WriteBlock hold chainmu from beginning to end, so they  *)
(* do not overlap, but they write key by key: writes is what the running   *)
(* operation has still to write, one entry per call of chainDB or extraDB, *)
(* and everything that reads without chainmu sees the states in between.   *)
(***************************************************************************)
EXTENDS Integers, Sequences, Functions, FiniteSets

CONSTANTS
    Block, Genesis,
    Parent,      \* [Block \ {Genesis} -> Block], HashPrevBlock
    Height,      \* [Block -> Nat]
    TxsOf,       \* [Block -> SUBSET Tx]
    Tx,
    BadBlock,    \* blocks whose roots, gas or transactions do not check out
    MaxOrphans,  \* maxOrphanBlocks
    None         \* nil, and an absent key

\* A block is built one above the block its header names as the previous one.
ASSUME ChainAssumption ==
    /\ Genesis \in Block /\ Height \in [Block -> Nat] /\ Height[Genesis] = 0
    /\ Parent \in [Block \ {Genesis} -> Block]
    /\ \A b \in Block \ {Genesis} : Height[b] = Height[Parent[b]] + 1
    /\ TxsOf \in [Block -> SUBSET Tx] /\ TxsOf[Genesis] = {}
    /\ BadBlock \subseteq Block \ {Genesis}
    /\ MaxOrphans \in Nat \ {0}
    /\ None \notin Block

VARIABLES
    \* the databases
    header,      \* blocks with a header under bh:
    canon,       \* bn:, [height -> block or None]
    lastBlock,   \* LastBlock
    body,        \* blocks with their transactions stored
    txIndex,     \* [Tx -> the block the index of tx names, or None]
    txData,      \* transactions stored by their hash
    receipt,     \* [Tx -> the block whose receipt of tx is stored, or None]
    \* memory
    cur,         \* currentBHeader, None when the node is not running
    orphans,     \* the orphan pool in order of arrival
    oldest,      \* oldestOrphan
    miningOn,    \* block the miner's current work extends, or None
    sealed,      \* block the miner has found and not yet written, or None
    \* the running operation
    writes,      \* what it has still to write
    accepting,   \* the block being accepted, or None
    adopt,       \* its orphans are processed afterwards (InsertChain)
    process,     \* processHashes
    orphanFailed \* processOrphans has returned an error since the node started

db     == <<header, canon, lastBlock, body, txIndex, txData, receipt>>
memory == <<cur, orphans, oldest, miningOn, sealed>>
op     == <<writes, accepting, adopt, process, orphanFailed>>
vars   == <<db, memory, op>>

Heights == {Height[b] : b \in Block}

\* chainmu is free
Idle == writes = <<>> /\ accepting = None /\ process = <<>>

\* b and the blocks below it, as their headers name them
Chain[b \in Block] ==
    IF b = Genesis THEN <<b>> ELSE <<b>> \o Chain[Parent[b]]

\* txPreCheck applies a transaction only when its nonce is the sender's, and
\* ApplyTransaction then moves the sender's on, so a block that has a
\* transaction of a block below it is a bad one.
ASSUME NonceAssumption ==
    \A b \in Block : \A i, j \in DOMAIN Chain[b] :
        (i # j /\ \A k \in DOMAIN Chain[b] : Chain[b][k] \notin BadBlock)
            => TxsOf[Chain[b][i]] \cap TxsOf[Chain[b][j]] = {}

-----------------------------------------------------------------------------
(* The writes.                                                             *)

Write(what, b) == [what |-> what, block |-> b, txs |-> TxsOf[b]]

\* The new value of an index over transactions
Indexed(f, txs, value) == [t \in Tx |-> IF t \in txs THEN value ELSE f[t]]

\* WriteBHeader2Chain and the fields set after it
InsertHeader(b) == <<Write("canon", b), Write("last", b)>>

\* WriteTransactions2ExtraDB and WriteReceipts2ExtraDB
StoreBody(b) == <<Write("txs", b), Write("receipts", b)>>

\* what reorg does to a block it takes off the chain
Unlink(b) ==
    <<Write("delReceipts", b), Write("delTxs", b), Write("delHeader", b)>>

\* What a write does to each key.  "delTxs" is DelBlockTransactionsByBHashEx,
\* which deletes the list of transactions and writes, not deletes, the index.
HeaderAfter(w) ==
    CASE w.what = "header"    -> header \cup {w.block}
      [] w.what = "delHeader" -> header \ {w.block}
      [] OTHER                -> header

CanonAfter(w) ==
    IF w.what = "canon" THEN [canon EXCEPT ![Height[w.block]] = w.block] ELSE canon

LastAfter(w) == IF w.what = "last" THEN w.block ELSE lastBlock

CurAfter(w) == IF w.what = "last" THEN w.block ELSE cur

BodyAfter(w) ==
    CASE w.what = "txs"    -> body \cup {w.block}
      [] w.what = "delTxs" -> body \ {w.block}
      [] OTHER             -> body

TxIndexAfter(w) ==
    IF w.what \in {"txs", "delTxs"} THEN Indexed(txIndex, w.txs, w.block) ELSE txIndex

TxDataAfter(w) ==
    CASE w.what \in {"txs", "delTxs"} -> txData \cup w.txs
      [] w.what = "drop"              -> txData \ w.txs
      [] OTHER                        -> txData

ReceiptAfter(w) ==
    CASE w.what = "receipts"    -> Indexed(receipt, w.txs, w.block)
      [] w.what = "delReceipts" -> Indexed(receipt, w.txs, None)
      [] OTHER                  -> receipt

\* Carries out the first of writes.
Perform ==
    LET w == Head(writes) IN
    /\ writes # <<>>
    /\ writes' = Tail(writes)
    /\ header' = HeaderAfter(w) /\ canon' = CanonAfter(w) /\ lastBlock' = LastAfter(w)
    /\ body' = BodyAfter(w) /\ txIndex' = TxIndexAfter(w) /\ txData' = TxDataAfter(w)
    /\ receipt' = ReceiptAfter(w) /\ cur' = CurAfter(w)
    /\ UNCHANGED <<orphans, oldest, miningOn, sealed, accepting, adopt, process, orphanFailed>>

-----------------------------------------------------------------------------
(* reorg and writeBlock.                                                   *)

\* The part of b's chain that starts at the height of head
Level(head, b) == SubSeq(Chain[b], Height[b] - Height[head] + 1, Len(Chain[b]))

\* How far the two chains are walked down in step before they meet
ForkDepth(old, new) ==
    CHOOSE d \in 1 .. Len(old) :
        /\ old[d] = new[d]
        /\ \A i \in 1 .. d - 1 : old[i] # new[i]

\* Both chains are read from the store on the way down; a missing block ends
\* reorg with "invalid old chain" or "invalid new chain" before any write.
ReorgPossible(head, b) ==
    LET old == Chain[head]
        new == Level(head, b)
    IN  \A i \in 2 .. ForkDepth(old, new) : old[i] \in header /\ new[i] \in header

\* The blocks reorg takes off and puts on the chain, from the top down.  The
\* first loop appends newBlock itself for every height above the head.
Gone(head, b) ==
    SubSeq(Chain[head], 1, ForkDepth(Chain[head], Level(head, b)) - 1)

\* Slip: only the new block is linked, not the branch it stands on.
AddedSlip(head, b) == [i \in 1 .. Height[b] - Height[head] |-> b]

Added(head, b) ==
    LET new == Level(head, b)
    IN  [i \in 1 .. Height[b] - Height[head] |-> b]
        \o SubSeq(new, 1, ForkDepth(Chain[head], new) - 1)

\* Slip: every transaction of the old branch is deleted.
TxDifferenceSlip(gone, added) == UNION {TxsOf[c] : c \in Range(gone)}

TxDifference(gone, added) ==
    (UNION {TxsOf[c] : c \in Range(gone)}) \ (UNION {TxsOf[c] : c \in Range(added)})

\* The writes of a loop, one round after the other.  This and RemoveAt are
\* here as in SequencesExt, whose definitions, with those of Bags, would
\* otherwise be a part of every obligation of the proofs and slow them down.
FlattenSeq(seqs) ==
    IF seqs = <<>> THEN <<>>
    ELSE LET upTo[i \in 1 .. Len(seqs)] ==
               IF i = 1 THEN seqs[i] ELSE upTo[i - 1] \o seqs[i]
         IN  upTo[Len(seqs)]

\* The loop that deletes the transactions no block has any more is one write.
ReorgWrites(head, b) ==
    LET gone  == Gone(head, b)
        added == Added(head, b)
    IN  FlattenSeq([i \in DOMAIN gone |-> Unlink(gone[i])])
        \o FlattenSeq([i \in DOMAIN added |-> InsertHeader(added[i]) \o StoreBody(added[i])])
        \o <<[what |-> "drop", block |-> None, txs |-> TxDifference(gone, added)]>>

\* Slips: a block becomes the head only on top of it; or already at its height.
HigherSlipOnTop(b) == Height[b] > Height[cur] /\ Parent[b] = cur
HigherSlipEqual(b) == Height[b] >= Height[cur]

Higher(b) == Height[b] > Height[cur]

NeedsReorg(b) == Higher(b) /\ Parent[b] # cur

\* writeBlock fails only where reorg does
Writable(b) == NeedsReorg(b) => ReorgPossible(cur, b)

WritesOf(b) ==
    (IF NeedsReorg(b) THEN ReorgWrites(cur, b) ELSE <<>>)
    \o (IF Higher(b) THEN InsertHeader(b) ELSE <<>>)
    \o StoreBody(b) \o <<Write("header", b)>>

-----------------------------------------------------------------------------
(* InsertChain.                                                            *)

\* maybeAcceptBlock succeeds for b, writeBlock included
Acceptable(b) == b \notin BadBlock /\ Writable(b)

Begin(b, withOrphans) ==
    /\ accepting' = b
    /\ writes' = WritesOf(b)
    /\ adopt' = withOrphans

\* Slip: the orphan pool is not looked at.
UnknownSlip(b) == b \notin header

Unknown(b) == b \notin header /\ b \notin Range(orphans)

\* A block that comes from a peer.  No peer has what the miner has only sealed.
Arrives(b) ==
    /\ cur # None /\ Idle
    /\ Unknown(b)
    /\ sealed # None => sealed \notin Range(Chain[b])

\* A block whose parent is stored is accepted.  One that is stored or waits
\* as an orphan (ErrBlockIgnored), or fails the checks, changes nothing.
InsertChain(b) ==
    /\ Arrives(b) /\ Parent[b] \in header
    /\ Acceptable(b)
    /\ Begin(b, TRUE)
    /\ UNCHANGED <<db, memory, process, orphanFailed>>

\* The entries after the i-th move up.
RemoveAt(s, i) == SubSeq(s, 1, i - 1) \o SubSeq(s, i + 1, Len(s))

\* removeOrphanBlock: the pool without the orphan o, if it is there
Without(pool, o) ==
    IF o \in Range(pool)
    THEN RemoveAt(pool, CHOOSE i \in DOMAIN pool : pool[i] = o)
    ELSE pool

\* addOrphanBlock.  The orphans that have waited longest may have expired.
\* The pointer to the oldest one is only moved when it is nil.
AddOrphan(b) ==
    /\ Arrives(b) /\ Parent[b] \notin header
    /\ \E expired \in 0 .. Len(orphans) :
          LET kept == SubSeq(orphans, expired + 1, Len(orphans))
              old  == IF oldest = None /\ kept # <<>> THEN kept[1] ELSE oldest
              full == Len(kept) + 1 > MaxOrphans
          IN  /\ orphans' = Append(IF full THEN Without(kept, old) ELSE kept, b)
              /\ oldest'  = IF full THEN None ELSE old
    /\ UNCHANGED <<db, cur, miningOn, sealed, op>>

\* Slip: only the orphans of the block InsertChain was called with are taken.
AcceptedSlip ==
    /\ accepting # None /\ writes = <<>>
    /\ process' = IF adopt /\ process = <<>> THEN <<accepting>> ELSE process
    /\ accepting' = None
    /\ UNCHANGED <<db, memory, writes, adopt, orphanFailed>>

\* The block is written; InsertChain goes on with the orphans it unblocks.
Accepted ==
    /\ accepting # None /\ writes = <<>>
    /\ process' = IF adopt THEN Append(process, accepting) ELSE process
    /\ accepting' = None
    /\ UNCHANGED <<db, memory, writes, adopt, orphanFailed>>

\* The orphans on top of b, by their places in the pool
ChildrenOf(b) == {i \in DOMAIN orphans : Parent[orphans[i]] = b}

\* processOrphans takes the next orphan whose parent is the hash in front.
\* When it cannot be accepted the rest stays in the pool.
ProcessOrphan ==
    /\ accepting = None /\ process # <<>>
    /\ \E i \in ChildrenOf(Head(process)) :
          LET orphan == orphans[i] IN
          /\ \A j \in ChildrenOf(Head(process)) : i <= j
          /\ orphans' = RemoveAt(orphans, i)
          /\ IF Acceptable(orphan)
             THEN Begin(orphan, TRUE) /\ UNCHANGED <<process, orphanFailed>>
             ELSE /\ process' = <<>> /\ orphanFailed' = TRUE
                  /\ UNCHANGED <<accepting, writes, adopt>>
    /\ UNCHANGED <<db, cur, oldest, miningOn, sealed>>

ProcessDone ==
    /\ accepting = None /\ process # <<>>
    /\ ChildrenOf(Head(process)) = {}
    /\ process' = Tail(process)
    /\ UNCHANGED <<db, memory, writes, accepting, adopt, orphanFailed>>

-----------------------------------------------------------------------------
(* A worker of the miner, which builds on what was the head when it took up *)
(* the work, and crashes.                                                  *)

\* bc.mu, which CurrentBHeader takes for reading, is held by reorg until its
\* last write and by insertBHeader2Chain between its two; it is free between
\* reorg and the insertBHeader2Chain that follows.
MuHeld ==
    \E i \in DOMAIN writes :
        writes[i].what = "drop" \/ (i = 1 /\ writes[i].what = "last")

TakeWork ==
    /\ cur # None /\ ~MuHeld
    /\ sealed = None /\ miningOn # cur
    /\ miningOn' = cur
    /\ UNCHANGED <<db, cur, orphans, oldest, sealed, op>>

\* Nobody has a block on top of one that is only now being found.
BuiltOn(b) == \E c \in header \cup Range(orphans) : b \in Range(Chain[c])

\* execPow finds b and looks once more whether the head has moved past it.
Seal(b) ==
    /\ cur # None /\ ~MuHeld
    /\ sealed = None /\ miningOn = Parent[b]
    /\ b \notin BadBlock /\ Unknown(b) /\ ~BuiltOn(b)
    /\ Higher(b)
    /\ sealed' = b
    /\ UNCHANGED <<db, cur, orphans, oldest, miningOn, op>>

\* generateBlocks writes it, with whatever head there is by then.
WriteBlock ==
    /\ cur # None /\ Idle
    /\ sealed # None
    /\ sealed' = None /\ miningOn' = None
    /\ IF Writable(sealed) THEN Begin(sealed, FALSE)
                           ELSE UNCHANGED <<accepting, writes, adopt>>
    /\ UNCHANGED <<db, cur, orphans, oldest, process, orphanFailed>>

Crash ==
    /\ cur # None
    /\ cur' = None /\ orphans' = <<>> /\ oldest' = None
    /\ miningOn' = None /\ sealed' = None
    /\ writes' = <<>> /\ accepting' = None /\ adopt' = FALSE /\ process' = <<>>
    /\ orphanFailed' = FALSE
    /\ UNCHANGED db

\* NewBlockChainN: setLastState finds the header LastBlock names; without it
\* currentBHeader stays nil and the node does not come up.
Restart ==
    /\ cur = None
    /\ canon[0] \in header /\ lastBlock \in header
    /\ cur' = lastBlock
    /\ UNCHANGED <<db, orphans, oldest, miningOn, sealed, op>>

-----------------------------------------------------------------------------
\* WriteGenesisBlockN, then NewBlockChainN
Init ==
    /\ header = {Genesis} /\ body = {Genesis}
    /\ canon = [n \in Heights |-> IF n = 0 THEN Genesis ELSE None]
    /\ lastBlock = Genesis /\ cur = Genesis
    /\ txIndex = [t \in Tx |-> None] /\ txData = {} /\ receipt = [t \in Tx |-> None]
    /\ orphans = <<>> /\ oldest = None /\ miningOn = None /\ sealed = None
    /\ writes = <<>> /\ accepting = None /\ adopt = FALSE /\ process = <<>>
    /\ orphanFailed = FALSE

Operate ==
    \/ \E b \in Block \ {Genesis} : InsertChain(b) \/ AddOrphan(b) \/ Seal(b)
    \/ Perform \/ Accepted \/ ProcessOrphan \/ ProcessDone
    \/ TakeWork \/ WriteBlock
    \/ Restart

\* The node is only stopped between operations, or at any moment.
Spec      == Init /\ [][Operate \/ (Idle /\ Crash)]_vars
CrashSpec == Init /\ [][Operate \/ Crash]_vars

-----------------------------------------------------------------------------
(* Properties.                                                             *)

TypeOK ==
    /\ header \subseteq Block /\ body \subseteq Block
    /\ canon \in [Heights -> Block \cup {None}]
    /\ lastBlock \in Block /\ cur \in Block \cup {None}
    /\ {miningOn, sealed} \subseteq Block \cup {None}
    /\ txIndex \in [Tx -> Block \cup {None}] /\ txData \subseteq Tx
    /\ receipt \in [Tx -> Block \cup {None}]
    /\ \A i \in DOMAIN orphans : orphans[i] \in Block
    /\ oldest \in Block \cup {None} /\ accepting \in Block \cup {None}
    /\ \A i \in DOMAIN process : process[i] \in Block
    /\ {adopt, orphanFailed} \subseteq BOOLEAN

AtRest == Idle /\ cur # None

\* Between operations the height index is the chain of the head: every height
\* up to the head's names the head's ancestor of that height, its header and
\* transactions are stored, and nothing is indexed above the head.  This is
\* what insertBHeader2Chain and reorg, which rewrites the index from the top
\* down, have to bring about together.
CanonicalChain ==
    AtRest =>
      /\ lastBlock = cur
      /\ \A n \in Heights :
            IF n <= Height[cur]
            THEN /\ canon[n] = Chain[cur][Height[cur] - n + 1]
                 /\ canon[n] \in header /\ canon[n] \in body
            ELSE canon[n] = None

\* The head is the highest block stored, whatever the order of arrival.
HeadIsHighest == AtRest => \A b \in header : Height[b] <= Height[cur]

\* The transactions of the canonical chain are found by their hash and have a
\* receipt and an index entry, though reorg deletes those of the old branch
\* and a transaction may be in both branches.
CanonicalTxsFound ==
    AtRest => \A n \in 0 .. Height[cur] : \A t \in TxsOf[canon[n]] :
                 t \in txData /\ receipt[t] # None /\ txIndex[t] # None

\* An orphan is never one of the stored blocks, and is in the pool once.
OrphansApart ==
    /\ \A i \in DOMAIN orphans : orphans[i] \notin header
    /\ \A i, j \in DOMAIN orphans : orphans[i] = orphans[j] => i = j

\* Between operations no orphan waits for a block that InsertChain stored,
\* unless processOrphans was stopped by an orphan that failed.
OrphansAdopted ==
    (AtRest /\ ~orphanFailed) =>
        \A i \in DOMAIN orphans : Parent[orphans[i]] \notin header

\* maybeAcceptBlock reads the parent of an orphan without looking whether it
\* is there: it is, even when an orphan processed before made reorg delete
\* blocks.
ParentAtHand ==
    \A i \in DOMAIN process :
        ChildrenOf(process[i]) # {} => process[i] \in header

\* A stopped node finds the header LastBlock names when it starts again.
RestartFindsHead == cur = None => lastBlock \in header

\* The pool of orphans is limited.
OrphansLimited == Len(orphans) <= MaxOrphans

\* The index of a transaction names no block that was taken off the chain.
IndexNamesStoredBlock ==
    AtRest => \A t \in Tx : txIndex[t] # None => txIndex[t] \in header

\* A valid block above the head, on a block that is stored, can become the
\* head: the higher branch wins.
HigherBranchWins ==
    AtRest => \A b \in Block \ (header \cup BadBlock) :
                 (Parent[b] \in header /\ Higher(b)) => Writable(b)

\* Every block of a chain included in the store is in the store.
ChainsComplete ==
    AtRest => \A b \in header \ {Genesis} : Parent[b] \in header
=============================================================================
