-------------------------- MODULE ChainStoreProofs --------------------------
(***************************************************************************)
(* Proofs about the block store of a node that is stopped only between     *)
(* operations, for any tree of blocks, any transactions and any size of    *)
(* the orphan pool: what the run chain checks for one tree.                *)
(* ChainStoreLemmas has the invariant and the step of one write.           *)
(***************************************************************************)
EXTENDS ChainStoreLemmas

-----------------------------------------------------------------------------
(* Where writeBlock starts to write.                                       *)

\* The state writeBlock starts from, and the block it is called with: not a
\* bad one, and on a stored block when it is to be the head.
Starts(b) ==
    /\ IInv /\ accepting = None /\ cur # None
    /\ b \in Block \ {Genesis} /\ b \notin BadBlock
    /\ Writable(b) /\ (Higher(b) => Parent[b] \in header)

\* Before writeBlock writes, the chain of the head is stored and indexed, and
\* a block that is to be the head is one above it.
LEMMA StartsFacts ==
    ASSUME NEW b, Starts(b)
    PROVE  /\ writes = <<>> /\ cur = lastBlock /\ Goal = cur /\ cur \in Block
           /\ \A k : Blocks(Todo, k) = {} /\ TxsIn(Todo, k) = {}
           /\ Height[b] <= Height[cur] + 1
           /\ Higher(b) => Height[b] = Height[cur] + 1
           /\ \A c \in Anc(cur) : /\ c \in header /\ c \in body /\ c \notin BadBlock
                                  /\ c = canon[Height[c]]
           /\ cur \in Anc(cur) /\ b \in Anc(b)
           /\ \A c \in header : Height[c] <= Height[cur] /\ c \notin BadBlock
<1>1. Shape /\ HeadInv /\ CanonInv /\ b \in Block \ {Genesis} /\ accepting = None /\ cur # None
  BY DEF Starts, IInv
<1>2. writes = <<>> /\ cur = lastBlock /\ cur \in Block
  BY <1>1 DEF Shape, TypeOK
<1>3. Goal = cur /\ \A k : Blocks(Todo, k) = {} /\ TxsIn(Todo, k) = {}
  BY <1>2, NothingTodo
<1>4. \A c \in header : Height[c] <= Height[cur] /\ c \notin BadBlock
  BY <1>1, <1>3 DEF HeadInv
<1>5. \A c \in Anc(cur) : c \in header /\ c \in body /\ c = canon[Height[c]]
  BY <1>1, <1>3 DEF CanonInv
<1>6. Higher(b) => Height[b] = Height[cur] + 1
  <2> SUFFICES ASSUME Higher(b)
               PROVE  Height[b] = Height[cur] + 1
    OBVIOUS
  <2>1. Parent[b] \in header /\ Parent[b] \in Block /\ Height[b] = Height[Parent[b]] + 1
    BY ChainAssumption, <1>1 DEF Starts
  <2>2. Height[Parent[b]] <= Height[cur]
    BY <1>4, <2>1
  <2> QED
    BY ChainAssumption, <1>1, <1>2, <2>1, <2>2 DEF Higher
<1>7. Height[b] <= Height[cur] + 1
  BY ChainAssumption, <1>1, <1>2, <1>6 DEF Higher
<1>8. cur \in Anc(cur) /\ b \in Anc(b)
  BY <1>1, <1>2, AncestorsStep
<1> QED
  BY <1>2, <1>3, <1>4, <1>5, <1>6, <1>7, <1>8

\* writeBlock called in such a state: what it is going to write leads to a
\* head that is b if b is higher, with its whole chain and its transactions.
LEMMA BeginStep ==
    ASSUME NEW b, Starts(b), NEW a \in BOOLEAN, Begin(b, a),
           UNCHANGED <<db, cur, oldest, orphanFailed>>,
           process' = process, orphans' \in Seq(Block \ {Genesis}),
           \/ sealed' = sealed /\ miningOn' = miningOn
           \/ sealed' = None /\ miningOn' = None
    PROVE  /\ Shape' /\ HeadInv' /\ CanonInv' /\ TxInv'
           /\ Goal' = IF Higher(b) THEN b ELSE cur
           /\ Blocks(Todo', "header") = {b} /\ Blocks(Todo', "delHeader") = Off(b)
\* No transaction is in two blocks of a chain of good blocks.
<1>NonceOnce. ASSUME NEW z \in Block, \A c \in Anc(z) : c \notin BadBlock,
                     NEW c \in Anc(z), NEW d \in Anc(z), c # d
              PROVE  TxsOf[c] \cap TxsOf[d] = {}
  <2> USE <1>NonceOnce
  <2>1. PICK i \in DOMAIN Chain[z] : c = Chain[z][i]
    BY DEF Anc, Range
  <2>2. PICK j \in DOMAIN Chain[z] : d = Chain[z][j]
    BY DEF Anc, Range
  <2>3. \A k \in DOMAIN Chain[z] : Chain[z][k] \notin BadBlock
    BY DEF Anc, Range
  <2>4. i # j
    BY <2>1, <2>2
  <2> QED
    BY <2>1, <2>2, <2>3, <2>4, NonceAssumption
\* The blocks put on the chain are stored, but for b itself: reorg has read
\* them.
<1>OnStored. On(b) \subseteq header \cup {b}
  <2>1. b \in Block \ {Genesis} /\ cur \in Block /\ Writable(b)
        /\ (Higher(b) => Parent[b] \in header /\ Height[b] = Height[cur] + 1)
    BY StartsFacts DEF Starts
  <2>2. CASE NeedsReorg(b)
    <3>1. \A c \in Anc(b) \ Anc(cur) : c \in header \cup {b, Parent[b]}
      BY <2>1, <2>2, Fork DEF Writable, NeedsReorg
    <3> QED
      BY <2>1, <2>2, <3>1 DEF On, NeedsReorg
  <2>3. CASE ~NeedsReorg(b)
    BY <2>1, <2>3, AncestorsStep DEF On, NeedsReorg
  <2> QED
    BY <2>2, <2>3
<1> DEFINE W == Range(WritesOf(b))
<1>1. /\ Shape /\ HeadInv /\ CanonInv /\ TxInv /\ b \in Block \ {Genesis} /\ b \notin BadBlock
      /\ cur # None
  BY DEF Starts, IInv
<1>2. /\ header' = header /\ canon' = canon /\ lastBlock' = lastBlock /\ body' = body
      /\ txIndex' = txIndex /\ txData' = txData /\ receipt' = receipt
      /\ cur' = cur /\ oldest' = oldest /\ orphanFailed' = orphanFailed
      /\ accepting' = b /\ writes' = WritesOf(b) /\ adopt' = a /\ Todo' = W
  BY DEF Begin, db, Todo
<1>3. /\ cur = lastBlock /\ Goal = cur /\ cur \in Block
      /\ \A k : Blocks(Todo, k) = {} /\ TxsIn(Todo, k) = {}
      /\ Height[b] <= Height[cur] + 1
      /\ Higher(b) => Height[b] = Height[cur] + 1
      /\ \A c \in Anc(cur) : /\ c \in header /\ c \in body /\ c \notin BadBlock
                             /\ c = canon[Height[c]]
      /\ cur \in Anc(cur) /\ b \in Anc(b)
      /\ \A c \in header : Height[c] <= Height[cur] /\ c \notin BadBlock
  BY StartsFacts
<1>4. /\ WritesOf(b) \in Seq(WriteType) /\ ReceiptsLast(WritesOf(b)) /\ LastOf(WritesOf(b), b)
      /\ Off(b) \subseteq Block /\ On(b) \subseteq Block
  BY <1>1, <1>3, WritesMembers, Zenon
<1>5. /\ \A w \in W : OfBlock(w)
      /\ Blocks(W, "header") = {b}
      /\ Blocks(W, "delHeader") = Off(b) /\ Blocks(W, "delTxs") = Off(b)
      /\ Blocks(W, "canon") = On(b) /\ Blocks(W, "last") = On(b)
      /\ Blocks(W, "txs") = On(b) \cup {b}
      /\ TxsIn(W, "delReceipts") = TxsOfAll(Off(b))
      /\ TxsIn(W, "txs") = TxsOfAll(On(b) \cup {b})
      /\ TxsIn(W, "receipts") = TxsOfAll(On(b) \cup {b})
      /\ TxsIn(W, "drop") \cap TxsOfAll(On(b)) = {}
      /\ TxsIn(W, "drop") \subseteq TxsOfAll(Off(b))
  BY <1>1, <1>3, WritesBlocks, Zenon
<1> HIDE DEF W
<1>6. /\ Higher(b) => /\ Off(b) = Anc(cur) \ Anc(b) /\ On(b) = Anc(b) \ Anc(cur)
                      /\ b \in On(b)
      /\ ~Higher(b) => Off(b) = {} /\ On(b) = {}
  <2>1. Higher(b) => b \notin Anc(cur)
    <3> SUFFICES ASSUME Higher(b), b \in Anc(cur)
                 PROVE  FALSE
      OBVIOUS
    <3>1. Height[b] <= Height[cur] /\ Height[cur] \in Nat
      BY ChainAssumption, <1>3, AncestorHeight, Zenon
    <3> QED
      BY <1>1, <1>3, <3>1
  <2> QED
    BY <1>3, <2>1 DEF Off, On
<1>7. Goal' = IF Higher(b) THEN b ELSE cur
  <2>1. Goal' = IF On(b) = {} THEN cur ELSE b
    BY <1>2, <1>3, <1>5, Zenon DEF Goal
  <2>2. On(b) = {} <=> ~Higher(b)
    BY <1>6
  <2> QED
    BY <2>1, <2>2
<1>8. On(b) \subseteq header \cup {b}
  BY <1>OnStored
<1>9. HeadInv'
  <2> DEFINE G == IF Higher(b) THEN b ELSE cur
  <2>1. G \in Block /\ Height[cur] <= Height[G] /\ Height[b] <= Height[G]
        /\ (cur = G \/ Height[cur] < Height[G])
    BY ChainAssumption, <1>1, <1>3 DEF Higher
  <2>2. header \subseteq Block
    BY <1>1 DEF Shape, TypeOK
  <2>3. ASSUME NEW c \in header \cup {b} PROVE Height[c] <= Height[G] /\ c \notin BadBlock
    BY ChainAssumption, <1>1, <1>3, <2>1, <2>2
  <2>4. ASSUME NEW c \in On(b) PROVE c = G \/ Height[c] < Height[G]
    <3>1. Higher(b) /\ c \in Anc(b) /\ G = b
      BY <1>6
    <3>2. c \in Block /\ Height[c] <= Height[b] /\ (Height[c] = Height[b] => c = b)
      BY <1>1, <1>3, <3>1, AncestorHeight, AncestorUnique, Zenon
    <3> QED
      BY ChainAssumption, <1>1, <3>1, <3>2
  <2>5. ASSUME NEW c \in {miningOn'} \ {None} PROVE c = G \/ Height[c] < Height[G]
    <3>1. c = miningOn /\ c \in Block
      BY <1>1, Zenon DEF Shape, TypeOK
    <3>2. c = cur \/ Height[c] < Height[cur]
      BY <1>1, <1>3, <3>1, Zenon DEF HeadInv
    <3> HIDE DEF G
    <3>3. Height[c] \in Nat /\ Height[cur] \in Nat /\ Height[G] \in Nat
      BY ChainAssumption, <1>3, <2>1, <3>1
    <3> QED
      BY ONLY <2>1, <3>2, <3>3
  <2> HIDE DEF G
  <2>6. Goal' = G
    BY <1>7 DEF G
  <2> QED
    BY <1>2, <1>3, <1>5, <2>1, <2>3, <2>4, <2>5, <2>6, Zenon DEF HeadInv
<1>10. CanonInv'
  <2>1. CASE ~Higher(b)
    <3>1. Goal' = Goal /\ Goal = cur
      BY <1>3, <1>7, <2>1
    <3>2. \A n \in Heights : n > Height[Goal] => canon[n] = None
      BY <1>1 DEF CanonInv
    <3> QED
      BY <1>2, <1>3, <1>5, <1>6, <2>1, <3>1, <3>2, Zenon DEF CanonInv
  <2>2. CASE Higher(b)
    <3>1. Goal' = b
      BY <1>7, <2>2
    <3>2. ASSUME NEW c \in Anc(b)
          PROVE  /\ c = canon[Height[c]] \/ c \in On(b)
                 /\ c \in header \cup {b} /\ c \notin Off(b)
                 /\ c \in body \cup (On(b) \cup {b})
      BY <1>3, <1>6, <1>8, <2>2
    <3>3. ASSUME NEW n \in Heights, n > Height[b] PROVE canon[n] = None
      <4>1. n \in Nat
        BY ChainAssumption DEF Heights
      <4>2. n > Height[cur]
        BY ChainAssumption, <1>1, <1>3, <2>2, <3>3, <4>1
      <4> QED
        BY <1>1, <1>3, <4>2 DEF CanonInv
    <3>4. /\ Blocks(Todo', "header") = {b} /\ Blocks(Todo', "delHeader") = Off(b)
          /\ Blocks(Todo', "canon") = On(b) /\ On(b) \subseteq Anc(b)
          /\ Blocks(Todo', "txs") = On(b) \cup {b} /\ Blocks(Todo', "delTxs") = Off(b)
      BY <1>2, <1>5, <1>6, <2>2
    <3>5. header' = header /\ canon' = canon /\ body' = body
      BY <1>2
    <3> QED
      BY ONLY <3>1, <3>2, <3>3, <3>4, <3>5 DEF CanonInv
  <2> QED
    BY <2>1, <2>2
<1>11. TxInv'
  <2>1. ASSUME NEW c \in Anc(cur), NEW t \in TxsOf[c]
        PROVE  t \in txData /\ txIndex[t] # None /\ receipt[t] # None
    BY <1>1, <1>3, Zenon DEF TxInv
  <2>2. CASE ~Higher(b)
    <3>1. Goal' = cur
      BY <1>7, <2>2
    <3>2. TxsOfAll(Off(b)) = {}
      BY <1>6, <2>2 DEF TxsOfAll
    <3> QED
      BY <1>2, <1>5, <2>1, <3>1, <3>2, Zenon DEF TxInv
  <2>3. CASE Higher(b)
    <3>1. Goal' = b
      BY <1>7, <2>3
    <3>2. ASSUME NEW c \in Anc(b), NEW t \in TxsOf[c], c \in Anc(cur)
          PROVE  t \in txData /\ txIndex[t] # None /\ receipt[t] # None /\ t \notin TxsOfAll(Off(b))
      <4>1. ASSUME NEW o \in Off(b) PROVE t \notin TxsOf[o]
        <5>1. o \in Anc(cur) /\ o # c
          BY <1>6, <2>3
        <5>2. \A x \in Anc(cur) : x \notin BadBlock
          BY <1>3
        <5>3. TxsOf[c] \cap TxsOf[o] = {}
          BY <1>3, <3>2, <5>1, <5>2, <1>NonceOnce
        <5> QED
          BY <5>3
      <4>2. t \notin TxsOfAll(Off(b))
        BY <4>1 DEF TxsOfAll
      <4> QED
        BY <2>1, <3>2, <4>2
    <3>3. ASSUME NEW c \in Anc(b), NEW t \in TxsOf[c]
          PROVE  /\ t \in txData \cup TxsIn(W, "txs") /\ t \notin TxsIn(W, "drop")
                 /\ txIndex[t] # None \/ t \in TxsIn(W, "txs")
                 /\ \/ receipt[t] # None /\ t \notin TxsIn(W, "delReceipts")
                    \/ t \in TxsIn(W, "receipts")
      <4>1. CASE c \in Anc(cur)
        BY <1>5, <3>2, <4>1, Zenon
      <4>2. CASE c \notin Anc(cur)
        <5>1. t \in TxsOfAll(On(b)) /\ t \in TxsOfAll(On(b) \cup {b})
          <6>1. c \in On(b)
            BY <1>6, <2>3, <4>2
          <6> QED
            BY <6>1 DEF TxsOfAll
        <5>2. t \in TxsIn(W, "txs") /\ t \in TxsIn(W, "receipts")
          BY <1>5, <5>1
        <5>3. t \notin TxsIn(W, "drop")
          BY <1>5, <5>1
        <5> QED
          BY <5>2, <5>3
      <4> QED
        BY <4>1, <4>2
    <3> QED
      BY <1>2, <3>1, <3>3, Zenon DEF TxInv
  <2> QED
    BY <2>2, <2>3
<1>12. Shape'
  <2>1. \A i \in DOMAIN orphans' : orphans'[i] \in Block
    <3> DEFINE o == orphans'
    <3>1. o \in Seq(Block \ {Genesis})
      OBVIOUS
    <3> HIDE DEF o
    <3>2. \A i \in DOMAIN o : o[i] \in Block
      BY <3>1
    <3> QED
      BY <3>2 DEF o
  <2>2. TypeOK'
    BY <1>1, <1>2, <2>1, Zenon DEF Shape, TypeOK
  <2>3. /\ process' \in Seq(Block) /\ accepting' # Genesis /\ sealed' # Genesis
        /\ cur' \in {None, lastBlock'} /\ cur' # None /\ accepting' # None
        /\ sealed' # None => miningOn' = Parent[sealed'] /\ sealed' \notin BadBlock
    BY ChainAssumption, <1>1, <1>2, <1>3 DEF Shape
  <2> QED
    BY <1>2, <1>4, <1>5, <2>2, <2>3, Zenon DEF Shape
<1> QED
  BY <1>2, <1>5, <1>7, <1>9, <1>10, <1>11, <1>12

-----------------------------------------------------------------------------
(* The other actions.                                                      *)

\* A step that writes nothing and starts no writes leaves what is said of the
\* stores as it is.
LEMMA Quiet ==
    ASSUME IInv, UNCHANGED <<db, writes>>, accepting' = accepting \/ writes = <<>>,
           miningOn' \in {miningOn, None, lastBlock}
    PROVE  /\ Todo' = Todo /\ Goal' = Goal
           /\ header' = header /\ lastBlock' = lastBlock
           /\ HeadInv' /\ CanonInv' /\ TxInv'
<1>1. /\ header' = header /\ canon' = canon /\ lastBlock' = lastBlock /\ body' = body
      /\ txIndex' = txIndex /\ txData' = txData /\ receipt' = receipt /\ writes' = writes
  BY DEF db
<1>2. Todo' = Todo
  BY <1>1 DEF Todo
<1>3. Goal' = Goal
  <2>1. CASE accepting' = accepting
    BY <1>1, <1>2, <2>1 DEF Goal
  <2>2. CASE writes = <<>>
    <3>1. Blocks(Todo, "last") = {}
      BY <2>2, NothingTodo
    <3> QED
      BY <1>1, <1>2, <3>1 DEF Goal
  <2> QED
    BY <2>1, <2>2
<1>4. HeadInv /\ CanonInv /\ TxInv
  BY DEF IInv
<1>5. HeadInv'
  BY <1>1, <1>2, <1>3, <1>4 DEF HeadInv
<1>6. CanonInv'
  BY <1>1, <1>2, <1>3, <1>4 DEF CanonInv
<1>7. TxInv'
  BY <1>1, <1>2, <1>3, <1>4 DEF TxInv
<1> QED
  BY <1>1, <1>2, <1>3, <1>5, <1>6, <1>7

\* The block stored by the operation becomes one whose orphans are processed.
LEMMA AcceptedStep ==
    ASSUME IInv, Accepted
    PROVE  IInv'
<1>1. /\ accepting # None /\ writes = <<>>
      /\ process' = IF adopt THEN Append(process, accepting) ELSE process
      /\ accepting' = None
      /\ UNCHANGED <<db, memory, writes, adopt, orphanFailed>>
  BY DEF Accepted
<1>2. /\ cur' = cur /\ orphans' = orphans /\ oldest' = oldest /\ miningOn' = miningOn
      /\ sealed' = sealed /\ writes' = writes /\ adopt' = adopt /\ orphanFailed' = orphanFailed
      /\ header' = header /\ canon' = canon /\ lastBlock' = lastBlock /\ body' = body
      /\ txIndex' = txIndex /\ txData' = txData /\ receipt' = receipt
  BY <1>1 DEF memory, db
<1>3. Todo' = Todo /\ Goal' = Goal /\ HeadInv' /\ CanonInv' /\ TxInv'
  BY <1>1, <1>2, Quiet
<1>4. Shape /\ OrphanInv /\ ProcessInv /\ \A k : Blocks(Todo, k) = {}
  BY <1>1, NothingTodo DEF IInv
<1>5. accepting \in Block /\ accepting \in header /\ process \in Seq(Block)
  BY <1>1, <1>4 DEF Shape, TypeOK, ProcessInv
<1>6. /\ process' \in Seq(Block) /\ Len(process) \in Nat /\ DOMAIN process = 1 .. Len(process)
      /\ adopt => /\ DOMAIN process' = 1 .. Len(process) + 1
                  /\ process'[Len(process) + 1] = accepting
                  /\ \A i \in DOMAIN process : process'[i] = process[i]
      /\ ~adopt => process' = process
  BY <1>1, <1>5
<1>7. \A i \in DOMAIN process' : process'[i] \in Block
  <2>1. CASE adopt
    BY <1>5, <1>6, <2>1
  <2>2. CASE ~adopt
    <3>1. process' = process
      BY <1>6, <2>2, Zenon
    <3>2. \A i \in DOMAIN process : process[i] \in Block
      BY <1>4 DEF Shape, TypeOK
    <3> QED
      BY <3>1, <3>2
  <2> QED
    BY <2>1, <2>2
<1>8. Shape'
  <2>1. TypeOK'
    BY <1>1, <1>2, <1>4, <1>7, Zenon DEF Shape, TypeOK
  <2>2. cur # None
    BY <1>1, <1>4, Zenon DEF Shape, Idle
  <2>3. LastOf(writes', accepting') /\ ReceiptsLast(writes')
    <3>1. writes' = <<>> /\ Range(<<>>) = {}
      BY <1>1, EmptyRange, Zenon
    <3> QED
      BY <3>1 DEF LastOf, ReceiptsLast
  <2>4. None # Genesis
    BY ChainAssumption
  <2> QED
    BY <1>1, <1>2, <1>3, <1>4, <1>6, <2>1, <2>2, <2>3, <2>4, Zenon DEF Shape
<1>9. OrphanInv'
  <2>1. OrphansApart'
    BY <1>2, <1>4 DEF OrphanInv, OrphansApart
  <2>2. ASSUME NEW i \in DOMAIN orphans
        PROVE  /\ orphans[i] \notin {None, sealed} /\ Parent[orphans[i]] # sealed
               /\ Parent[orphans[i]] # None
               /\ (~orphanFailed /\ Parent[orphans[i]] \in header)
                     => Parent[orphans[i]] \in Range(process')
    <3>1. orphans[i] \in Block \ {Genesis}
      BY <1>4 DEF Shape
    <3>2. /\ orphans[i] # sealed /\ Parent[orphans[i]] # sealed
          /\ ~adopt => Parent[orphans[i]] # accepting
          /\ (~orphanFailed /\ Parent[orphans[i]] \in header)
                => Parent[orphans[i]] \in Range(process) \cup {accepting}
      BY <1>4, Zenon DEF OrphanInv
    <3>3. adopt => Range(process) \cup {accepting} \subseteq Range(process')
      <4> SUFFICES ASSUME adopt
                   PROVE  Range(process) \cup {accepting} \subseteq Range(process')
        OBVIOUS
      <4>1. \A j \in DOMAIN process : j \in DOMAIN process' /\ process'[j] = process[j]
        BY <1>6
      <4>2. Len(process) + 1 \in DOMAIN process' /\ process'[Len(process) + 1] = accepting
        BY <1>6
      <4> QED
        BY <4>1, <4>2 DEF Range
    <3> QED
      BY ChainAssumption, <1>6, <3>1, <3>2, <3>3
  <2>3. Blocks(Todo', "header") = {}
    BY <1>3, <1>4
  <2> QED
    BY <1>1, <1>2, <2>1, <2>2, <2>3 DEF OrphanInv
<1>10. ProcessInv'
  <2>1. CASE ~adopt
    BY <1>1, <1>2, <1>3, <1>4, <1>6, <2>1, Zenon DEF ProcessInv
  <2>2. CASE adopt
    <3> DEFINE p == process'
               n == Len(process) + 1
    <3>1. /\ DOMAIN p = 1 .. n /\ p[n] = accepting /\ n \in Nat
          /\ \A i \in 1 .. n - 1 : p[i] = process[i] /\ i \in DOMAIN process
      <4>1. n \in Nat /\ n - 1 = Len(process)
        BY <1>6
      <4>2. 1 .. n - 1 = DOMAIN process
        BY <1>6, <4>1
      <4> QED
        BY <1>6, <2>2, <4>1, <4>2
    <3>2. \A i \in DOMAIN p : p[i] \in Block /\ Height[p[i]] \in Nat
      BY ChainAssumption, <1>7
    <3>3. ASSUME NEW i \in 1 .. n - 1
          PROVE  /\ p[i] \in header /\ Height[p[i]] <= Height[p[1]] + 1
                 /\ \A j \in 1 .. n - 1 : i < j =>
                       /\ Height[p[i]] <= Height[p[j]]
                       /\ p[j] = Goal => Height[p[i]] < Height[p[j]]
                 /\ Height[accepting] = Height[p[1]] + 1
                 /\ accepting = Goal => Height[p[i]] < Height[accepting]
      <4>1. i \in DOMAIN process /\ p[i] = process[i] /\ p[1] = process[1]
        BY <3>1
      <4>2. /\ process[i] \in header /\ Height[process[i]] <= Height[process[1]] + 1
            /\ \A j \in DOMAIN process : i < j =>
                  /\ Height[process[i]] <= Height[process[j]]
                  /\ process[j] = Goal => Height[process[i]] < Height[process[j]]
            /\ Height[accepting] = Height[process[1]] + 1
            /\ accepting = Goal => Height[process[i]] < Height[accepting]
        BY <1>1, <1>4, <4>1, Zenon DEF ProcessInv
      <4> QED
        BY <3>1, <4>1, <4>2
    <3> HIDE DEF p, n
    <3>4. ASSUME NEW i \in 1 .. n
          PROVE  /\ p[i] \in header /\ Height[p[i]] <= Height[p[1]] + 1
                 /\ \A j \in 1 .. n : i < j =>
                       /\ Height[p[i]] <= Height[p[j]]
                       /\ p[j] = Goal => Height[p[i]] < Height[p[j]]
      <4>1. CASE i = n
        <5>1. p[i] \in header
          BY <1>5, <3>1, <4>1
        <5>2. Height[p[i]] <= Height[p[1]] + 1
          <6>1. CASE n = 1
            BY <3>1, <3>2, <4>1, <6>1
          <6>2. CASE n # 1
            <7>1. 1 \in 1 .. n - 1
              BY <3>1, <4>1, <6>2
            <7>2. Height[accepting] = Height[p[1]] + 1 /\ Height[p[1]] \in Nat
              BY <3>1, <3>2, <3>3, <7>1
            <7> QED
              BY <3>1, <4>1, <7>2
          <6> QED
            BY <6>1, <6>2
        <5> QED
          BY <3>1, <4>1, <5>1, <5>2
      <4>2. CASE i # n
        <5>1. i \in 1 .. n - 1
          BY <3>1, <4>2
        <5>2. \A j \in 1 .. n : j # n => j \in 1 .. n - 1
          BY <3>1
        <5>3. Height[p[i]] <= Height[p[n]]
          BY <3>1, <3>3, <5>1
        <5> QED
          BY <3>1, <3>3, <5>1, <5>2, <5>3, Zenon
      <4> QED
        BY <4>1, <4>2
    <3>5. Blocks(Todo', "delHeader") = {} /\ Goal' = Goal /\ accepting' = None /\ header' = header
      BY <1>1, <1>2, <1>3, <1>4
    <3>6. DOMAIN process' = 1 .. n /\ process' = p
      BY <3>1 DEF p
    <3> QED
      BY <3>4, <3>5, <3>6 DEF ProcessInv
  <2> QED
    BY <2>1, <2>2
<1> QED
  BY <1>3, <1>8, <1>9, <1>10 DEF IInv

\* A block with no orphans left on top of it is done with.
LEMMA ProcessDoneStep ==
    ASSUME IInv, ProcessDone
    PROVE  IInv'
<1>1. /\ accepting = None /\ process # <<>> /\ ChildrenOf(Head(process)) = {}
      /\ process' = Tail(process) /\ accepting' = accepting
      /\ UNCHANGED <<db, memory, writes, accepting, adopt, orphanFailed>>
  BY DEF ProcessDone
<1>2. /\ cur' = cur /\ orphans' = orphans /\ oldest' = oldest /\ miningOn' = miningOn
      /\ sealed' = sealed /\ writes' = writes /\ adopt' = adopt /\ orphanFailed' = orphanFailed
      /\ header' = header /\ canon' = canon /\ lastBlock' = lastBlock /\ body' = body
      /\ txIndex' = txIndex /\ txData' = txData /\ receipt' = receipt
  BY <1>1 DEF memory, db
<1>3. Todo' = Todo /\ Goal' = Goal /\ HeadInv' /\ CanonInv' /\ TxInv'
  BY <1>1, <1>2, Quiet
<1>4. Shape /\ OrphanInv /\ ProcessInv
  BY DEF IInv
<1>5. process \in Seq(Block)
  BY <1>4 DEF Shape
<1>6. /\ process' \in Seq(Block) /\ Len(process) \in Nat /\ Len(process) >= 1
      /\ DOMAIN process = 1 .. Len(process) /\ DOMAIN process' = 1 .. Len(process) - 1
      /\ \A i \in 1 .. Len(process) - 1 : process'[i] = process[i + 1]
      /\ Head(process) = process[1]
  BY <1>1, <1>5
<1>7. Range(process) = {process[1]} \cup Range(process')
  <2>1. ASSUME NEW i \in DOMAIN process PROVE process[i] \in {process[1]} \cup Range(process')
    <3>1. CASE i = 1
      BY <3>1
    <3>2. CASE i # 1
      <4>1. i - 1 \in DOMAIN process' /\ process'[i - 1] = process[i]
        <5>1. i - 1 \in 1 .. Len(process) - 1 /\ (i - 1) + 1 = i
          BY <1>6, <3>2
        <5> QED
          BY <1>6, <5>1
      <4> QED
        BY <4>1 DEF Range
    <3> QED
      BY <3>1, <3>2
  <2>2. ASSUME NEW i \in DOMAIN process' PROVE i + 1 \in DOMAIN process /\ process'[i] = process[i + 1]
    BY <1>6
  <2>3. 1 \in DOMAIN process
    BY <1>6
  <2> QED
    BY <2>1, <2>2, <2>3 DEF Range
<1>8. \A i \in DOMAIN process' : process'[i] \in Block
  <2>1. ASSUME NEW i \in DOMAIN process' PROVE process'[i] \in Block
    <3>1. i + 1 \in DOMAIN process /\ process'[i] = process[i + 1]
      BY <1>6
    <3> QED
      BY <1>5, <3>1
  <2> QED
    BY <2>1
<1>9. Shape'
  <2>1. TypeOK'
    BY <1>1, <1>2, <1>4, <1>8, Zenon DEF Shape, TypeOK
  <2>2. cur # None
    BY <1>1, <1>4 DEF Shape, Idle
  <2> QED
    BY <1>1, <1>2, <1>3, <1>4, <1>6, <2>1, <2>2 DEF Shape
<1>10. OrphanInv'
  <2>1. OrphansApart'
    BY <1>2, <1>4, Zenon DEF OrphanInv, OrphansApart
  <2>2. ASSUME NEW i \in DOMAIN orphans PROVE Parent[orphans[i]] # process[1]
    BY <1>1, <1>6, Zenon DEF ChildrenOf
  <2>3. /\ Blocks(Todo', "header") = Blocks(Todo, "header") /\ header' = header
        /\ orphans' = orphans /\ accepting' = accepting /\ sealed' = sealed /\ adopt' = adopt
        /\ orphanFailed' = orphanFailed
    BY <1>1, <1>2, <1>3
  <2>4. OrphanInv
    BY <1>4
  <2> QED
    BY ONLY <1>7, <2>1, <2>2, <2>3, <2>4, Zenon DEF OrphanInv
<1>11. ProcessInv'
  <2> DEFINE p == process'
             n == Len(process) - 1
  <2>1. ASSUME NEW i \in 1 .. n
        PROVE  /\ p[i] = process[i + 1] /\ i + 1 \in DOMAIN process /\ 1 < i + 1
               /\ process[i + 1] \in Block /\ Height[process[i + 1]] \in Nat
               /\ 1 \in 1 .. n /\ p[1] = process[2] /\ 2 \in DOMAIN process /\ 1 \in DOMAIN process
    <3>1. p[i] = process[i + 1] /\ i + 1 \in DOMAIN process /\ 1 < i + 1
      BY <1>6
    <3>2. process[i + 1] \in Block
      BY <1>5, <3>1
    <3>3. 1 \in 1 .. n /\ p[1] = process[2] /\ 2 \in DOMAIN process /\ 1 \in DOMAIN process
      BY <1>6
    <3> QED
      BY ChainAssumption, <3>1, <3>2, <3>3
  <2>2. ASSUME NEW i \in 1 .. n
        PROVE  /\ p[i] \in header /\ p[i] \notin Blocks(Todo, "delHeader")
               /\ Height[p[i]] <= Height[p[1]] + 1
               /\ \A j \in 1 .. n : i < j =>
                     /\ Height[p[i]] <= Height[p[j]]
                     /\ p[j] = Goal => Height[p[i]] < Height[p[j]]
    <3>1. /\ process[i + 1] \in header /\ process[i + 1] \notin Blocks(Todo, "delHeader")
          /\ Height[process[i + 1]] <= Height[process[1]] + 1
          /\ \A j \in DOMAIN process : i + 1 < j =>
                /\ Height[process[i + 1]] <= Height[process[j]]
                /\ process[j] = Goal => Height[process[i + 1]] < Height[process[j]]
      BY <1>4, <2>1, Zenon DEF ProcessInv
    <3>2. Height[process[1]] <= Height[process[2]]
      <4>1. \A j \in DOMAIN process : 1 < j => Height[process[1]] <= Height[process[j]]
        BY <1>4, <2>1 DEF ProcessInv
      <4>2. 2 \in DOMAIN process /\ 1 < 2
        BY <2>1
      <4> QED
        BY ONLY <4>1, <4>2
    <3>3. Height[process[1]] \in Nat /\ Height[process[2]] \in Nat
      BY ChainAssumption, <1>5, <2>1
    <3>4. Height[p[i]] <= Height[p[1]] + 1
      BY <2>1, <3>1, <3>2, <3>3
    <3>5. ASSUME NEW j \in 1 .. n, i < j
          PROVE  /\ Height[p[i]] <= Height[p[j]]
                 /\ p[j] = Goal => Height[p[i]] < Height[p[j]]
      <4>1. j + 1 \in DOMAIN process /\ i + 1 < j + 1 /\ p[j] = process[j + 1]
        BY <2>1, <3>5
      <4> QED
        BY <2>1, <3>1, <4>1
    <3> QED
      BY <2>1, <3>1, <3>4, <3>5, Zenon
  <2> HIDE DEF p, n
  <2>3. DOMAIN process' = 1 .. n /\ process' = p
    BY <1>6 DEF p, n
  <2> QED
    BY <1>1, <1>2, <1>3, <2>2, <2>3, Zenon DEF ProcessInv
<1> QED
  BY <1>3, <1>9, <1>10, <1>11 DEF IInv


-----------------------------------------------------------------------------
(* The other steps keep the invariant.                                     *)

\* The miner takes up work on the head.
LEMMA TakeWorkStep ==
    ASSUME IInv, TakeWork
    PROVE  IInv'
<1>1. /\ cur # None /\ sealed = None /\ miningOn' = cur
      /\ UNCHANGED <<db, cur, orphans, oldest, sealed, op>>
  BY DEF TakeWork
<1>2. /\ cur' = cur /\ orphans' = orphans /\ oldest' = oldest /\ accepting' = accepting
      /\ sealed' = sealed /\ writes' = writes /\ adopt' = adopt /\ orphanFailed' = orphanFailed
      /\ header' = header /\ canon' = canon /\ lastBlock' = lastBlock /\ body' = body
      /\ txIndex' = txIndex /\ txData' = txData /\ receipt' = receipt /\ process' = process
  BY <1>1 DEF op, db
<1>3. Shape /\ OrphanInv /\ ProcessInv /\ cur = lastBlock
  BY <1>1 DEF IInv, Shape
<1>4. Todo' = Todo /\ Goal' = Goal /\ HeadInv' /\ CanonInv' /\ TxInv'
  BY <1>1, <1>2, <1>3, Quiet
<1>5. Shape'
  <2>1. TypeOK'
    BY <1>1, <1>2, <1>3 DEF Shape, TypeOK
  <2> QED
    BY <1>1, <1>2, <1>3, <1>4, <2>1 DEF Shape
<1>6. OrphanInv'
  BY <1>2, <1>3, <1>4, Zenon DEF OrphanInv, OrphansApart
<1>7. ProcessInv'
  BY <1>2, <1>3, <1>4 DEF ProcessInv
<1> QED
  BY <1>4, <1>5, <1>6, <1>7 DEF IInv

\* The miner finds a block nobody has built on.
LEMMA SealStep ==
    ASSUME IInv, NEW b \in Block \ {Genesis}, Seal(b)
    PROVE  IInv'
<1>1. /\ cur # None /\ sealed = None /\ miningOn = Parent[b]
      /\ b \notin BadBlock /\ Unknown(b) /\ ~BuiltOn(b) /\ sealed' = b
      /\ UNCHANGED <<db, cur, orphans, oldest, miningOn, op>>
  BY DEF Seal
<1>2. /\ cur' = cur /\ orphans' = orphans /\ oldest' = oldest /\ accepting' = accepting
      /\ miningOn' = miningOn /\ writes' = writes /\ adopt' = adopt /\ orphanFailed' = orphanFailed
      /\ header' = header /\ canon' = canon /\ lastBlock' = lastBlock /\ body' = body
      /\ txIndex' = txIndex /\ txData' = txData /\ receipt' = receipt /\ process' = process
  BY <1>1 DEF op, db
<1>3. Shape /\ OrphanInv /\ ProcessInv
  BY DEF IInv
<1>4. Todo' = Todo /\ Goal' = Goal /\ HeadInv' /\ CanonInv' /\ TxInv'
  BY <1>1, <1>2, Quiet
<1>5. Shape'
  <2>1. TypeOK'
    BY <1>1, <1>2, <1>3, Zenon DEF Shape, TypeOK
  <2> QED
    BY <1>1, <1>2, <1>3, <1>4, <2>1, Zenon DEF Shape
<1>6. ASSUME NEW i \in DOMAIN orphans PROVE orphans[i] # b /\ Parent[orphans[i]] # b
  <2>1. orphans[i] \in Block \ {Genesis} /\ orphans[i] \in Range(orphans)
    BY <1>3 DEF Shape, Range
  <2>2. b \notin Anc(orphans[i])
    BY <1>1, <2>1, Zenon DEF BuiltOn, Anc
  <2>3. Anc(orphans[i]) = {orphans[i]} \cup Anc(Parent[orphans[i]])
        /\ Parent[orphans[i]] \in Anc(Parent[orphans[i]])
    BY ChainAssumption, <2>1, AncestorsStep, Zenon
  <2> QED
    BY <2>2, <2>3
<1>7. OrphanInv'
  <2>1. OrphansApart'
    BY <1>2, <1>3 DEF OrphanInv, OrphansApart
  <2>2. /\ orphans' = orphans /\ header' = header /\ accepting' = accepting /\ adopt' = adopt
        /\ orphanFailed' = orphanFailed /\ process' = process /\ sealed' = b
        /\ Blocks(Todo', "header") = Blocks(Todo, "header")
    BY <1>1, <1>2, <1>4, Zenon
  <2>3. OrphanInv
    BY <1>3
  <2> QED
    BY ONLY <1>6, <2>1, <2>2, <2>3, Zenon DEF OrphanInv
<1>8. ProcessInv'
  BY <1>2, <1>3, <1>4 DEF ProcessInv
<1> QED
  BY <1>4, <1>5, <1>7, <1>8 DEF IInv

\* A node that is stopped between operations, or starts again.
LEMMA StopStep ==
    ASSUME IInv, (Idle /\ Crash) \/ Restart
    PROVE  IInv'
<1>1. CASE Idle /\ Crash
  <2>1. /\ writes = <<>> /\ cur' = None /\ orphans' = <<>> /\ oldest' = None /\ miningOn' = None
        /\ sealed' = None /\ writes' = <<>> /\ accepting' = None /\ adopt' = FALSE
        /\ process' = <<>> /\ orphanFailed' = FALSE /\ UNCHANGED db
    BY <1>1 DEF Idle, Crash
  <2>2. Todo' = Todo /\ Goal' = Goal /\ HeadInv' /\ CanonInv' /\ TxInv'
        /\ header' = header /\ lastBlock' = lastBlock
    BY <2>1, Quiet
  <2>3. Todo = {}
    BY <2>1, NothingTodo
  <2>4. Shape'
    <3>1. TypeOK'
      <4>1. \A i \in DOMAIN <<>> : FALSE
        OBVIOUS
      <4> QED
        BY <2>1, <4>1, Zenon DEF IInv, Shape, TypeOK, db
    <3>2. LastOf(writes', accepting') /\ ReceiptsLast(writes')
      <4>1. Range(<<>>) = {}
        BY DEF Range
      <4> QED
        BY <2>1, <4>1 DEF LastOf, ReceiptsLast
    <3> QED
      BY ChainAssumption, <2>1, <2>2, <2>3, <3>1, <3>2 DEF Shape, Idle
  <2>5. OrphanInv'
    BY <2>1 DEF OrphanInv, OrphansApart
  <2>6. ProcessInv'
    BY <2>1 DEF ProcessInv
  <2> QED
    BY <2>2, <2>4, <2>5, <2>6 DEF IInv
<1>2. CASE Restart
  <2>1. /\ cur = None /\ cur' = lastBlock
        /\ UNCHANGED <<db, orphans, oldest, miningOn, sealed, op>>
    BY <1>2 DEF Restart
  <2>2. /\ orphans' = orphans /\ oldest' = oldest /\ accepting' = accepting /\ sealed' = sealed
        /\ miningOn' = miningOn /\ writes' = writes /\ adopt' = adopt /\ orphanFailed' = orphanFailed
        /\ header' = header /\ canon' = canon /\ lastBlock' = lastBlock /\ body' = body
        /\ txIndex' = txIndex /\ txData' = txData /\ receipt' = receipt /\ process' = process
    BY <2>1 DEF op, db
  <2>3. Todo' = Todo /\ Goal' = Goal /\ HeadInv' /\ CanonInv' /\ TxInv'
    BY <2>1, <2>2, Quiet
  <2>4. Shape /\ OrphanInv /\ ProcessInv
    BY DEF IInv
  <2>5. Shape'
    <3>1. TypeOK'
      BY <2>1, <2>2, <2>4 DEF Shape, TypeOK
    <3>2. lastBlock # None
      BY ChainAssumption, <2>4 DEF Shape, TypeOK
    <3> QED
      BY <2>1, <2>2, <2>3, <2>4, <3>1, <3>2 DEF Shape
  <2>6. OrphanInv'
    BY <2>2, <2>3, <2>4, Zenon DEF OrphanInv, OrphansApart
  <2>7. ProcessInv'
    BY <2>2, <2>3, <2>4 DEF ProcessInv
  <2> QED
    BY <2>3, <2>5, <2>6, <2>7 DEF IInv
<1> QED
  BY <1>1, <1>2

\* InsertChain called with a block whose parent is stored.
LEMMA InsertChainStep ==
    ASSUME IInv, NEW b \in Block \ {Genesis}, InsertChain(b)
    PROVE  IInv'
<1>1. /\ cur # None /\ writes = <<>> /\ accepting = None /\ process = <<>>
      /\ b \notin header /\ b \notin Range(orphans) /\ Parent[b] \in header
      /\ b \notin BadBlock /\ Writable(b) /\ Begin(b, TRUE)
      /\ sealed # None => sealed \notin Range(Chain[b])
      /\ UNCHANGED <<db, memory, process, orphanFailed>>
  BY Zenon DEF InsertChain, Arrives, Idle, Unknown, Acceptable
<1>2. /\ cur' = cur /\ orphans' = orphans /\ oldest' = oldest /\ miningOn' = miningOn
      /\ sealed' = sealed /\ orphanFailed' = orphanFailed /\ process' = process
      /\ header' = header /\ accepting' = b /\ adopt' = TRUE
  BY <1>1 DEF memory, db, Begin
<1>3. Starts(b) /\ Shape /\ OrphanInv
  BY <1>1 DEF Starts, IInv
<1>4. orphans \in Seq(Block \ {Genesis})
  BY <1>3 DEF Shape
<1>5. /\ Shape' /\ HeadInv' /\ CanonInv' /\ TxInv'
      /\ Blocks(Todo', "header") = {b} /\ Blocks(Todo', "delHeader") = Off(b)
  <2>1. UNCHANGED <<db, cur, oldest, orphanFailed>>
    BY <1>1, <1>2
  <2> QED
    BY <1>1, <1>2, <1>3, <1>4, <2>1, BeginStep, Zenon
<1>6. ASSUME NEW i \in DOMAIN orphans
      PROVE  /\ orphans[i] # b /\ orphans[i] # sealed /\ Parent[orphans[i]] # sealed
             /\ ~orphanFailed => Parent[orphans[i]] \notin header
  <2>1. b \notin Range(orphans)
    BY <1>1, <1>4
  <2>2. orphans[i] \in Block \ {Genesis} /\ Parent[orphans[i]] # None
    BY ChainAssumption, <1>4
  <2>3. /\ orphans[i] # sealed /\ Parent[orphans[i]] # sealed
        /\ (~orphanFailed /\ Parent[orphans[i]] \in header)
              => Parent[orphans[i]] \in Range(process) \cup {accepting}
    BY <1>3, Zenon DEF OrphanInv
  <2>4. process = <<>> /\ Range(<<>>) = {}
    BY <1>1, EmptyRange, Zenon
  <2> QED
    BY <1>1, <2>1, <2>2, <2>3, <2>4, Zenon DEF Range
<1>7. OrphanInv'
  <2>1. OrphansApart'
    BY <1>2, <1>3 DEF OrphanInv, OrphansApart
  <2> QED
    BY <1>2, <1>5, <1>6, <2>1 DEF OrphanInv
<1>8. ProcessInv'
  <2>1. b \notin Off(b)
    BY AncestorsStep, Zenon DEF Off
  <2>2. process' = <<>>
    BY <1>1, <1>2, Zenon
  <2> QED
    BY <1>2, <1>5, <2>1, <2>2 DEF ProcessInv
<1> QED
  BY <1>5, <1>7, <1>8 DEF IInv

\* generateBlocks writing the block the miner has found.
LEMMA WriteBlockStep ==
    ASSUME IInv, WriteBlock
    PROVE  IInv'
<1>1. /\ cur # None /\ writes = <<>> /\ accepting = None /\ process = <<>> /\ sealed # None
      /\ sealed' = None /\ miningOn' = None
      /\ IF Writable(sealed) THEN Begin(sealed, FALSE)
                             ELSE UNCHANGED <<accepting, writes, adopt>>
      /\ UNCHANGED <<db, cur, orphans, oldest, process, orphanFailed>>
  BY Zenon DEF WriteBlock, Idle
<1>2. /\ cur' = cur /\ orphans' = orphans /\ oldest' = oldest
      /\ orphanFailed' = orphanFailed /\ process' = process /\ header' = header
      /\ canon' = canon /\ lastBlock' = lastBlock /\ body' = body
      /\ txIndex' = txIndex /\ txData' = txData /\ receipt' = receipt
  BY <1>1 DEF db
<1>3. Shape /\ OrphanInv /\ ProcessInv /\ HeadInv /\ orphans \in Seq(Block \ {Genesis})
  BY DEF IInv, Shape
<1>4. sealed \in Block \ {Genesis} /\ sealed \notin BadBlock /\ miningOn = Parent[sealed]
  BY <1>1, <1>3, Zenon DEF Shape, TypeOK
<1>5. ASSUME NEW i \in DOMAIN orphans
      PROVE  /\ orphans[i] # sealed /\ Parent[orphans[i]] # sealed
             /\ orphans[i] # None /\ Parent[orphans[i]] # None
             /\ ~orphanFailed => Parent[orphans[i]] \notin header
  <2>1. orphans[i] \in Block \ {Genesis} /\ Parent[orphans[i]] # None
    BY ChainAssumption, <1>3
  <2>2. /\ orphans[i] # sealed /\ Parent[orphans[i]] # sealed
        /\ (~orphanFailed /\ Parent[orphans[i]] \in header)
              => Parent[orphans[i]] \in Range(process) \cup {accepting}
    BY <1>3, Zenon DEF OrphanInv
  <2>3. Range(process) = {}
    BY <1>1 DEF Range
  <2> QED
    BY ChainAssumption, <1>1, <2>1, <2>2, <2>3, Zenon DEF Range
<1>6. OrphansApart'
  BY <1>2, <1>3 DEF OrphanInv, OrphansApart
<1>7. CASE Writable(sealed)
  <2> DEFINE b == sealed
  <2>1. Begin(b, FALSE) /\ accepting' = b /\ adopt' = FALSE
    BY <1>1, <1>7 DEF Begin
  <2>2. Higher(b) => Parent[b] \in header
    <3> SUFFICES ASSUME Higher(b)
                 PROVE  Parent[b] \in header
      OBVIOUS
    <3>1. Goal = lastBlock /\ cur = lastBlock /\ lastBlock \in Block
      BY <1>1, <1>3, NothingTodo, Zenon DEF Shape, TypeOK
    <3>2. Parent[b] \in Block /\ Height[b] = Height[Parent[b]] + 1 /\ Parent[b] # None
      BY ChainAssumption, <1>4
    <3>3. Parent[b] = cur \/ Height[Parent[b]] < Height[cur]
      BY <1>3, <1>4, <3>1, <3>2 DEF HeadInv
    <3>4. Parent[b] = cur
      BY ChainAssumption, <1>4, <3>1, <3>2, <3>3 DEF Higher
    <3>5. cur \in Anc(cur) /\ Blocks(Todo, "header") = {}
      BY <1>1, <3>1, AncestorsStep, NothingTodo, Zenon
    <3> QED
      BY <3>1, <3>4, <3>5 DEF IInv, CanonInv
  <2>3. Starts(b)
    BY <1>1, <1>4, <1>7, <2>2 DEF Starts
  <2>4. /\ Shape' /\ HeadInv' /\ CanonInv' /\ TxInv'
        /\ Blocks(Todo', "header") = {b} /\ Blocks(Todo', "delHeader") = Off(b)
    <3>1. UNCHANGED <<db, cur, oldest, orphanFailed>>
      BY <1>1, <1>2
    <3>2. process' = process /\ orphans' \in Seq(Block \ {Genesis})
      BY <1>2, <1>3
    <3> QED
      BY <1>1, <2>1, <2>3, <3>1, <3>2, BeginStep, Zenon
  <2>5. OrphanInv'
    <3>1. /\ orphans' = orphans /\ header' = header /\ orphanFailed' = orphanFailed
          /\ accepting' = b /\ adopt' = FALSE /\ sealed' = None
          /\ Blocks(Todo', "header") = {b}
      BY <1>1, <1>2, <2>1, <2>4
    <3>2. ASSUME NEW i \in DOMAIN orphans
          PROVE  /\ orphans[i] # b /\ Parent[orphans[i]] # b
                 /\ orphans[i] # None /\ Parent[orphans[i]] # None
                 /\ ~orphanFailed => Parent[orphans[i]] \notin header
      BY <1>5
    <3> QED
      BY ONLY <1>6, <3>1, <3>2, Zenon DEF OrphanInv
  <2>6. ProcessInv'
    <3>1. b \notin Off(b)
      BY <1>4, AncestorsStep DEF Off
    <3>2. process' = <<>>
      BY <1>1, <1>2
    <3> QED
      BY <2>1, <2>4, <3>1, <3>2 DEF ProcessInv
  <2> QED
    BY <2>4, <2>5, <2>6 DEF IInv
<1>8. CASE ~Writable(sealed)
  <2>1. accepting' = accepting /\ writes' = writes /\ adopt' = adopt
    BY <1>1, <1>8
  <2>2. Todo' = Todo /\ Goal' = Goal /\ HeadInv' /\ CanonInv' /\ TxInv'
    BY <1>1, <1>2, <2>1, Quiet
  <2>3. Blocks(Todo, "header") = {}
    BY <1>1, NothingTodo
  <2>4. Shape'
    <3>1. TypeOK'
      BY <1>1, <1>2, <1>3, <2>1, Zenon DEF Shape, TypeOK
    <3> QED
      BY <1>1, <1>2, <1>3, <2>1, <2>2, <3>1, Zenon DEF Shape
  <2>5. OrphanInv'
    <3>1. /\ orphans' = orphans /\ header' = header /\ orphanFailed' = orphanFailed
          /\ accepting' = None /\ sealed' = None /\ Blocks(Todo', "header") = {}
      BY <1>1, <1>2, <2>1, <2>2, <2>3
    <3> QED
      BY ONLY <1>5, <1>6, <3>1, Zenon DEF OrphanInv
  <2>6. ProcessInv'
    BY <1>2, <1>3, <2>1, <2>2, Zenon DEF ProcessInv
  <2> QED
    BY <2>2, <2>4, <2>5, <2>6 DEF IInv
<1> QED
  BY <1>7, <1>8

\* A block whose parent is not stored joins the pool.
LEMMA AddOrphanStep ==
    ASSUME IInv, NEW b \in Block \ {Genesis}, AddOrphan(b)
    PROVE  IInv'
\* addOrphanBlock: what is left of the pool, and the new orphan after it.
<1>AddOrphanPool. /\ oldest' \in Block \cup {None}
                  /\ \E pool : /\ pool \in Seq(Block \ {Genesis}) /\ Within(pool, orphans)
                               /\ orphans' = Append(pool, b)
  \* removeOrphanBlock leaves the others as they are.
  <2>WithoutPool. ASSUME NEW S, NEW s \in Seq(S), NEW o
                  PROVE  Without(s, o) \in Seq(S) /\ Within(Without(s, o), s)
    <3> USE <2>WithoutPool
    <3>1. CASE o \in Range(s)
      <4> DEFINE i == CHOOSE i \in DOMAIN s : s[i] = o
      <4>1. i \in DOMAIN s
        BY <3>1 DEF Range
      <4>2. Without(s, o) = RemoveAt(s, i)
        BY <3>1 DEF Without
      <4> HIDE DEF i
      <4> QED
        BY <4>1, <4>2, Removed
    <3>2. CASE o \notin Range(s)
      BY <3>2 DEF Without, Within
    <3> QED
      BY <3>1, <3>2
  \* Dropping the oldest elements.
  <2>KeptPool. ASSUME NEW S, NEW s \in Seq(S), NEW n \in 0 .. Len(s)
               PROVE  SubSeq(s, n + 1, Len(s)) \in Seq(S) /\ Within(SubSeq(s, n + 1, Len(s)), s)
    <3> USE <2>KeptPool
    <3> DEFINE r == SubSeq(s, n + 1, Len(s))
    <3>1. Len(s) \in Nat /\ DOMAIN s = 1 .. Len(s)
      OBVIOUS
    <3>2. /\ r \in Seq(S) /\ DOMAIN r = 1 .. Len(s) - n
          /\ \A j \in 1 .. Len(s) - n : r[j] = s[n + j]
      BY <3>1
    <3> HIDE DEF r
    <3>3. ASSUME NEW j \in DOMAIN r PROVE n + j \in DOMAIN s /\ r[j] = s[n + j]
      BY <3>1, <3>2
    <3>4. ASSUME \A i, j \in DOMAIN s : s[i] = s[j] => i = j,
                 NEW i \in DOMAIN r, NEW j \in DOMAIN r, r[i] = r[j]
          PROVE  i = j
      <4>1. n + i = n + j
        BY <3>3, <3>4
      <4> QED
        BY <3>2, <4>1
    <3> QED
      BY <3>2, <3>3, <3>4 DEF Within, r
  \* Taking some out and then others keeps what is left within the pool.
  <2>WithinTrans. ASSUME NEW r, NEW s, NEW t, Within(r, s), Within(s, t)
                  PROVE  Within(r, t)
    BY <2>WithinTrans DEF Within
  <2> DEFINE B == Block \ {Genesis}
  <2>1. orphans \in Seq(B) /\ oldest \in Block \cup {None}
    BY DEF IInv, Shape, TypeOK
  <2>2. PICK expired \in 0 .. Len(orphans) :
            LET kept == SubSeq(orphans, expired + 1, Len(orphans))
                old  == IF oldest = None /\ kept # <<>> THEN kept[1] ELSE oldest
                full == Len(kept) + 1 > MaxOrphans
            IN  /\ orphans' = Append(IF full THEN Without(kept, old) ELSE kept, b)
                /\ oldest'  = IF full THEN None ELSE old
    BY Zenon DEF AddOrphan
  <2> DEFINE kept == SubSeq(orphans, expired + 1, Len(orphans))
             old  == IF oldest = None /\ kept # <<>> THEN kept[1] ELSE oldest
             full == Len(kept) + 1 > MaxOrphans
             pool == IF full THEN Without(kept, old) ELSE kept
  <2>3. orphans' = Append(pool, b) /\ oldest' = IF full THEN None ELSE old
    BY <2>2
  <2>4. kept \in Seq(B) /\ Within(kept, orphans)
    BY <2>1, <2>KeptPool
  <2> HIDE DEF kept
  <2>5. old \in Block \cup {None}
    <3>1. kept # <<>> => kept[1] \in B
      BY <2>4
    <3> QED
      BY <2>1, <3>1
  <2> HIDE DEF old
  <2>6. Without(kept, old) \in Seq(B) /\ Within(Without(kept, old), kept)
    BY <2>4, <2>WithoutPool
  <2>7. Within(Without(kept, old), orphans)
    BY <2>4, <2>6, <2>WithinTrans
  <2>8. pool \in Seq(B) /\ Within(pool, orphans)
    BY <2>4, <2>6, <2>7
  <2> HIDE DEF pool, full
  <2> QED
    BY <2>3, <2>5, <2>8
<1>1. /\ cur # None /\ writes = <<>> /\ accepting = None /\ process = <<>>
      /\ b \notin header /\ b \notin Range(orphans) /\ Parent[b] \notin header
      /\ sealed # None => sealed \notin Range(Chain[b])
      /\ UNCHANGED <<db, cur, miningOn, sealed, op>>
  BY DEF AddOrphan, Arrives, Idle, Unknown
<1>2. /\ cur' = cur /\ miningOn' = miningOn /\ sealed' = sealed
      /\ accepting' = accepting /\ writes' = writes /\ adopt' = adopt
      /\ orphanFailed' = orphanFailed /\ process' = process /\ header' = header
      /\ canon' = canon /\ lastBlock' = lastBlock /\ body' = body
      /\ txIndex' = txIndex /\ txData' = txData /\ receipt' = receipt
  BY <1>1 DEF db, op
<1>3. Shape /\ OrphanInv /\ ProcessInv /\ orphans \in Seq(Block \ {Genesis})
  BY DEF IInv, Shape
<1>4. Todo' = Todo /\ Goal' = Goal /\ HeadInv' /\ CanonInv' /\ TxInv'
  BY <1>1, <1>2, Quiet
<1>5. Blocks(Todo, "header") = {} /\ Range(process) = {}
  BY <1>1, NothingTodo DEF Range
<1>6. oldest' \in Block \cup {None}
  BY <1>AddOrphanPool
<1>7. PICK pool : /\ pool \in Seq(Block \ {Genesis}) /\ Within(pool, orphans)
                  /\ orphans' = Append(pool, b)
  BY <1>AddOrphanPool
<1>8. /\ orphans' \in Seq(Block \ {Genesis}) /\ Len(pool) \in Nat
      /\ DOMAIN pool = 1 .. Len(pool) /\ DOMAIN orphans' = 1 .. Len(pool) + 1
      /\ orphans'[Len(pool) + 1] = b /\ \A i \in 1 .. Len(pool) : orphans'[i] = pool[i]
  BY <1>7
<1>9. \A i \in DOMAIN orphans' : orphans'[i] = b \/ \E j \in DOMAIN orphans : orphans'[i] = orphans[j]
  <2> TAKE i \in DOMAIN orphans'
  <2>1. CASE i = Len(pool) + 1
    BY <1>8, <2>1
  <2>2. CASE i # Len(pool) + 1
    <3>1. i \in DOMAIN pool /\ orphans'[i] = pool[i]
      BY <1>8, <2>2
    <3>2. \E j \in DOMAIN orphans : pool[i] = orphans[j]
      BY <1>7, <3>1 DEF Within
    <3> QED
      BY <3>1, <3>2
  <2> QED
    BY <2>1, <2>2
<1>10. \A j \in DOMAIN orphans : orphans[j] # b
  <2>1. b \notin Range(orphans)
    BY <1>1, <1>3
  <2> QED
    BY <2>1 DEF Range
<1>11. OrphansApart'
  <2>1. \A i, j \in DOMAIN pool : pool[i] = pool[j] => i = j
    BY <1>3, <1>7 DEF OrphanInv, OrphansApart, Within
  <2>2. \A i \in DOMAIN pool : pool[i] # b
    BY <1>7, <1>10 DEF Within
  <2>3. ASSUME NEW i \in DOMAIN orphans', NEW j \in DOMAIN orphans', orphans'[i] = orphans'[j]
        PROVE  i = j
    <3>1. i \in DOMAIN pool \/ i = Len(pool) + 1
      BY <1>8
    <3>2. j \in DOMAIN pool \/ j = Len(pool) + 1
      BY <1>8
    <3> QED
      BY <1>8, <2>1, <2>2, <2>3, <3>1, <3>2
  <2>4. \A i \in DOMAIN orphans' : orphans'[i] \notin header'
    BY <1>1, <1>2, <1>3, <1>9, Zenon DEF OrphanInv, OrphansApart
  <2> QED
    BY <2>3, <2>4 DEF OrphansApart
<1>12. b # sealed /\ Parent[b] # sealed /\ Parent[b] # None /\ b # None
  <2>1. Chain[b] \in Seq(Block)
    BY ChainShape
  <2>2. b \in Anc(b) /\ Parent[b] \in Anc(Parent[b]) /\ Anc(b) = {b} \cup Anc(Parent[b])
    BY ChainAssumption, AncestorsStep
  <2>3. sealed # None => sealed \notin Anc(b)
    BY <1>1, <2>1 DEF Anc
  <2>4. Parent[b] \in Block /\ b \in Block
    BY ChainAssumption
  <2> QED
    BY ChainAssumption, <2>2, <2>3, <2>4
<1>13. OrphanInv'
  <2> DEFINE Fits(o) == /\ o \notin {None, sealed} /\ Parent[o] # sealed /\ Parent[o] # None
                        /\ (~orphanFailed /\ Parent[o] \in header) => FALSE
  <2>1. Fits(b)
    BY <1>1, <1>12
  <2>2. ASSUME NEW j \in DOMAIN orphans PROVE Fits(orphans[j])
    <3>1. orphans[j] \in Block \ {Genesis}
      BY <1>3
    <3>2. /\ orphans[j] # sealed /\ Parent[orphans[j]] # sealed
          /\ (~orphanFailed /\ Parent[orphans[j]] \in header)
                => Parent[orphans[j]] \in Range(process) \cup {accepting}
      BY <1>3 DEF OrphanInv
    <3>3. Parent[orphans[j]] # None /\ orphans[j] # None
      BY ChainAssumption, <3>1
    <3> QED
      BY <1>1, <1>5, <3>2, <3>3
  <2>3. \A i \in DOMAIN orphans' : Fits(orphans'[i])
    <3> HIDE DEF Fits
    <3> QED
      BY <1>9, <2>1, <2>2
  <2> QED
    BY <1>1, <1>2, <1>4, <1>5, <1>11, <2>3, Zenon DEF OrphanInv
<1>14. Shape'
  <2>1. \A i \in DOMAIN orphans' : orphans'[i] \in Block
    <3>1. \A j \in DOMAIN orphans : orphans[j] \in Block
      BY <1>3, Zenon DEF Shape, TypeOK
    <3> QED
      BY <1>9, <3>1
  <2>2. TypeOK'
    BY <1>2, <1>3, <1>6, <2>1, Zenon DEF Shape, TypeOK
  <2> QED
    BY <1>1, <1>2, <1>3, <1>4, <1>8, <2>2, Zenon DEF Shape
<1>15. ProcessInv'
  BY <1>2, <1>3, <1>4, Zenon DEF ProcessInv
<1> QED
  BY <1>4, <1>13, <1>14, <1>15 DEF IInv

\* processOrphans taking the next orphan of the block in front.
LEMMA ProcessOrphanStep ==
    ASSUME IInv, ProcessOrphan
    PROVE  IInv'
<1>1. PICK i \in ChildrenOf(Head(process)) :
          /\ orphans' = RemoveAt(orphans, i)
          /\ IF Acceptable(orphans[i])
             THEN Begin(orphans[i], TRUE) /\ UNCHANGED <<process, orphanFailed>>
             ELSE /\ process' = <<>> /\ orphanFailed' = TRUE
                  /\ UNCHANGED <<accepting, writes, adopt>>
  BY Zenon DEF ProcessOrphan
<1>2. accepting = None /\ process # <<>> /\ UNCHANGED <<db, cur, oldest, miningOn, sealed>>
  BY DEF ProcessOrphan
<1>3. /\ cur' = cur /\ oldest' = oldest /\ miningOn' = miningOn /\ sealed' = sealed
      /\ header' = header /\ canon' = canon /\ lastBlock' = lastBlock /\ body' = body
      /\ txIndex' = txIndex /\ txData' = txData /\ receipt' = receipt
  BY <1>2 DEF db
<1>4. /\ Shape /\ OrphanInv /\ ProcessInv /\ orphans \in Seq(Block \ {Genesis})
      /\ process \in Seq(Block)
  BY DEF IInv, Shape
<1>5. /\ writes = <<>> /\ cur # None /\ \A k : Blocks(Todo, k) = {}
  BY <1>2, <1>4, NothingTodo DEF Shape, Idle
<1> DEFINE b == orphans[i]
<1>6. /\ i \in DOMAIN orphans /\ b \in Block \ {Genesis} /\ Parent[b] = process[1]
      /\ 1 \in DOMAIN process
  <2>1. Head(process) = process[1] /\ 1 \in DOMAIN process
    BY <1>2, <1>4
  <2>2. i \in DOMAIN orphans /\ Parent[orphans[i]] = process[1]
    BY <1>1, <2>1 DEF ChildrenOf
  <2>3. orphans[i] \in Block \ {Genesis}
    BY <1>4, <2>2
  <2> QED
    BY <2>1, <2>2, <2>3
<1>7. /\ b \notin header /\ process[1] \in header
      /\ \A j, k \in DOMAIN orphans : orphans[j] = orphans[k] => j = k
  BY <1>4, <1>6, Zenon DEF OrphanInv, OrphansApart, ProcessInv
<1>8. /\ orphans' \in Seq(Block \ {Genesis}) /\ Within(orphans', orphans)
      /\ \A j \in DOMAIN orphans' : orphans'[j] # b
  <2> DEFINE r == RemoveAt(orphans, i)
  <2>1. r \in Seq(Block \ {Genesis}) /\ Within(r, orphans)
    BY <1>4, <1>6, Removed, Zenon
  <2>2. \A j \in DOMAIN r : r[j] # orphans[i]
    <3>1. orphans \in Seq(Block \ {Genesis}) /\ i \in DOMAIN orphans
      BY <1>4, <1>6
    <3>2. (\A j, k \in DOMAIN orphans : orphans[j] = orphans[k] => j = k)
             => \A j \in DOMAIN r : r[j] # orphans[i]
      BY ONLY <3>1, Removed, Zenon
    <3> QED
      BY ONLY <1>7, <3>2
  <2> HIDE DEF r
  <2>3. orphans' = r
    BY <1>1 DEF r
  <2> QED
    BY <2>1, <2>2, <2>3
<1>9. \A j \in DOMAIN orphans' : \E k \in DOMAIN orphans : orphans'[j] = orphans[k]
  BY <1>8 DEF Within
<1>10. OrphansApart'
  <2>1. \A j, k \in DOMAIN orphans' : orphans'[j] = orphans'[k] => j = k
    BY <1>7, <1>8 DEF Within
  <2>2. \A j \in DOMAIN orphans : orphans[j] \notin header
    BY <1>4 DEF OrphanInv, OrphansApart
  <2> QED
    BY <1>3, <1>9, <2>1, <2>2 DEF OrphansApart
<1>11. ASSUME NEW k \in DOMAIN orphans
       PROVE  /\ orphans[k] \notin {None, sealed} /\ Parent[orphans[k]] # sealed
              /\ Parent[orphans[k]] # None /\ orphans[k] \in Block
              /\ (~orphanFailed /\ Parent[orphans[k]] \in header)
                    => Parent[orphans[k]] \in Range(process)
  <2>1. orphans[k] \in Block \ {Genesis}
    BY <1>4
  <2>2. /\ orphans[k] # sealed /\ Parent[orphans[k]] # sealed
        /\ (~orphanFailed /\ Parent[orphans[k]] \in header)
              => Parent[orphans[k]] \in Range(process) \cup {accepting}
    BY <1>4 DEF OrphanInv
  <2>3. Parent[orphans[k]] # None /\ orphans[k] # None
    BY ChainAssumption, <2>1
  <2> QED
    BY <1>2, <2>1, <2>2, <2>3
<1>12. CASE Acceptable(b)
  <2>1. Begin(b, TRUE) /\ process' = process /\ orphanFailed' = orphanFailed
        /\ accepting' = b /\ adopt' = TRUE
    BY <1>1, <1>12 DEF Begin
  <2>2. Starts(b)
    BY <1>2, <1>5, <1>6, <1>7, <1>12 DEF Starts, Acceptable
  <2> HIDE DEF b
  <2>3. /\ Shape' /\ HeadInv' /\ CanonInv' /\ TxInv'
        /\ Goal' = IF Higher(b) THEN b ELSE cur
        /\ Blocks(Todo', "header") = {b} /\ Blocks(Todo', "delHeader") = Off(b)
    <3>1. UNCHANGED <<db, cur, oldest, orphanFailed>>
      BY <1>2, <2>1
    <3> QED
      BY <1>3, <1>8, <2>1, <2>2, <3>1, BeginStep, Zenon
  <2>4. /\ cur \in Block /\ Goal = cur /\ cur \in header
        /\ \A c \in header : Height[c] <= Height[cur]
        /\ Higher(b) => Height[b] = Height[cur] + 1
    BY <2>2, StartsFacts
  <2>5. OrphanInv'
    <3>1. ASSUME NEW j \in DOMAIN orphans'
          PROVE  /\ orphans'[j] \notin {b, sealed} /\ Parent[orphans'[j]] # sealed
                 /\ (~orphanFailed /\ Parent[orphans'[j]] \in header \cup {b})
                       => Parent[orphans'[j]] \in Range(process) \cup {b}
      <4>1. PICK k \in DOMAIN orphans : orphans'[j] = orphans[k]
        BY <1>9
      <4>2. orphans'[j] # b
        BY <1>8
      <4> QED
        BY <1>11, <4>1, <4>2
    <3> QED
      BY <1>3, <1>10, <2>1, <2>3, <3>1, Zenon DEF OrphanInv
  <2>6. ASSUME NEW j \in DOMAIN process
        PROVE  /\ process[j] \in header /\ process[j] \in Block
               /\ Height[process[j]] <= Height[process[1]] + 1
               /\ \A k \in DOMAIN process : j < k =>
                     /\ Height[process[j]] <= Height[process[k]]
                     /\ process[k] = Goal => Height[process[j]] < Height[process[k]]
    <3>1. process[j] \in Block
      BY <1>4
    <3> QED
      BY <1>4, <3>1, Zenon DEF ProcessInv
  <2>7. Height[b] = Height[process[1]] + 1 /\ Height[process[1]] \in Nat
    <3>1. process[1] \in Block
      BY <1>6, <2>6
    <3> QED
      BY ChainAssumption, <1>6, <3>1, Zenon DEF b
  <2>8. ASSUME NEW j \in DOMAIN process PROVE process[j] \notin Off(b)
    <3> SUFFICES ASSUME process[j] \in Off(b)
                 PROVE  FALSE
      OBVIOUS
    <3>1. Higher(b) /\ process[j] \in Anc(cur) /\ process[j] \notin Anc(b)
      BY DEF Off
    <3>2. Height[process[1]] = Height[cur] /\ Height[cur] \in Nat
      BY ChainAssumption, <2>4, <2>7, <3>1
    <3>3. process[1] \in Anc(b)
      <4>1. b \in Block \ {Genesis} /\ Parent[b] = process[1] /\ process[1] \in Block
        BY <1>6, <2>6 DEF b
      <4> QED
        BY <4>1, AncestorsStep, Zenon
    <3>4. j # 1
      BY <3>1, <3>3
    <3>5. 1 < j
      BY <1>4, <3>4
    <3>6. /\ Height[process[1]] <= Height[process[j]]
          /\ process[j] = Goal => Height[process[1]] < Height[process[j]]
      BY <1>6, <2>6, <3>5
    <3>7. Height[process[j]] <= Height[cur]
      BY <2>4, <2>6
    <3>8. Height[process[j]] = Height[cur]
      <4>1. Height[process[j]] \in Nat
        BY ChainAssumption, <2>6
      <4> QED
        BY <3>2, <3>6, <3>7, <4>1
    <3>9. process[j] = cur
      <4>1. cur \in Anc(cur)
        BY <2>4, AncestorsStep
      <4> QED
        BY <2>4, <3>1, <3>8, <4>1, AncestorUnique
    <3> QED
      BY <2>4, <3>2, <3>6, <3>8, <3>9
  <2>9. b \notin header /\ b # cur
    BY <1>7, <2>4 DEF b
  <2>10. ASSUME NEW j \in DOMAIN process, b = Goal' PROVE Height[process[j]] < Height[b]
    <3>1. Higher(b)
      BY <2>3, <2>9, <2>10
    <3>2. Height[process[j]] <= Height[cur] /\ Height[process[j]] \in Nat /\ Height[cur] \in Nat
      BY ChainAssumption, <2>4, <2>6
    <3> QED
      BY <2>4, <3>1, <3>2
  <2>11. ASSUME NEW j \in DOMAIN process, process[j] = Goal' PROVE Goal' = Goal
    BY <2>3, <2>4, <2>6, <2>9, <2>11
  <2>12. ProcessInv'
    <3>1. b \notin Off(b)
      <4>1. b \in Block
        BY <1>6, Zenon DEF b
      <4> QED
        BY <4>1, AncestorsStep, Zenon DEF Off
    <3>2. ASSUME NEW j \in DOMAIN process, NEW k \in DOMAIN process, j < k
          PROVE  /\ Height[process[j]] <= Height[process[k]]
                 /\ process[k] = Goal' => Height[process[j]] < Height[process[k]]
      BY <2>6, <2>11, <3>2
    <3>3. \A j \in DOMAIN process : /\ process[j] \in header
                                    /\ Height[process[j]] <= Height[process[1]] + 1
      BY <2>6
    <3> QED
      BY <1>3, <2>1, <2>3, <2>7, <2>8, <2>10, <3>1, <3>2, <3>3, Zenon DEF ProcessInv
  <2> QED
    BY <2>3, <2>5, <2>12 DEF IInv
<1>13. CASE ~Acceptable(b)
  <2>1. process' = <<>> /\ orphanFailed' = TRUE /\ accepting' = accepting
        /\ writes' = writes /\ adopt' = adopt
    BY <1>1, <1>13
  <2>2. Todo' = Todo /\ Goal' = Goal /\ HeadInv' /\ CanonInv' /\ TxInv'
    BY <1>2, <1>3, <2>1, Quiet
  <2>3. Shape'
    <3>1. \A j \in DOMAIN orphans' : orphans'[j] \in Block
      BY <1>9, <1>11
    <3>2. \A j \in DOMAIN process' : process'[j] \in Block
      BY <2>1
    <3>3. TypeOK'
      BY <1>3, <1>4, <2>1, <3>1, <3>2, Zenon DEF Shape, TypeOK
    <3>4. process' \in Seq(Block)
      BY <2>1
    <3> QED
      BY <1>3, <1>4, <1>5, <1>8, <2>1, <2>2, <3>3, <3>4, Zenon DEF Shape
  <2>4. OrphanInv'
    <3>1. ASSUME NEW j \in DOMAIN orphans'
          PROVE  /\ orphans'[j] \notin {None, sealed} /\ Parent[orphans'[j]] # sealed
                 /\ Parent[orphans'[j]] # None
      <4>1. PICK k \in DOMAIN orphans : orphans'[j] = orphans[k]
        BY <1>9
      <4> QED
        BY <1>11, <4>1, Zenon
    <3> QED
      BY <1>2, <1>3, <1>5, <1>10, <2>1, <2>2, <3>1, Zenon DEF OrphanInv
  <2>5. ProcessInv'
    BY <1>2, <2>1 DEF ProcessInv
  <2> QED
    BY <2>2, <2>3, <2>4, <2>5 DEF IInv
<1> QED
  BY <1>12, <1>13

-----------------------------------------------------------------------------
(* The theorems.                                                           *)

\* The store as WriteGenesisBlockN leaves it.
LEMMA InitInv ==
    ASSUME Init
    PROVE  IInv
<1>1. /\ header = {Genesis} /\ body = {Genesis}
      /\ canon = [n \in Heights |-> IF n = 0 THEN Genesis ELSE None]
      /\ lastBlock = Genesis /\ cur = Genesis
      /\ txIndex = [t \in Tx |-> None] /\ txData = {} /\ receipt = [t \in Tx |-> None]
      /\ orphans = <<>> /\ oldest = None /\ miningOn = None /\ sealed = None
      /\ writes = <<>> /\ accepting = None /\ adopt = FALSE /\ process = <<>>
      /\ orphanFailed = FALSE
  BY DEF Init
<1>2. /\ Todo = {} /\ Goal = Genesis
      /\ \A k : Blocks(Todo, k) = {} /\ TxsIn(Todo, k) = {}
  BY <1>1, NothingTodo
<1>3. Anc(Genesis) = {Genesis}
  BY ChainAssumption, AncestorsStep, Zenon
<1>4. Shape
  <2>1. TypeOK
    <3>1. \A i \in DOMAIN <<>> : FALSE
      OBVIOUS
    <3> QED
      BY ChainAssumption, <1>1, <3>1, Zenon DEF TypeOK
  <2>2. LastOf(writes, accepting) /\ ReceiptsLast(writes)
    <3>1. writes = <<>> /\ Range(<<>>) = {}
      BY <1>1, EmptyRange, Zenon
    <3> QED
      BY <3>1 DEF LastOf, ReceiptsLast
  <2>3. Genesis # None
    BY ChainAssumption
  <2>4. <<>> \in Seq(Block \ {Genesis}) /\ <<>> \in Seq(Block) /\ <<>> \in Seq(WriteType)
    OBVIOUS
  <2> QED
    BY <1>1, <1>2, <2>1, <2>2, <2>3, <2>4, Zenon DEF Shape
<1>5. HeadInv
  BY ChainAssumption, <1>1, <1>2 DEF HeadInv
<1>6. CanonInv
  <2>1. 0 \in Heights /\ canon[0] = Genesis
    <3>1. 0 \in Heights
      BY ChainAssumption DEF Heights
    <3> QED
      BY <1>1, <3>1
  <2>2. ASSUME NEW n \in Heights, n > 0 PROVE canon[n] = None
    <3>1. n \in Nat
      BY ChainAssumption DEF Heights
    <3>2. n # 0
      BY <2>2, <3>1
    <3> QED
      BY <1>1, <3>2
  <2> QED
    BY <1>1, <1>2, <1>3, <2>1, <2>2 DEF CanonInv
<1>7. TxInv
  BY ChainAssumption, <1>2, <1>3, Zenon DEF TxInv
<1>a. orphans = <<>> /\ process = <<>> /\ accepting = None /\ \A i \in DOMAIN <<>> : FALSE
  BY <1>1
<1>8. OrphanInv
  BY ONLY <1>a DEF OrphanInv, OrphansApart
<1>9. ProcessInv
  BY ONLY <1>a DEF ProcessInv
<1> QED
  BY <1>4, <1>5, <1>6, <1>7, <1>8, <1>9 DEF IInv

\* A step that changes nothing.
LEMMA StutterStep ==
    ASSUME IInv, UNCHANGED vars
    PROVE  IInv'
<1>1. UNCHANGED <<db, memory, op>>
  BY DEF vars
<1>2. /\ cur' = cur /\ orphans' = orphans /\ oldest' = oldest /\ accepting' = accepting
      /\ sealed' = sealed /\ writes' = writes /\ adopt' = adopt /\ orphanFailed' = orphanFailed
      /\ miningOn' = miningOn /\ process' = process
      /\ header' = header /\ canon' = canon /\ lastBlock' = lastBlock /\ body' = body
      /\ txIndex' = txIndex /\ txData' = txData /\ receipt' = receipt
  BY <1>1 DEF db, memory, op
<1>3. Todo' = Todo /\ Goal' = Goal /\ HeadInv' /\ CanonInv' /\ TxInv'
  BY <1>1, <1>2, Quiet
<1>4. Shape /\ OrphanInv /\ ProcessInv
  BY DEF IInv
<1>5. Shape'
  <2>1. TypeOK'
    BY <1>2, <1>4, Zenon DEF Shape, TypeOK
  <2> QED
    BY <1>2, <1>3, <1>4, <2>1 DEF Shape, Idle
<1>6. OrphanInv'
  BY <1>2, <1>3, <1>4, Zenon DEF OrphanInv, OrphansApart
<1>7. ProcessInv'
  BY <1>2, <1>3, <1>4, Zenon DEF ProcessInv
<1> QED
  BY <1>3, <1>5, <1>6, <1>7 DEF IInv

\* Every step of a node that is stopped only between operations keeps the
\* invariant.
LEMMA StepInv ==
    ASSUME IInv, [Operate \/ (Idle /\ Crash)]_vars
    PROVE  IInv'
<1>1. ASSUME NEW b \in Block \ {Genesis}, InsertChain(b) \/ AddOrphan(b) \/ Seal(b) PROVE IInv'
  BY <1>1, InsertChainStep, AddOrphanStep, SealStep
<1>2. CASE Perform
  BY <1>2, PerformStep
<1>3. CASE Accepted
  BY <1>3, AcceptedStep
<1>4. CASE ProcessOrphan
  BY <1>4, ProcessOrphanStep
<1>5. CASE ProcessDone
  BY <1>5, ProcessDoneStep
<1>6. CASE TakeWork
  BY <1>6, TakeWorkStep
<1>7. CASE WriteBlock
  BY <1>7, WriteBlockStep
<1>8. CASE Restart \/ (Idle /\ Crash)
  BY <1>8, StopStep
<1>9. CASE UNCHANGED vars
  BY <1>9, StutterStep
<1> QED
  BY <1>1, <1>2, <1>3, <1>4, <1>5, <1>6, <1>7, <1>8, <1>9 DEF Operate

\* The inductive invariant holds at every moment, also between two writes of
\* an operation, when a reorg has only begun.
THEOREM StoreInvariant == Spec => []IInv
<1>1. Init => IInv
  BY InitInv
<1>2. IInv /\ [Operate \/ (Idle /\ Crash)]_vars => IInv'
  BY StepInv
<1> QED
  BY <1>1, <1>2, PTL DEF Spec

\* Between operations the head is the goal, and its chain is stored and
\* indexed.
LEMMA AtRestFacts ==
    ASSUME IInv, AtRest
    PROVE  /\ cur = lastBlock /\ Goal = cur /\ cur \in Block
           /\ accepting = None /\ process = <<>>
           /\ \A k : Blocks(Todo, k) = {} /\ TxsIn(Todo, k) = {}
           /\ \A c \in Anc(cur) : c = canon[Height[c]] /\ c \in header /\ c \in body
<1>1. writes = <<>> /\ accepting = None /\ process = <<>> /\ cur # None
  BY DEF AtRest, Idle
<1>2. cur = lastBlock /\ cur \in Block
  BY <1>1 DEF IInv, Shape, TypeOK
<1>3. Goal = cur /\ \A k : Blocks(Todo, k) = {} /\ TxsIn(Todo, k) = {}
  BY <1>1, <1>2, NothingTodo
<1>4. \A c \in Anc(cur) : c = canon[Height[c]] /\ c \in header /\ c \in body
  BY <1>3 DEF IInv, CanonInv
<1> QED
  BY <1>1, <1>2, <1>3, <1>4, Zenon

\* Every variable of the store keeps its type.
THEOREM StoreTypes == Spec => []TypeOK
<1>1. IInv => TypeOK
  BY DEF IInv, Shape
<1> QED
  BY <1>1, StoreInvariant, PTL

\* The head is the highest block stored, whatever the order in which peers
\* and the miner brought the blocks (writeBlock).
THEOREM HeadAlwaysHighest == Spec => []HeadIsHighest
<1>1. IInv => HeadIsHighest
  <2> SUFFICES ASSUME IInv, AtRest
               PROVE  \A b \in header : Height[b] <= Height[cur]
    BY DEF HeadIsHighest
  <2> QED
    BY AtRestFacts, Zenon DEF IInv, HeadInv
<1> QED
  BY <1>1, StoreInvariant, PTL

\* Between operations the height index is the chain of the head, its headers
\* and bodies are stored and nothing is indexed above it: reorg and
\* insertBHeader2Chain together bring that about for every pair of branches.
THEOREM CanonicalChainAlways == Spec => []CanonicalChain
<1>1. IInv => CanonicalChain
  <2> SUFFICES ASSUME IInv, AtRest
               PROVE  /\ lastBlock = cur
                      /\ \A n \in Heights :
                            IF n <= Height[cur]
                            THEN /\ canon[n] = Chain[cur][Height[cur] - n + 1]
                                 /\ canon[n] \in header /\ canon[n] \in body
                            ELSE canon[n] = None
    BY DEF CanonicalChain
  <2>1. /\ cur = lastBlock /\ Goal = cur /\ cur \in Block
        /\ \A c \in Anc(cur) : c = canon[Height[c]] /\ c \in header /\ c \in body
    BY AtRestFacts
  <2>2. ASSUME NEW n \in Heights
        PROVE  IF n <= Height[cur]
               THEN /\ canon[n] = Chain[cur][Height[cur] - n + 1]
                    /\ canon[n] \in header /\ canon[n] \in body
               ELSE canon[n] = None
    <3>1. n \in Nat /\ Height[cur] \in Nat
      BY <2>1, ChainAssumption DEF Heights
    <3>2. CASE n <= Height[cur]
      <4>1. n \in 0 .. Height[cur]
        BY <3>1, <3>2
      <4>2. /\ Chain[cur][Height[cur] - n + 1] \in Anc(cur)
            /\ Height[Chain[cur][Height[cur] - n + 1]] = n
        BY <2>1, <4>1, AncestorAt
      <4> QED
        BY <2>1, <3>2, <4>2
    <3>3. CASE ~(n <= Height[cur])
      <4>1. n > Height[cur]
        BY <3>1, <3>3
      <4>2. canon[n] = None
        BY <2>1, <4>1 DEF IInv, CanonInv
      <4> QED
        BY <3>3, <4>2
    <3> QED
      BY <3>2, <3>3
  <2> QED
    BY <2>1, <2>2
<1> QED
  BY <1>1, StoreInvariant, PTL

\* The transactions of the chain of the head have their data, their receipt
\* and their index entry, though reorg deletes those of the old branch.
THEOREM CanonicalTxsAlwaysFound == Spec => []CanonicalTxsFound
<1>1. IInv => CanonicalTxsFound
  <2> SUFFICES ASSUME IInv, AtRest, NEW n \in 0 .. Height[cur], NEW t \in TxsOf[canon[n]]
               PROVE  t \in txData /\ receipt[t] # None /\ txIndex[t] # None
    BY DEF CanonicalTxsFound
  <2>1. /\ Goal = cur /\ cur \in Block
        /\ \A k : Blocks(Todo, k) = {} /\ TxsIn(Todo, k) = {}
        /\ \A c \in Anc(cur) : c = canon[Height[c]]
    BY AtRestFacts, Zenon
  <2>2. canon[n] \in Anc(cur)
    <3>1. /\ Chain[cur][Height[cur] - n + 1] \in Anc(cur)
          /\ Height[Chain[cur][Height[cur] - n + 1]] = n
      BY <2>1, AncestorAt
    <3> QED
      BY <2>1, <3>1
  <2> QED
    BY <2>1, <2>2 DEF IInv, TxInv
<1> QED
  BY <1>1, StoreInvariant, PTL

\* An orphan is never among the stored blocks, and in the pool only once.
THEOREM OrphansAlwaysApart == Spec => []OrphansApart
<1>1. IInv => OrphansApart
  BY DEF IInv, OrphanInv
<1> QED
  BY <1>1, StoreInvariant, PTL

\* No orphan is left waiting for a block that InsertChain has stored, unless
\* processOrphans was stopped by an orphan that failed.
THEOREM OrphansAlwaysAdopted == Spec => []OrphansAdopted
<1>1. IInv => OrphansAdopted
  <2> SUFFICES ASSUME IInv, AtRest, ~orphanFailed, NEW i \in DOMAIN orphans,
                      Parent[orphans[i]] \in header
               PROVE  FALSE
    BY DEF OrphansAdopted
  <2>1. accepting = None /\ process = <<>>
    BY AtRestFacts
  <2>2. Range(process) = {}
    BY <2>1 DEF Range
  <2>3. Parent[orphans[i]] = None
    BY <2>1, <2>2 DEF IInv, OrphanInv
  <2>4. orphans[i] \in Block \ {Genesis}
    BY DEF IInv, Shape
  <2> QED
    BY <2>3, <2>4, ChainAssumption
<1> QED
  BY <1>1, StoreInvariant, PTL

\* The parent that maybeAcceptBlock reads for an orphan without looking
\* whether it is there is there, whatever reorg deleted on the way.
THEOREM ParentAlwaysAtHand == Spec => []ParentAtHand
<1>1. IInv => ParentAtHand
  BY DEF IInv, ProcessInv, ParentAtHand
<1> QED
  BY <1>1, StoreInvariant, PTL

\* A node stopped between operations finds the header that LastBlock names
\* when setLastState looks for it.
THEOREM CleanStopRestarts == Spec => []RestartFindsHead
<1>1. IInv => RestartFindsHead
  <2> SUFFICES ASSUME IInv, cur = None
               PROVE  lastBlock \in header
    BY DEF RestartFindsHead
  <2>1. writes = <<>> /\ lastBlock \in Block
    BY Zenon DEF IInv, Shape, TypeOK, Idle
  <2>2. Goal = lastBlock /\ Blocks(Todo, "header") = {}
    BY <2>1, NothingTodo
  <2>3. lastBlock \in Anc(lastBlock)
    BY <2>1, AncestorsStep
  <2> QED
    BY <2>2, <2>3 DEF IInv, CanonInv
<1> QED
  BY <1>1, StoreInvariant, PTL
=============================================================================
