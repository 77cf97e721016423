SPECIFICATION Spec
CONSTANTS
    g = g
    a1 = a1
    a2 = a2
    b1 = b1
    b2 = b2
    b3 = b3
    c2 = c2
    c3 = c3
    d3 = d3
    shared = shared
    only = only
    None = None
    Genesis = g
    Tx <- MCTx
    Block <- MCBlock
    Parent <- MCParent
    Height <- MCHeight
    TxsOf <- MCTxs
    BadBlock = {d3}
    MaxOrphans = 3
INVARIANTS
     HeadIsHighest 
    OrphansApart OrphansAdopted ParentAtHand
CHECK_DEADLOCK FALSE
