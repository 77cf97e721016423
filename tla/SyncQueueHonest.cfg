SPECIFICATION LiveSpec
CONSTANTS
    h1 = h1
    h2 = h2
    h3 = h3
    p1 = p1
    p2 = p2
    NoBlock = NoBlock
    NoPeer = NoPeer
    Hash <- MCHash
    Peer <- MCPeer
    Height <- ChainHeight
    CacheLimit = 2
    ReserveCount = 2
    MaxCounter = 3
    Starts = {1}
    HashLists <- Lists
    BlockLists <- Lists
INVARIANTS SlotForEveryRequest NothingForgotten
PROPERTY EveryBlockIsFed
