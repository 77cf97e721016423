SPECIFICATION Spec
CONSTANTS
    a = a
    b = b
    t0 = t0
    t1 = t1
    t2 = t2
    u1 = u1
    v0 = v0
    Tx <- MCTx
    Addr <- MCAddr
    From <- MCFrom
    Nonce <- MCNonce
    Price <- MCPrice
    MaxSize = 2
    MaxQueued = 1
    MaxNonce = 1
    MaxPriced = 3
INVARIANTS Disjoint PricedHoldsPool RoomToEvict QueueLimited
PROPERTY NothingVanishes
CHECK_DEADLOCK FALSE
