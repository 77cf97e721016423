SPECIFICATION FairSpec
CONSTANTS
    p1 = p1
    p2 = p2
    NoPeer = NoPeer
    NoPack = NoPack
    Peer <- MCPeer
    PeerHeight <- FarAhead
    Fork = 1
    OurHeight = 4
    MaxHashesFetch = 2
    ReserveCount = 5
    MaxSessions = 1
    Faults = {}
    MaxFaults = 0
    MaxProcs = 2
INVARIANT AncestorIsCommon
PROPERTIES AncestorIsHighest 
CHECK_DEADLOCK FALSE
