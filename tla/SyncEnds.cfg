SPECIFICATION FairSpec
CONSTANTS
    p1 = p1
    p2 = p2
    NoPeer = NoPeer
    NoPack = NoPack
    Peer <- MCPeer
    PeerHeight <- SameHeights
    Fork = 0
    OurHeight = 0
    MaxHashesFetch = 2
    ReserveCount = 2
    MaxSessions = 2
    Faults = {"late hashes", "lost", "drop", "insert"}
    MaxFaults = 1
    MaxProcs = 2
PROPERTY EndsOrWaitsForReader
CHECK_DEADLOCK FALSE
