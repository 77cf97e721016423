SPECIFICATION Spec
CONSTANTS
    p1 = p1
    p2 = p2
    NoPeer = NoPeer
    NoPack = NoPack
    Peer <- MCPeer
    PeerHeight <- SameHeights
    Fork = 0
    OurHeight = 0
    MaxHashesFetch = 2
    ReserveCount = 1
    MaxSessions = 2
    Faults = {"lost", "late hashes", "late blocks", "send", "drop", "insert"}
    MaxFaults = 1
    MaxProcs = 2
INVARIANTS TypeOK FetchersEnded BlocksConnect
CHECK_DEADLOCK FALSE
SYMMETRY Symmetry
