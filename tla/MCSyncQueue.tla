---------------------------- MODULE MCSyncQueue ----------------------------
(* Instances of SyncQueue for TLC.                                         *)
EXTENDS SyncQueue, TLC

CONSTANTS h1, h2, h3, p1, p2

MCPeer == {p1, p2}
MCHash == {h1, h2, h3}

\* two blocks of one height, as after a reorganisation of the peer
ForkHeight  == h1 :> 1 @@ h2 :> 2 @@ h3 :> 2

\* the chain h1, h2, h3
ChainHeight == h1 :> 1 @@ h2 :> 2 @@ h3 :> 3

ListsUpTo(n) == UNION {[1 .. k -> MCHash] : k \in 0 .. n}
Lists == ListsUpTo(2)
=============================================================================
