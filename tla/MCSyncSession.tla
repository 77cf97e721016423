--------------------------- MODULE MCSyncSession ---------------------------
(* Instances of SyncSession for TLC.                                       *)
EXTENDS SyncSession, TLC

CONSTANTS p1, p2

MCPeer == {p1, p2}
Symmetry == Permutations(MCPeer)

\* the peers have the same chain
SameHeights == p1 :> 2 @@ p2 :> 2

\* chains that have left ours behind, one lagging behind the other
FarAhead    == p1 :> 6 @@ p2 :> 5
=============================================================================
