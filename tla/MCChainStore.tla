---------------------------- MODULE MCChainStore ----------------------------
(* An instance of ChainStore for TLC: three branches, two of which fork    *)
(* above the first block, a bad block beside the tip of one of them, and   *)
(* two transactions, each of which is in two branches.                     *)
EXTENDS ChainStore, TLC

CONSTANTS g, a1, a2, b1, b2, b3, c2, c3, d3, shared, only

MCTx == {shared, only}

\* g - a1 - a2, g - b1 - b2 - b3 and a1 - c2 - c3, with d3 on c2 as well
MCBlock  == {g, a1, a2, b1, b2, b3, c2, c3, d3}
MCParent == a1 :> g @@ a2 :> a1 @@ b1 :> g @@ b2 :> b1 @@ b3 :> b2 @@ c2 :> a1
            @@ c3 :> c2 @@ d3 :> c2
MCHeight == g :> 0 @@ a1 :> 1 @@ a2 :> 2 @@ b1 :> 1 @@ b2 :> 2 @@ b3 :> 3 @@ c2 :> 2
            @@ c3 :> 3 @@ d3 :> 3
MCTxs    == g :> {} @@ a1 :> {shared} @@ a2 :> {only} @@ b1 :> {} @@ b2 :> {shared}
            @@ b3 :> {} @@ c2 :> {only} @@ c3 :> {} @@ d3 :> {}
=============================================================================
