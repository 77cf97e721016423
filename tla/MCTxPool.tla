------------------------------ MODULE MCTxPool ------------------------------
(* Instances of TxPool for TLC.                                            *)
EXTENDS TxPool, TLC

CONSTANTS a, b, t0, t1, t2, u1, v0

\* t0, t1 and t2 of a with rising nonces, u1 with the nonce of t1 and a better
\* price, v0 of b
MCAddr  == {a, b}
MCTx    == {t0, t1, t2, u1, v0}
MCFrom  == t0 :> a @@ t1 :> a @@ t2 :> a @@ u1 :> a @@ v0 :> b
MCNonce == t0 :> 0 @@ t1 :> 1 @@ t2 :> 2 @@ u1 :> 1 @@ v0 :> 0
MCPrice == t0 :> 2 @@ t1 :> 1 @@ t2 :> 1 @@ u1 :> 3 @@ v0 :> 2
=============================================================================
