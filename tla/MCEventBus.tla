----------------------------- MODULE MCEventBus -----------------------------
(* The event bus with two types of event and up to three subscriptions.    *)
EXTENDS EventBus

CONSTANTS c1, c2, c3

MCTypes == {"TxPreEvent", "ChainHeadEvent"}
MCReceivers == {c1, c2, c3}
MCTwoReceivers == {c1, c2}
=============================================================================
