SPECIFICATION Spec
CONSTANTS
    c1 = c1
    c2 = c2
    c3 = c3
    Types <- MCTypes
    Receivers <- MCTwoReceivers
    MaxEvents = 1
PROPERTY EventsReachReceivers
CHECK_DEADLOCK FALSE
