SPECIFICATION FairSpec
CONSTANTS
    Event = {e1, e2, e3}
    Legacy = {e3}
    Producer = {p1, p2}
    Node = {n1, n2, n3}
    NoNode = NoNode
INVARIANTS
    NoFreedNode
    NoLostEvent
PROPERTIES
    ImplementsFifo
    EventDispatched
CHECK_DEADLOCK FALSE
