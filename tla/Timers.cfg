SPECIFICATION FairSpec
CONSTANTS
    Interval = {i1}
    Timeout = {t1}
    Pausable = {i1}
    MaxEvents = 2
INVARIANTS
    AtMostOneLateTick
PROPERTIES
    StopReturns
    IntervalTicks
CHECK_DEADLOCK FALSE
