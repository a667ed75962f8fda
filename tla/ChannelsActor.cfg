SPECIFICATION Spec
CONSTANTS
    Goroutine = {g1, g2}
    NoGoroutine = NoGoroutine
    Channel = {c1, c2}
    Value = {v1, v2}
    Null = Null
    Hotkey = {}
    Actor = {a1}
INVARIANTS
    ChannelsTypeOK
    HandedInOrder
    
SYMMETRY Symmetry
CHECK_DEADLOCK FALSE
