SPECIFICATION Spec
CONSTANTS
    k1 = k1
    k2 = k2
    k3 = k3
    m = m
    g = g
    Fiber = {m, g}
    Main = m
    Closure = {k1, k2}
    None = None
    Value = {0, 1}
    Null = 0
    FrameSize = 1
    MaxFrames = 3
    SuspendOpen = FALSE
    SyncWrites = FALSE
CHECK_DEADLOCK FALSE
SYMMETRY MCSymmetry
INVARIANTS
    OpenCellsLive
    LocalsSeeClosures
    ClosuresSeeVariables
