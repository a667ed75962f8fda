SPECIFICATION Spec
CONSTANTS
    a1 = a1
    a2 = a2
    d1 = d1
    m = m
    g1 = g1
    Obj = {a1, a2, d1}
    Direct = {d1}
    Kept = {}
    Context = {m, g1}
    Main = m
    NoContext = NoContext
    Place = {"globals"}
    MainRegistered = TRUE
    NestedParks = FALSE
    NestedFull = FALSE
    AllocBudget = 1
    AgeLimit = 1
    FullInterval = 1
    MaxSuspend = 1
    MaxKids = 1
    MaxStack = 2
SYMMETRY MCSymmetry
INVARIANTS
    HeapTypeOK
    NoDangling
PROPERTIES
    FreesOnlyGarbage
    FullLeavesNoGarbage
