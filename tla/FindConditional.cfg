SPECIFICATION Spec
CONSTANTS
    k1 = k1
    k2 = k2
    c1 = c1
    g1 = g1
    g2 = g2
    t1 = t1
    NoGoroutine = NoGoroutine
    Goroutine = {c1}
    Hotkey = {c1}
    Conditional = {c1}
    Updater = {}
    Producer = {}
    SliceWait = {"SLEEP"}
    Calls = {}
    MaxTriggers = 2
    priority <- MCPriority
    policy <- MCPolicyMerge
INVARIANTS
    PendingWillRun
