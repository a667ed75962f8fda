SPECIFICATION Spec
CONSTANTS
    k1 = k1
    k2 = k2
    c1 = c1
    g1 = g1
    g2 = g2
    t1 = t1
    NoGoroutine = NoGoroutine
    Goroutine = {k1, k2, g1}
    Hotkey = {k1, k2}
    Conditional = {}
    Updater = {}
    Producer = {t1}
    SliceWait = {"SLEEP"}
    Calls = {"trigger", "stop", "remove"}
    MaxTriggers = 2
    priority <- MCPriority
    policy <- MCPolicyMerge
INVARIANTS
    EngineTypeOK
    PendingWillRun
    TriggerKept
    NoDoneQueued
    NoLostWakeup
PROPERTIES
    DoneIsFinal
