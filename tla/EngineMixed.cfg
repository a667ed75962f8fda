SPECIFICATION Spec
CONSTANTS
    k1 = k1
    k2 = k2
    c1 = c1
    g1 = g1
    g2 = g2
    t1 = t1
    NoGoroutine = NoGoroutine
    Goroutine = {k2, c1, g2}
    Hotkey = {k2, c1}
    Conditional = {c1}
    Updater = {g2}
    Producer = {}
    SliceWait = {"CHANNEL_RECV", "TIMER_WAIT"}
    Calls = {"trigger", "remove", "resume", "removeSelf", "exit"}
    MaxTriggers = 1
    priority <- MCPriority
    policy <- MCPolicyRestart
INVARIANTS
    QueuesSound
    SleeperWakeable
CHECK_DEADLOCK FALSE
