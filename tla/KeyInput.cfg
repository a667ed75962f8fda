SPECIFICATION Spec
CONSTANTS
    caps = caps
    ctrl = ctrl
    a = a
    plain = plain
    both = both
    Key = {caps, ctrl, a}
    Keyboard = {caps, ctrl}
    Modifier = {ctrl}
    GroupOf <- MCGroupOf
    Hotkey = {plain, both}
    Definition <- MCDefinition
    Vetoable = {both}
    Switched = {plain}
    Pairs <- MCPairs
    Swaps <- MCSwaps
    Message <- MCMessage
    Blocks = TRUE
    None = None
CHECK_DEADLOCK FALSE
INVARIANTS
    KeyInputTypeOK
    NothingUntracked
    NoStuckKey
    FiredIsPressed
