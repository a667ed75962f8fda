SPECIFICATION Spec
CONSTANTS
    a = a
    u = u
    script = script
    Module = {a, u}
    Library = {u}
    Name = {"a", "u"}
    NameOf <- OwnNames
    HomeOf <- LibraryHome
    Script = script
    ScriptDir = "src"
    CacheDir = "cache"
    Imports <- CycleImports
    None = None
    MaxVersion = 2
    MaxRestarts = 1
CHECK_DEADLOCK FALSE
INVARIANT ModuleLoaderTypeOK
INVARIANT LoadingIsStack
INVARIANT ContextFollowsStack
INVARIANT CachedAreDone
PROPERTY ImportsEnd
