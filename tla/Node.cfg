CONSTANTS
    Handles = {1, 2, 3}
    MaxCommands = 3
    MaxCasts = 2
    Junk = Junk
    Threads = {t1, t2, t3}
    Names = {n1, n2}
    Harbor = 1
    HANDLE_REMOTE_SHIFT = 1
    MaxLaunch = 1
    NoCtx = NoCtx
    NoName = NoName
    Services = {1, 2}
    GroupHandles = {7, 8}
    NoGroup = 0
    MaxGroups = 2
    MaxGroupCalls = 4
    Loaders = {l1, l2}
    ModuleNames = {a, b, c, d, e}
    Opening = {a, b, c, d}
    Initialising = {a, b, c}
    MAX_MODULE_TYPE = 2
    Locals = {1, 2}
    Remote = 9
    Deaf = {2}
    MaxCallbacks = 2
    MaxBuffers = 3
    MaxPending = 1
    Targets = {1, 2}
    MaxVersion = 6
SPECIFICATION FairSpec
INVARIANTS CountIsExact GroupsAgree ModulesOnce OneOwner
PROPERTIES CombineIsSetUnion CastIsFreed RetiredIsDeleted StuckIsReported
CHECK_DEADLOCK FALSE
