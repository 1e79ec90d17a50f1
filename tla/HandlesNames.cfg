CONSTANTS
    Threads = {t1, t2}
    Names = {n1, n2}
    Harbor = 0
    HANDLE_REMOTE_SHIFT = 2
    MaxLaunch = 2
    NoCtx = NoCtx
    NoName = NoName
SPECIFICATION Spec
INVARIANT NamesResolve
