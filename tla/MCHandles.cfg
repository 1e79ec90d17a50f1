CONSTANTS
    Threads = {t1, t2, t3}
    Names = {n1, n2}
    Harbor = 0
    HANDLE_REMOTE_SHIFT = 2
    MaxLaunch = 2
    NoCtx = NoCtx
    NoName = NoName
SYMMETRY Symmetry
SPECIFICATION Spec
INVARIANTS TypeOK RefCounts DeletedIsUnreachable NamesAgree ScheduledIsInit FailedIsGone AbortRetiresAll
