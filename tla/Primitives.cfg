CONSTANTS
    Threads = {t1, t2, t3, t4}
    DEFAULT_QUEUE_SIZE = 2
    Junk = Junk
    Workers = 2
    Data = {d1}
    Sessions = {1}
    MaxCap = 4
    MaxHeld = 1
    TIME_NEAR = 2
    TIME_LEVEL = 4
    MaxTimers = 2
    Times = {0, 1, 6, 33}
    MaxTime = 140
    MaxDiff = 2
SPECIFICATION AllSpec
INVARIANTS LockTypeOK LockInv Exclusion QueueTypeOK SomeoneBringsItBack TypeOK WheelInv
PROPERTIES ImplementsRW WriterGetsIn ImplementsMailbox ImplementsService EveryTimerFires
CHECK_DEADLOCK FALSE
