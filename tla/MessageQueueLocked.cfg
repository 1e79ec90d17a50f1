CONSTANTS
    DEFAULT_QUEUE_SIZE = 2
    Junk = Junk
    Workers = 1
    Data = {d1, d2}
    Sessions = {1}
    MaxCap = 4
    MaxHeld = 3
SPECIFICATION QueueSpec
PROPERTY LockedIsNotDispatched
CHECK_DEADLOCK FALSE
