CONSTANTS
    DEFAULT_QUEUE_SIZE = 2
    Junk = Junk
    Workers = 2
    Data = {d1, d2}
    Sessions = {1}
    MaxCap = 4
    MaxHeld = 1
SPECIFICATION QueueSpec
PROPERTY UnlockGoesFirst
