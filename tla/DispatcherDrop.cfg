CONSTANTS
    DEFAULT_QUEUE_SIZE = 2
    Junk = Junk
    NoMQ = NoMQ
    MAX_GLOBAL_MQ = 2
    MaxMessages = 2
    Workers = {w1, w2}
    Senders = {s1}
    Retirers = {k1}
    Handles = {c1}
SPECIFICATION Spec
INVARIANT DropFreesData
CHECK_DEADLOCK FALSE
