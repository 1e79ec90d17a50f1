CONSTANTS
    DEFAULT_QUEUE_SIZE = 2
    Junk = Junk
    NoMQ = NoMQ
    MAX_GLOBAL_MQ = 2
    MaxMessages = 2
    Workers = {w1}
    Senders = {s1}
    Retirers = {k1}
    Handles = {c1}
SPECIFICATION Spec
INVARIANT MarkedIsScheduled
CHECK_DEADLOCK FALSE
