CONSTANTS
    DEFAULT_QUEUE_SIZE = 2
    Junk = Junk
    NoMQ = NoMQ
    MAX_GLOBAL_MQ = 2
    MaxMessages = 3
    Workers = {w1, w2}
    Senders = {s1}
    Retirers = {k1}
    Handles = {c1, c2}
SYMMETRY Symmetry
SPECIFICATION Spec
INVARIANTS TypeOK RefCounts HeldIsAlive EachOnce ZeroIsDispatching
CHECK_DEADLOCK FALSE
