CONSTANTS
    MapKeys = {1, 2, 3, 4, 5, 6}
    MapValues = {1, 2}
    DosKeys = {1, 2, 3}
    MaxDos = 6
    Points = {1, 2, 3, 4}
    MaxIvl = 4
    MaxDeleted = 2
    TableKeys = {1, 2, 17, 18}
    TableValues = {1, 2}
    SL_MAX_LEVEL = 2
    TableSize = 4
    Cells = {3, 4, 5, 6}
    Capacity = 4
    Elements = {1, 2}
    Keys = {1, 2, 3}
    UINTS = 16
    Priorities = {0, 1, 8, 15}
    MaxQueued = 5
    Junk = 0
    Values = {1, 2, 3}
    MaxLength = 5
    RADIX = 2
    MaxRadixLength = 2
    VertexIds = {1, 2, 3}
    EdgeWeights = {1}
    Order <- MCOrder
    Directed <- MCDirected
    Undirected <- MCUndirected
    Positive = {0, 1, 3}
    Signed <- MCSigned
    MaxLost = 1
    GridSizes <- MCGridSizes
    INT_MAX = 31
    KLEN = 12
    DIGITS = 2
    FUNCTIONS = 2
    BITWIDTH = 8
    COMPONENT_BITS = 2
    TEN = 3
    MaxComponents = 3
    HashKeys = {0, 1, 4, 7, 8}
    WideKeys = {0, 1, 200, 255, 383, 384, 640, 895, 896, 1663, 1664, 40000, 65535}
    Bases = {3, 5, 7, 13}
    MaxElements = 3
    BloomSizes = {5, 7}
    BitNumbers = {0, 7, 8, 15, 16}
    Digests = {1, 9, 13, 30}
    Symbols <- MCSymbols
    HighSymbols = {4}
    MaxFrequency = 3
    Letters = {1, 2}
    MaxString = 4
    Characters = {1, 2}
    MaxWords = 2
    BLOCK = 4
    LENGTH = 2
    WORD = 5
    HIGH = 3
    MaxChunk = 5
    MaxBytes = 13
SPECIFICATION Spec
INVARIANTS
    TreesAgree
    MapsAgree
    QueuesAgree
    SortingIsRight
    GraphsAgree
    AlgorithmsAreExact
    NumbersAgree
    CodesAreRight
CHECK_DEADLOCK FALSE
