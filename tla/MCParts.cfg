SPECIFICATION PartsSpec
CHECK_DEADLOCK FALSE
CONSTANTS
    Reg = {0, 1}
    Instructions <- MCInstructions
    ProgramSize = 4
    FirstPos = 5
    CodeLine = 32
    ShortJump = 30
    Bytes <- MCBytes
    Words <- MCWords
    Registers = {0, 1, 5}
    Displaced = 5
    Latency = 8
    LookForward = 4
    MaxThrowaway = 1
    RandomPars = {0, 9}
    BaseItems = 8
    ExtraItems = 5
    Threads = 2
    Batch = 5
    L1 = 2
    L2 = 4
    L3 = 8
    LineWords = 2
    Addresses = {0, 3, 9}
    DatasetPages = 4
    CachePages = 2
    Capacity = 8
    Users = {"a", "b", "c"}
    Nodes = {1, 2}
    PoolSize = 3
    Alignment = 2
    Sizes = {1, 2}
    HugePages = TRUE
    Readers = {"a", "b"}
    ChunkSize = 3
    InitChunks = 2
    MaxLine = 3
    Reads <- MCReads
    Apis = {"monero", "default", "dero"}
    MaxTip = 3
    MaxFlight = 3
    SubmitToOrigin = TRUE
    MaxJobs = 3
    MaxRequests = 5
    MaxAtPool = 2
    Retries = 1
    MaxContents = 4
    BucketSize = 4
    Windows = {1, 2, 4}
    MaxTime = 5
    TimeWidth = 256
INVARIANTS
    CodeAgrees
    AccessesInside
    ScratchpadsApart
    ConnectionsApart
    TemplateFollows
    JobWhole
    ConfigFollows
    WindowRight
    PausesAgree
PROPERTIES
    OperandsReady
