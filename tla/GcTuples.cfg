\* A process that makes tuples and lists and is collected.
SPECIFICATION HostSpec
CONSTANTS
    AtomNames = {"", "m", "long_m"}
    Stored <- MCStored
    Parts = {"process"}
    Images <- MCImages
    MaxFiles = 3
    MaxParses = 3
    MAX_ATOMS = 2
    MAX_LOADED_MODULES = 2
    PoolWorkers = 3
    InitialWords = 5
    HeapLimit = 13
    XRegs = 2
    MaxInt = 1
    CodeAddresses = {1, 3, 6}
    MaxCalls = 5
    MaxFd = 3
    MAX_POLL_ENTRIES = 2
    ReadMax = 2
    MaxBytes = 3
    Node = {"a", "b", "short", "long"}
    Cut <- MCCut
    Port = {1, 2}
    MAX_DIST_NODES = 3
    Opcodes = {1, 2, 3, 4, 5, 12, 16, 18, 19, 62, 63, 64, 69, 78, 104, 105, 106, 107, 108, 153, 161}
    ArgValues <- MCArgs
    MaxInstrs = 2
    Name = {"n1", "n2", "n3"}
    NoName = "no name"
    Caller = {"c1", "c2", "c3"}
    Bucket = {0, 1}
    BucketOf <- MCBucketOf
    InitialCapacity = 1
    MayFail = TRUE
CHECK_DEADLOCK FALSE
PROPERTY CollectKeepsTerms
