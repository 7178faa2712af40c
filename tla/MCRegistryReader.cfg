\* Three contracts, scans of two kinds, a reader with pages of two: the queries and a walk.
CONSTANTS
    Address = {a1}
    c1 = c1
    c2 = c2
    c3 = c3
    Contracts = {c1, c2, c3}
    KeyOrder <- ThreeKeys
    Hashes = {none, h1}
    EmptyHash = none
    SeverityMaps <- TwoMaps
    MetadataValues = {}
    NoAddress = NoAddress
    NoScan = NoScan
    NoMetadata = NoMetadata
    NoEvent = NoEvent
    Panic = Panic
    U32_MAX = 20
    I32_MIN <- MinusOne
    I32_MAX = 1
    MAX_LIMIT = 1
    MAX_BATCH = 2
    MaxHistory = 2
    MaxTime = 0
    PageSize = 2
SPECIFICATION ReaderSpec
INVARIANTS
    PagesTile
    WalkConsistent
PROPERTIES
    WalkEnds
