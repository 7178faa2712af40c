\* Two accounts, two contracts: every invocation of the registry.
CONSTANTS
    Address = {a1, a2}
    c1 = c1
    c2 = c2
    Contracts = {c1, c2}
    KeyOrder <- TwoKeys
    Hashes = {none, h1}
    EmptyHash = none
    SeverityMaps <- OneMap
    MetadataValues = {m1}
    NoAddress = NoAddress
    NoScan = NoScan
    NoMetadata = NoMetadata
    NoEvent = NoEvent
    Panic = Panic
    U32_MAX = 2
    I32_MIN <- MinusTwo
    I32_MAX = 2
    MAX_LIMIT = 2
    MAX_BATCH = 2
    MaxHistory = 2
    MaxTime = 1
SPECIFICATION Spec
INVARIANTS
    TypeOK
    ScannerCountExact
    ScanCopiesAgree
    HistoryChronological
    ScoreEarned
PROPERTIES
    HistoryAuthentic
    Governed
    ImplementsScanLog
SYMMETRY AccountSymmetry
