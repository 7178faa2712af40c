\* Three signers and a stranger, two actions, lifetimes of 0, 1 and 3 ledgers
\* before the last u32 sequence 4; proposals of an admin live 1 ledger.
CONSTANTS
    s1 = s1
    s2 = s2
    s3 = s3
    Address = {s1, s2, s3, stranger}
    Hashes = {h1, h2}
    SignerLists <- Lists
    Ttls = {0, 1, 3}
    NoProposal = NoProposal
    NoAddress = NoAddress
    Profiles = {p1}
    WasmHashes = {w1}
    NoProfile = NoProfile
    FirstWasm = w0
    PROPOSAL_TTL_LEDGERS = 1
    U32_MAX = 4
SPECIFICATION SignersSpec
INVARIANTS
    TypesOK
    ExecutedOnceByQuorum
PROPERTIES
    ProposalLifecycle
    SignedChanges
CHECK_DEADLOCK FALSE
