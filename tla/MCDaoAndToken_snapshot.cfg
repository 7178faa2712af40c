\* Tokens minted after the snapshot vote with their full weight.
CONSTANTS
    Address = {a1, a2}
    Amounts = {1}
    NoAddress = NoAddress
    NoEvent = NoEvent
    I128_MIN <- MinusTwo
    I128_MAX = 4
    MaxProposals = 1
    MaxSupply = 4
    NoProposal = NoProposal
    NoBallot = NoBallot
    TIMELOCK_DELAY = 2
    QUORUM_BPS = 1
    BPS = 2
    U32_MAX = 3
SPECIFICATION DaoAndTokenSpec
INVARIANTS
    VotesWithinSnapshot
CHECK_DEADLOCK FALSE
