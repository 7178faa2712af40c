\* Who authorises a burn.
CONSTANTS
    Address = {a1, a2}
    Amounts <- SomeAmounts
    NoAddress = NoAddress
    NoEvent = NoEvent
    I128_MIN <- MinusTwo
    I128_MAX = 4
    MaxProposals = 1
    MaxSupply = 4
    NoProposal = NoProposal
    NoBallot = NoBallot
    TIMELOCK_DELAY = 2
    QUORUM_BPS = 1
    BPS = 2
    U32_MAX = 3
SPECIFICATION DaoAndTokenSpec
PROPERTIES
    BurnIsAdminGated
CHECK_DEADLOCK FALSE
