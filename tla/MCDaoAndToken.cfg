\* Two accounts, amounts of either sign, i128 from -2 to 4; one proposal and a
\* quorum of half the supply.
CONSTANTS
    Address = {a1, a2}
    Amounts <- SomeAmounts
    NoAddress = NoAddress
    NoEvent = NoEvent
    I128_MIN <- MinusTwo
    I128_MAX = 4
    MaxProposals = 1
    MaxSupply = 4
    NoProposal = NoProposal
    NoBallot = NoBallot
    TIMELOCK_DELAY = 2
    QUORUM_BPS = 1
    BPS = 2
    U32_MAX = 3
SPECIFICATION DaoAndTokenSpec
INVARIANTS
    TypeOK
    DecidedByBallots
    TokenTypeOK
    SupplyIsSumOfBalances
    EventsTellTheBalances
PROPERTIES
    VotesAreFinal
    QueuedIsExecuted
    Consent
CHECK_DEADLOCK FALSE
