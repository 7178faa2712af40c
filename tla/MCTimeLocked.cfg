\* Two accounts, sequences up to 3, grants of 3 whose product may exceed 5.
CONSTANTS
    Address = {a1, a2}
    Totals <- SomeTotals
    Amounts <- SomeAmounts
    Prices = {7, 8}
    NoAddress = NoAddress
    NoSchedule = NoSchedule
    NotRevoked = NotRevoked
    NoUnlock = NoUnlock
    Panic = Panic
    MIN_DELAY = 1
    I128_MIN <- MinusOne
    I128_MAX = 5
    U32_MAX = 3
SPECIFICATION TimeLockedSpec
INVARIANTS
    PaidReturnedOrStranded
    LockedOrEmpty
PROPERTIES
    PaidInFull
    FundsReachable
    ReadsAgreeWithinLedger
CHECK_DEADLOCK FALSE
