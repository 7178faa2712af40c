\* Two accounts, four ledgers; the other bounds are named in the families.
CONSTANTS
    Address = {a1, a2}
    None = None
    LastLedger = 3
SPECIFICATION Spec
INVARIANTS
    ClaimsAreEarned
    SalesAreAsAgreed
    MintedIsBacked
    BooksAreHeld
    OnlyAsSigned
    DecisionsStand
    CallsLeaveBooksRight
    PricesAreSound
    MirrorsAddUp
PROPERTIES
    SharesKeepTheirWorth
    TermsHold
    StepsWithinRights
CHECK_DEADLOCK FALSE
