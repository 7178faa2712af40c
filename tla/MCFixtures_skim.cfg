\* A skim of a donation that never reached the raw balance.
CONSTANTS
    Address = {a1, a2}
    None = None
    LastLedger = 3
SPECIFICATION SkimSpec
INVARIANTS
    Skim_DepositsUntouched
CHECK_DEADLOCK FALSE
