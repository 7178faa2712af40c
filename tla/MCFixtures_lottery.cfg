\* A draw among participants of whom one never revealed.
CONSTANTS
    Address = {a1, a2}
    None = None
    LastLedger = 3
SPECIFICATION LotterySpec
INVARIANTS
    Lottery_AllRevealed
CHECK_DEADLOCK FALSE
