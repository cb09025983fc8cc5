SPECIFICATION FairSpec
CONSTANTS
    Bets = {b1, b2}
    Limit = {b2}
    Shares = 2
    Dust = 0
    Cancels = {c1}
    MaxOrders = 2
    MaxRestarts = 1
    Faults = {"earlyCancel", "lostResponse", "resolution"}
INVARIANTS
    SharesBacked
PROPERTIES
    EveryBetDecided
    ImplementsOutcomes
CHECK_DEADLOCK FALSE
