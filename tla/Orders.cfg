SPECIFICATION Spec
CONSTANTS
    Bets = {b1, b2}
    Limit = {b2}
    Shares = 3
    Dust = 1
    Cancels = {c1, c2}
    MaxOrders = 3
    MaxRestarts = 0
    Faults = {"delayed", "crossing"}
INVARIANTS
    OutcomeTruthful
CHECK_DEADLOCK FALSE
