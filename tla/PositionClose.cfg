SPECIFICATION Spec
CONSTANTS
    Bets = {b1}
    BoughtOnLimit = {}
    Shares = 3
    Dust = 0
    Tolerance = 1
    Requests = {r1}
    MaxOrders = 2
    MaxRestarts = 1
    Faults = {"lostResponse", "delayed", "crossing", "transientMiss", "sharedToken", "resolution"}
INVARIANTS
    SoldTruthful
PROPERTIES
    TrackedCloseReported
CHECK_DEADLOCK FALSE
