SPECIFICATION FairSpec
CONSTANTS
    Leaves = {b1, d1}
    Bets = {b1}
    Empty = empty
    MaxBlocks = 4
    Confirmations = 1
    MaxReorg = 2
    ScanWindow = 2
    SafetyBuffer = 2
    Lookback = 4
    MaxStale = 1
    MaxFaults = 2
    Faults = {"gap", "error", "relayDown", "readError", "reorg", "restart"}
INVARIANTS CacheFollowsChain CursorCovers
PROPERTIES PathsSound EveryBetHanded
CHECK_DEADLOCK FALSE
