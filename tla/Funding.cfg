SPECIFICATION Spec
CONSTANTS
    Bets = {b1, b2}
    Stakes = {3}
    Proceeds = {4}
    Others = 1
    Buffer = Buffer
    Low = 1
    Target = 2
    Liquidity = 5
    Cap = 4
    Retries = 1
    MaxReclaims = 1
    MaxFaults = 1
    Faults = {"rpc", "receipt", "hang", "batch", "timeout", "restart", "crash"}
INVARIANTS
    CapBoundsOutside
    NeverDoubleFunded
PROPERTIES
    FundingRecovers
CHECK_DEADLOCK FALSE
