SPECIFICATION Spec
CONSTANTS
    Users = {u1}
    Secrets = {s1, s2}
    Markets = {m1}
    NoMarket = NoMarket
    Operators = {op1}
    MaxNonce = 2
    MaxTime = 1
    MaxUsdc = 1
    DepositAmounts = {1, 3}
    DEPOSIT_CAP = 4
    BetAmounts = {1}
    Prices = {1}
    PricePrecision = 1
    WithdrawAmounts = {1}
    TokenAmounts = {1}
    AttAmounts = {1}
    FeeConfigs <- NewFees
    InitialFees <- FullFee
    Timelocks = {1}
    InitialTimelock = 1
    TimelockFloor = 1
    Caps = {0}
    InitialCap = 1
    Payouts <- OnlyVoid
SYMMETRY SecretSymmetry
INVARIANTS
    FeesClaimable
    NotesBacked
CHECK_DEADLOCK FALSE
