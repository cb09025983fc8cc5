SPECIFICATION Spec
CONSTANTS
    Users = {u1}
    Secrets = {s1}
    Markets = {m1}
    NoMarket = NoMarket
    Operators = {op1}
    MaxNonce = 4
    MaxTime = 2
    MaxUsdc = 0
    DepositAmounts = {10}
    DEPOSIT_CAP = 10
    BetAmounts = {2}
    Prices = {1}
    PricePrecision = 1
    WithdrawAmounts = {}
    TokenAmounts = {}
    AttAmounts = {0, 1, 2}
    FeeConfigs = {}
    InitialFees <- FullFee
    Timelocks = {}
    InitialTimelock = 1
    TimelockFloor = 1
    Caps = {}
    InitialCap = 100
    Payouts <- OneWinner
INVARIANTS
    OneCurrentNote
    OpenBetReachable
    BetPaidOnce
    FeeResolvedOnce
PROPERTIES
    TerminalFinal
CHECK_DEADLOCK FALSE
