SPECIFICATION Spec
CONSTANTS
    MaxTabs = 2
    Indices = {0, 1}
    DepositAmount = 4
    Stakes = {2, 4}
    Sides = {"YES"}
    ProtocolFee = 1
    Payout = 2
    Withdrawals = {5}
    MinWithdrawal = 2
    MAX_CONSOLIDATE_INPUTS = 4
    MaxLag = 1
    MaxBets = 1
    MaxWithdrawals = 1
    MaxWidth = 2
    Faults = {"rpc"}
INVARIANTS NotesOpen NoStranding
PROPERTIES RestoreComplete ClaimsLand
CHECK_DEADLOCK FALSE
