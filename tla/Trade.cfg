CONSTANTS
    Listings <- MCListings
    BINARY_PAIRS <- MCPairs
    Mock = FALSE
    Circuits = {"bet_auth", "partial_credit", "position_close"}
    Preloaded = {"bet_auth"}
    Undelivered = {"position_close"}
    MaxCached = 2
    Dollar = 10
    Ticks = {2}
    Books <- MCBooks
    Stakes = {30}
    LimitPrices = {3}
    Slippage = 2
    ShareUnits = 4
    Lot = 2
    MinBet = 10
    MIN_SHARES = 8
    FeeRates = {5}
    clobBuyFeeBps = 1
    Balances = {0, 2}
    MaxTries = 2
    MaxProofs = 2
SPECIFICATION Spec
INVARIANT OrderMatchesQuote
PROPERTY SoldIsCredited
CHECK_DEADLOCK FALSE
