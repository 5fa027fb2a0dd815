\* The same instance with one preimage: a price move between request and liquidation.
SPECIFICATION Spec
CONSTANTS
    a1 = a1
    a2 = a2
    lendingContract = lendingContract
    addr = addr
    empty = empty
    Accounts = {a1, a2}
    This = lendingContract
    Preimages = {1}
    BtcPrices = {1, 2}
    CollateralPrices = {1}
    MaxClaims = 2
    BtcAmounts = {8}
    Rates = {50}
    Addresses = {addr}
    NoAddress = empty
    InitialBalance = 12
    MaxTime = 1
    MaxEntries = 3
    PRICE_SCALE = 1
    SECONDS_PER_YEAR = 1
INVARIANT
    LiquidatedWhenBelowThreshold
CHECK_DEADLOCK FALSE
