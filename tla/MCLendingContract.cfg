\* Two accounts, two preimages other than the storage default, one amount, a moving
\* BTC price, a loan before and after it bears interest.
SPECIFICATION Spec
CONSTANTS
    a1 = a1
    a2 = a2
    lendingContract = lendingContract
    addr = addr
    empty = empty
    Accounts = {a1, a2}
    This = lendingContract
    Preimages = {1, 2}
    BtcPrices = {1, 2}
    CollateralPrices = {1}
    MaxClaims = 2
    BtcAmounts = {8}
    Rates = {50}
    Addresses = {addr}
    NoAddress = empty
    InitialBalance = 12
    MaxTime = 1
    MaxEntries = 3
    PRICE_SCALE = 1
    SECONDS_PER_YEAR = 1
SYMMETRY AccountSymmetry
INVARIANTS
    TypeOK
    BalanceIsAccountedFor
PROPERTIES
    StableLoanIsFinal
    RequestFundsOneLoan
CHECK_DEADLOCK FALSE
