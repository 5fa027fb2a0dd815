SPECIFICATION Spec
CONSTANTS
    NbCoins = 3
    Values <- MCValues
    Deals = {d1, d2}
    Collateral = 10000
    PeerParams <- MCPeer
    FeeRates = {1}
    Payouts <- MCPayouts
INVARIANTS
    FundAssertionHolds
CHECK_DEADLOCK FALSE
