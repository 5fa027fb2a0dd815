SPECIFICATION Spec
CONSTANTS
    NbCoins = 3
    Values <- MCValues
    Deals = {d1, d2}
    Collateral = 10000
    PeerParams <- MCPeer
    FeeRates = {1}
    Payouts <- MCPayouts
SYMMETRY Symmetry
INVARIANTS
    TypeOK
    CoinsFundOneContract
    LoanTransactionsAreCovered
    PnlIsWhatWasAgreed
CHECK_DEADLOCK FALSE
