SPECIFICATION AloneSpec
CONSTANTS
    Offerer = Alice
    Accepter = Bob
    FirstSigner = Bob
    None = None
    NbOracles = 1
    Threshold = 1
    Outcomes = {heads, tails}
    Uncovered = {}
    Refund = refund
    Maturities <- MCMaturities
    RefundDelay = 2
    NbConfirmations = 2
    Forged = FALSE
    Crashes = FALSE
    MaxTime = 5
PROPERTIES
    OffererEndsAlone
CHECK_DEADLOCK FALSE
