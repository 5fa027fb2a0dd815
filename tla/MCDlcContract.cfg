SPECIFICATION FairSpec
CONSTANTS
    Offerer = Alice
    Accepter = Bob
    FirstSigner = Bob
    None = None
    NbOracles = 3
    Threshold = 2
    Outcomes = {heads, tails}
    Uncovered = {edge}
    Refund = refund
    Maturities <- MCMaturities
    RefundDelay = 2
    NbConfirmations = 2
    Forged = TRUE
    Crashes = TRUE
    MaxTime = 5
INVARIANTS
    TypeOK
    FundedTogether
    OneRecordPerContract
    SpendIsEarned
PROPERTIES
    ImplementsOutcome
    ConfirmedEnds
CHECK_DEADLOCK FALSE
