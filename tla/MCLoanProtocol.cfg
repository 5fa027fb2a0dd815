\* Two offers, or one accepted twice, one killed process, lossy links,
\* signatures that may not verify; and one offer when nothing fails.
SPECIFICATION LiveSpec
CONSTANTS
    alice = alice
    bob = bob
    lendingContract = lendingContract
    o1 = o1
    o2 = o2
    noOffer = noOffer
    noPreimage = noPreimage
    Lender = alice
    Borrower = bob
    Accounts = {alice, bob}
    This = lendingContract
    Preimages = {1, 2}
    BtcPrices = {1}
    CollateralPrices = {1}
    Offers = {o1, o2}
    NoOffer = noOffer
    NoPreimage = noPreimage
    TotalCollateral = 3
    LenderBalance = 4
    NB_CONFIRMATIONS = 2
    Environments <- AnyWeather
INVARIANTS
    TypeOK
    PayoutNeedsEscrow
    CollateralNeedsPayout
    SignedTogether
    OneCollateralPerOffer
    ConfirmedEscrowIsPaid
PROPERTIES
    LoanIsConfirmed
CHECK_DEADLOCK FALSE
