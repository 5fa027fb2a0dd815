\* One killed process while an offer is being accepted.
SPECIFICATION Spec
CONSTANTS
    alice = alice
    bob = bob
    lendingContract = lendingContract
    o1 = o1
    o2 = o2
    noOffer = noOffer
    noPreimage = noPreimage
    Lender = alice
    Borrower = bob
    Accounts = {alice, bob}
    This = lendingContract
    Preimages = {1}
    BtcPrices = {1}
    CollateralPrices = {1}
    Offers = {o1, o2}
    NoOffer = noOffer
    NoPreimage = noPreimage
    TotalCollateral = 3
    LenderBalance = 4
    NB_CONFIRMATIONS = 2
    Environments <- OnlyOneKill
INVARIANTS
    EscrowHasPreimage
CHECK_DEADLOCK FALSE
