SPECIFICATION TrieSpec
CONSTANTS
    Precision = 4
    Contracts <- MCContracts
INVARIANTS
    TypeOK
    RangesFollowTheCurve
    SignedAsGenerated
    ClosingSignatureDecrypts
    PaysTheAttestedOutcome
    AgreementCloses
PROPERTIES
    ImplementsCets
CHECK_DEADLOCK FALSE
