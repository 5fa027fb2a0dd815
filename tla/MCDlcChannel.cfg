\* A behaviour is calm, rough or has crashes from its start.
SPECIFICATION LiveSpec
CONSTANTS
    alice = alice
    bob = bob
    none = none
    Parties = {alice, bob}
    Offerer = alice
    None = none
    Environments <- AnyWeather
INVARIANTS
    TypeOK
    CanCloseUnrevoked
    FundedWhenBothSigned
    OldUpdatesAreWatched
    StableTogether
    ClosedAsPublished
PROPERTIES
    UpdatesComplete
CHECK_DEADLOCK FALSE
