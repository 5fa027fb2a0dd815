\* An answer that comes later than PEER_TIMEOUT.
SPECIFICATION Spec
CONSTANTS
    alice = alice
    bob = bob
    none = none
    Parties = {alice, bob}
    Offerer = alice
    None = none
    Environments <- OnlyLate
INVARIANTS
    NobodyIsPunished
CHECK_DEADLOCK FALSE
