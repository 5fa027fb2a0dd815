\* At most two messages in a behaviour; any connection may end, any program may restart.
SPECIFICATION FairSpec
CONSTANTS
    a = a
    b = b
    c = c
    Nodes = {a, b, c}
    Routes <- MCRoutes
    Messages <- MCMessages
    MaxSends = 2
    MAX_DATA_SIZE = 30
    MAX_SEGMENTS = 3
INVARIANTS
    TypeOK
    ReceivedAsSent
    OnlyUndeliverableFails
PROPERTIES
    DeliveredWhileConnected
CHECK_DEADLOCK FALSE
