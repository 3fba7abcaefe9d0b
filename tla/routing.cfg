SPECIFICATION RoutingSpec
CONSTANTS
    r1 = r1
    r2 = r2
    h1 = h1
    h2 = h2
    h3 = h3
    h4 = h4
    RoomIds = {r1, r2}
    Handlers = {h1, h2, h3, h4}
    MaxLosses = 2
INVARIANTS
    TypeOK
    RecordAgrees
PROPERTIES
    RoutingLearns
CHECK_DEADLOCK FALSE
