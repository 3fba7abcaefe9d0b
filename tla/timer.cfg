SPECIFICATION FairSpecH
CONSTANTS
    e1 = e1
    e2 = e2
    usual = usual
    other = other
    None = None
    Intervals = {0, 1, 3}
    Lengths = {usual, other}
    MaxShortBreaks = 3
    EditCalls = {e1, e2}
    MaxRooms = 2
    MaxObservers = 3
INVARIANTS
    TypeOK
    OneTimeout
    BreaksCounted
    TimerFollowsTable
PROPERTIES
    FollowsCycle
    PhaseAnnounced
    KeepsRunning
CHECK_DEADLOCK FALSE
