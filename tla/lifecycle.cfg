SPECIFICATION SpecV
CONSTANTS
    r1 = r1
    master = master
    g1 = g1
    g2 = g2
    g3 = g3
    s1 = s1
    s2 = s2
    s3 = s3
    l1 = l1
    l2 = l2
    l3 = l3
    c1 = c1
    c2 = c2
    q1 = q1
    q2 = q2
    q3 = q3
    None = None
    RoomIds = {r1}
    DbRooms = {r1}
    Users = {master, g1, g2, g3}
    Accounts = {g1, g2, g3}
    Sockets = {s1, s2, s3}
    Requests = {q1, q2, q3}
    Lookups = {l1, l2, l3}
    Commands = {}
    CallerOf <- OneCallEach
    SocketOf <- ThreeSockets
    UserOf <- ThreeGuests
    MasterOf <- MasterOfAll
    BlockedBefore = {}
    Capacity = 2
    MaxRestarts = 1
    Patient = {s1, s2, s3}
INVARIANTS
    RegisteredRoomLives
    LiveRoomRegistered
    PeerReachable
    RoutingAgrees
    RoomViewComplete
    RoomViewCurrent
    WaitingViewExact
PROPERTIES
    CapacityUnlessOvertaken
SYMMETRY GuestSymmetry
CHECK_DEADLOCK FALSE
