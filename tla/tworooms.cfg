SPECIFICATION SpecH
CONSTANTS
    r1 = r1
    r2 = r2
    master = master
    guest = guest
    s1 = s1
    s2 = s2
    l1 = l1
    l2 = l2
    l3 = l3
    l4 = l4
    c1 = c1
    c2 = c2
    q1 = q1
    q2 = q2
    q3 = q3
    None = None
    RoomIds = {r1, r2}
    DbRooms = {r1, r2}
    Users = {master, guest}
    Accounts = {master, guest}
    Sockets = {s1, s2}
    Requests = {q1, q2}
    Lookups = {l1, l2, l3, l4}
    Commands = {}
    CallerOf <- TwoCalls
    SocketOf <- OneEach
    UserOf <- GuestTwice
    MasterOf <- MasterOfAll
    BlockedBefore = {}
    Capacity = 1
    MaxRestarts = 0
    Patient = {s2}
INVARIANTS
    WaitingListsExact
    IndexedIsListed
    StudyRowsCoverMembers
PROPERTIES
    CapacityUnlessOvertaken
SYMMETRY RoomAndCallSymmetry
CHECK_DEADLOCK FALSE
