SPECIFICATION Spec
CONSTANTS
    c1 = c1
    c2 = c2
    c3 = c3
    u1 = u1
    u2 = u2
    t1 = t1
    t2 = t2
    Conn = {c1, c2, c3}
    User = {u1, u2}
    UserOf <- TwoUsers
    Task = {t1}
    SendCap = 1
SYMMETRY Devices
CONSTRAINT Bounds
INVARIANTS
    TypeOK
    PanicFree
    NobodyLeftBehind
PROPERTIES
    PresenceImplemented
    AnnouncementReachesAll
