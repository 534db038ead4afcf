SPECIFICATION FairSpec
CONSTANTS
    c1 = c1
    c2 = c2
    c3 = c3
    u1 = u1
    u2 = u2
    t1 = t1
    t2 = t2
    Conn = {c1}
    User = {u1}
    UserOf <- Single
    Task = {t1, t2}
    SendCap = 2
PROPERTIES
    PresenceAnnounced
    LossForcesLeave
    DeadPeerLeaves
    PumpsReturn
