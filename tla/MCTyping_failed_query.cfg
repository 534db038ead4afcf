SPECIFICATION FairSpec
CONSTANTS
    d1 = d1
    d2 = d2
    t1 = t1
    t2 = t2
    t3 = t3
    t4 = t4
    Device = {d1, d2}
    Timer = {t1, t2, t3, t4}
    MemberCounts = {1, 2}
    MaxEvents = 4
PROPERTIES
    AutoExpires
CHECK_DEADLOCK FALSE
