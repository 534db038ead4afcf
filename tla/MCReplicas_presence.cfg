SPECIFICATION Spec
CONSTANTS
    c1 = c1
    c2 = c2
    u1 = u1
    u2 = u2
    p1 = p1
    p2 = p2
    Conn = {c1, c2}
    User = {u1}
    UserOf <- TwoDevices
    Replica = {p1, p2}
    MaxEvents = 3
SYMMETRY Devices
INVARIANT
    PresenceReflectsAll
CHECK_DEADLOCK FALSE
