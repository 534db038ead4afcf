SPECIFICATION Spec
CONSTANTS
    u1 = u1
    u2 = u2
    r1 = r1
    r2 = r2
    r3 = r3
    User = {u1, u2}
    Req = {r1, r2, r3}
SYMMETRY Symm
INVARIANTS
    TypeOK
    ChatIsWhole
    NoLateDuplicate
PROPERTIES
    MembershipImplemented
CHECK_DEADLOCK FALSE
