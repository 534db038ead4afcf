SPECIFICATION Spec
CONSTANTS
    r1 = r1
    r2 = r2
    r3 = r3
    i1 = i1
    i2 = i2
    n1 = n1
    n2 = n2
    p1 = p1
    Req = {r1, r2, r3}
    Invite = {i1, i2}
    Name = {n1, n2}
    Replica = {p1}
SYMMETRY Symm
INVARIANT
    OneAccountPerInvite
CHECK_DEADLOCK FALSE
