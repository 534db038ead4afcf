SPECIFICATION Spec
CONSTANTS
    r1 = r1
    r2 = r2
    r3 = r3
    r4 = r4
    Req = {r1, r2, r3, r4}
    MaxMsg = 3
SYMMETRY Symm
INVARIANT
    DeletedHasNoAttachments
CHECK_DEADLOCK FALSE
