SPECIFICATION Spec
CONSTANTS
    s1 = s1
    s2 = s2
    s3 = s3
    Send = {s1, s2, s3}
    File = {s3}
    Limit = 2
SYMMETRY Symm
INVARIANTS
    TypeOK
    NothingMissed
    NoRepeats
CHECK_DEADLOCK FALSE
