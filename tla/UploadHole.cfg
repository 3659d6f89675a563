SPECIFICATION HoleSpec
CONSTANTS
    u1 = u1 u2 = u2 u3 = u3 s1 = s1 s2 = s2 rec = rec
    a = a b = b hole = hole zero = zero none = none
    Ids = {u1, u2}
    Sessions = {s1}
    Recovery = rec
    NoId = none
    Data = {a}
    Hole = hole
    Zero = zero
    MaxLen = 3
    MaxReorder = 2
    PartialTTL = 0
    MaxTime = 1
    MaxCrashes = 1
    MaxFailures = 1
INVARIANT NoHoles
CHECK_DEADLOCK FALSE
