SPECIFICATION Spec
CONSTANTS
    Users = {u1, u2, u3}
    Sessions = {s1, s2}
    Slots = {t1, t2}
    InviteIds = {}
    NoOne = NoOne
    NoSession = NoSession
    NoSlot = NoSlot
SYMMETRY MCSymmetry
\* A world without accounts has nothing left to do.
CHECK_DEADLOCK FALSE
PROPERTY UnfriendBlocked
