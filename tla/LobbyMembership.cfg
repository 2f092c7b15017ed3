SPECIFICATION Spec
CONSTANTS
    Users = {u1, u2}
    Sessions = {s1, s2}
    Slots = {t1, t2, t3}
    InviteIds = {i1}
    NoOne = NoOne
    NoSession = NoSession
    NoSlot = NoSlot
SYMMETRY MCSymmetry
INVARIANTS OneOpenSession RosterAgreed OnlyDeletionsDeadlock
PROPERTY HostlessOnlyShrinks
\* A world without accounts has nothing left to do.
CHECK_DEADLOCK FALSE
