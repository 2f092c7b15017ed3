SPECIFICATION Spec
CONSTANTS
    Users = {u1, u2}
    Deck = {r1, r2}
    Slots = {s1, s2, w}
    Worker = w
    Deleters = {u1, u2}
    Host = u1
    MaxCrashes = 1
    NoOne = NoOne
    NoItem = NoItem
    NoSlot = NoSlot
    NoResult = NoResult
    NoOutcome = NoOutcome
CHECK_DEADLOCK FALSE
SYMMETRY MCSymmetry
INVARIANTS
    UnanimityIsReal
    UnanimityNotMissed
    ResultFitsBallots
    OnlyTruthIsTold
    OneWheel
    OnlyDeletionsDeadlock
PROPERTIES
    ImplementsAtomic
