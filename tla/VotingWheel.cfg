SPECIFICATION Spec
CONSTANTS
    Users = {u1, u2}
    Deck = {r1, r2}
    Slots = {s1, w}
    Worker = w
    Deleters = {u2}
    Host = u1
    MaxCrashes = 0
    NoOne = NoOne
    NoItem = NoItem
    NoSlot = NoSlot
    NoResult = NoResult
    NoOutcome = NoOutcome
CHECK_DEADLOCK FALSE
INVARIANTS
    SameWheelRecovered
