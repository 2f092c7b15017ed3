SPECIFICATION FairSpec
CONSTANTS
    Users = {u1, u2}
    Deck = {r1}
    Slots = {s1, s2, w}
    Worker = w
    Deleters = {u1}
    Host = u1
    MaxCrashes = 1
    NoOne = NoOne
    NoItem = NoItem
    NoSlot = NoSlot
    NoResult = NoResult
    NoOutcome = NoOutcome
CHECK_DEADLOCK FALSE
PROPERTIES
    OverdueIsSettled
    RequestsEnd
