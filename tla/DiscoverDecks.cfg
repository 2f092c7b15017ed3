SPECIFICATION DiscoverySpec
CONSTANTS
    l1 = l1
    l2 = l2
    Slots = {a, b}
    Users = {u1}
    Local = {l1, l2}
    Places = {1, 2}
    Calls <- MCCalls
    Keys <- MCKeys
    Limit <- MCLimit
    Twin <- MCTwin
    Queries <- MCQueries
    MaxMonth = 1
    MinLocal = 2
    MaxDeck = 2
    MaxPhotos = 1
    Mirrors = 2
    MaxRequests = 2
    MaxEdits = 1
    Overpass <- MCOverpass
    MaxFaults = 1
    NoRow = NoRow
    NoSlot = NoSlot
\* Once its requests are used up nothing is left to do.
CHECK_DEADLOCK FALSE
SYMMETRY MCSymmetry
INVARIANTS
    DealtFresh
    SessionDecksWhole
    NoInsertDeadlock
    OneFiller
    WithinLimit
PROPERTIES
    ImplementsQuota
