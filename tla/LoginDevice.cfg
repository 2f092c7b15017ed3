SPECIFICATION DeviceSpec
CONSTANTS
    Users = {u1}
    Families = {f1, f2}
    Slots = {a, b}
    MaxTokens = 3
    MaxResets = 1
    MaxCrashes = 1
    Calls = {c1, c2}
    MaxRevisions = 3
    MaxFaults = 1
    NoUser = NoUser
    NoFamily = NoFamily
    NoToken = NoToken
    NoSlot = NoSlot
    Refused = Refused
\* Once its tokens and families are used up the phone stays signed out.
CHECK_DEADLOCK FALSE
SYMMETRY MCSymmetry
INVARIANTS
    DeviceTypeOK
    KeychainFollows
    OwnTokenOnly
PROPERTY
    EvictedForCause
