SPECIFICATION LoginSpec
CONSTANTS
    Users = {u1}
    Families = {f1, f2}
    Slots = {a, b}
    MaxTokens = 4
    MaxResets = 2
    MaxCrashes = 1
    NoUser = NoUser
    NoFamily = NoFamily
\* Once its tokens and families are used up nothing is left to do.
CHECK_DEADLOCK FALSE
SYMMETRY MCSymmetry
INVARIANTS
    AcceptedKnowPassword
PROPERTIES
    ReplayFails
    RejectedForGood
