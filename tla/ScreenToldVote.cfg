SPECIFICATION ScreenSpec
CONSTANTS
    Users = {me, u2}
    Deck = {r1, r2}
    Me = me
    MaxFaults = 0
    NoResult = NoResult
    NoSwipe = NoSwipe
    NoCard = NoCard
CHECK_DEADLOCK FALSE
INVARIANT
    ToldVoteIsRecorded
