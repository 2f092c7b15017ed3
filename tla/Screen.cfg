SPECIFICATION ScreenSpec
CONSTANTS
    Users = {me, u2}
    Deck = {r1, r2}
    Me = me
    MaxFaults = 1
    NoResult = NoResult
    NoSwipe = NoSwipe
    NoCard = NoCard
CHECK_DEADLOCK FALSE
INVARIANTS
    ScreenFits
    NobodySkipsTheDraw
    ReportIsEarned
PROPERTIES
    LeavesOnce
    ScreenFollows
