SPECIFICATION CatalogueSpec
CONSTANTS
    Instants = 2
    Rows = {r1}
    Tabs = {t1, t2}
    Phones = {p1}
    User <- MCUser
    PhotoKeys = {k1, k2}
    Names = {n1, n2}
    Hours <- MCHours
    MaxVersion = 3
    MaxFaults = 1
    NoKey = NoKey
    Nobody = Nobody
    Cleaner = Cleaner
\* Once the saves and the keys are used up nothing is left to do.
CHECK_DEADLOCK FALSE
SYMMETRY MCSymmetry
INVARIANTS
    AuditIsAChain
    PhotosKept
    ReferencesHold
    HoursRight
PROPERTIES
    CuratedSurvives
