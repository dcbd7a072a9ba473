SPECIFICATION Spec
CONSTANT
    MaxActs = 4
INVARIANTS
    TypeOK
    RefusalShows
PROPERTIES
    Distinguishes
    GoneIsSilent
CHECK_DEADLOCK FALSE
