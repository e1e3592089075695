SPECIFICATION Spec
CONSTANTS
    Half = 3
    Numbers <- MCNumbers
    Admin = 1
    Defaults <- MCDefaults
    MaxCards = 3
    ListMax = 2
    MallocFails = TRUE
    Lookalike = 5
    Queries <- MCQueries
    Hits <- MCHits
    MaxWire = 2
    MaxClicks = 3
INVARIANTS TypeOK AdminStays ToggleLeadsAway ViewSettles Current
CHECK_DEADLOCK FALSE
