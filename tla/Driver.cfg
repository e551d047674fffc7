SPECIFICATION FairSpec
CONSTANTS
    d1 = d1
    r1 = r1
    r2 = r2
    Nobody = Nobody
    Drivers = {d1}
    Receivers = {r1, r2}
    MaxDeaths = 1
INVARIANTS
    SoleTalker
    HolderNamed
    
PROPERTIES
    CloseReleases
CHECK_DEADLOCK FALSE
