SPECIFICATION FairSpec
CONSTANTS
    x1 = x1
    x2 = x2
    s1 = s1
    s2 = s2
    d1 = d1
    Nobody = Nobody
    Sends <- MCSends
    Stops <- MCStops
    Deletes <- MCDeletes
    MayFail = TRUE
    MaxRestarts = 1
CHECK_DEADLOCK FALSE
INVARIANTS
    TypeOK
    ProcessIsOwned
    StatusTellsLife

    
