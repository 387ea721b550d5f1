SPECIFICATION Spec
CONSTANTS
    c1 = c1
    c2 = c2
    Calls <- MCCalls
    MaxLines = 3
    MaxSyncs = 2
    MaxFaults = 1
    BufferKeys = 2
SYMMETRY Symmetry
CHECK_DEADLOCK FALSE
INVARIANTS
    TypeOK
    NoLineLost
    
    UsageIsOfItsTurn
