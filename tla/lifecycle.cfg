SPECIFICATION FairSpec
CONSTANTS
    s1 = s1
    r1 = r1
    a1 = a1
    k1 = k1
    f1 = f1
    x1 = x1
    d1 = d1
    Starts = {s1}
    Resumes = {r1}
    Approves = {a1}
    Stops = {k1}
    Forks = {f1}
    RunStops = {x1}
    Deletes = {d1}
    Nobody = Nobody
    MaxCommands = 3
    MaxRestarts = 1
CHECK_DEADLOCK FALSE
INVARIANTS
    TypeOK
    OneProcess
    NoOrphan
    StatusIsTrue
PROPERTY
    CommandsReturn
