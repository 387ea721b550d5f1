SPECIFICATION FairSpec
CONSTANTS
    m1 = m1
    m2 = m2
    m3 = m3
    Messages <- ThreeMessages
    Codex = FALSE
    CliMayHang = TRUE
    RalphMax = {}
    RalphPromise = {}
    BaseIndex = 1
    MaxLoops = 0
    MaxInterrupts = 1
    MaxIndex = 9
CHECK_DEADLOCK FALSE
INVARIANTS
    TypeOK
    OneTurnOnTheWire
    ExitStatusIsTrue
PROPERTIES
    ImplementsTickets
    EveryMessageAnswered
