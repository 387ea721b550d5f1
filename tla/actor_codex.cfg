SPECIFICATION CodexFairSpec
CONSTANTS
    m1 = m1
    m2 = m2
    m3 = m3
    Messages <- ThreeMessages
    Codex = TRUE
    CliMayHang = TRUE
    RalphMax = {}
    RalphPromise = {}
    BaseIndex = 0
    MaxLoops = 0
    MaxInterrupts = 1
    MaxIndex = 9
CHECK_DEADLOCK FALSE
PROPERTIES
    EveryMessageAnswered
