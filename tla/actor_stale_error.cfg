SPECIFICATION Spec
CONSTANTS
    m1 = m1
    m2 = m2
    m3 = m3
    Messages <- TwoMessages
    Codex = FALSE
    CliMayHang = FALSE
    RalphMax = {}
    RalphPromise = {}
    BaseIndex = 0
    MaxLoops = 0
    MaxInterrupts = 0
    MaxIndex = 9
CHECK_DEADLOCK FALSE
INVARIANTS
    StaleErrorForgotten
