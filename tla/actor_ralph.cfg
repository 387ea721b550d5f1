SPECIFICATION LiveSpec
CONSTANTS
    m1 = m1
    m2 = m2
    m3 = m3
    Messages <- TwoMessages
    Codex = FALSE
    CliMayHang = TRUE
    RalphMax = {2}
    RalphPromise = {FALSE}
    BaseIndex = 1
    MaxLoops = 1
    MaxInterrupts = 1
    MaxIndex = 3
CHECK_DEADLOCK FALSE
INVARIANTS
    IndexMatchesLog
    InterruptIsNotFailure
    RalphWithinLimits
PROPERTIES
    RalphYieldsToUsers
    NoPromptAfterCancel
    RalphLoopEnds
