SPECIFICATION FairSpec
CONSTANTS
    NoVal = NoVal
    Subtypes = {"fork", "compact", "steer", "interrupt", "set_effort", "set_permission_mode"}
    Modes = {"ask"}
    Startups <- MCStartups
    MaxTurns = 2
    MaxCalls = 2
    MaxAsks = 1
CHECK_DEADLOCK FALSE
INVARIANTS
    TypeOK
    SettingsReachThread
    TurnOnWire
    OwnReply
PROPERTY
    CallReturns
