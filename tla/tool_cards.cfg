SPECIFICATION Spec
CONSTANTS
    agent = agent
    inner = inner
    Top = Top
    Log = Log
    Tools <- MCTools
    Parent <- MCParent
    b1 = b1
    b2 = b2
    Browsers <- MCBrowsers
    MayInterleave = FALSE
    MaxTurns = 1
    MaxAnswers = 2
    MaxInterrupts = 1
    MaxReloads = 1
SYMMETRY Symmetry
CHECK_DEADLOCK FALSE
INVARIANTS
    TypeOK
    
    NoDeadPrompt
    ViewsConverge
    ApprovedInputIsAsked
