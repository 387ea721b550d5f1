SPECIFICATION Spec
CONSTANTS
    stdout = stdout
    stderr = stderr
    Emitters <- OneActor
    Kinds <- KeptOnly
    MaxSeq = 3
    MaxRestarts = 0
    MaxTears = 0
    ChannelCap = 1
    BufferCap = 1
    MaxOpens = 1
    MaxDrops = 0
    MaxRepeats = 1
CHECK_DEADLOCK FALSE
INVARIANTS
    TypeOK
    ViewIsFaithful
