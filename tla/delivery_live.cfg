SPECIFICATION FairSpec
CONSTANTS
    stdout = stdout
    stderr = stderr
    Emitters <- OneActor
    Kinds <- AllKinds
    MaxSeq = 2
    MaxRestarts = 1
    MaxTears = 0
    ChannelCap = 1
    BufferCap = 2
    MaxOpens = 1
    MaxDrops = 1
    MaxRepeats = 0
CHECK_DEADLOCK FALSE
PROPERTIES
    ImplementsFeed
    EventuallyShown
