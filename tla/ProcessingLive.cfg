SPECIFICATION FairSpec
CONSTANTS
    d1 = d1
    d2 = d2
    h1 = h1
    h2 = h2
    Doc = {d1, d2}
    Handler = {h1, h2}
    NoDoc = NoDoc
    Pipeline <- ShortPipeline
    MaxRetries = 2
    Deletable = {d1}
    ChannelsClose = FALSE
    MayLose = FALSE
    MaxCrashes = 1
    MaxCloses = 0
    MaxDbFaults = 0
PROPERTIES
    EventuallySettled
CHECK_DEADLOCK FALSE
