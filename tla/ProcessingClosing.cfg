SPECIFICATION FairSpec
CONSTANTS
    d1 = d1
    d2 = d2
    h1 = h1
    h2 = h2
    h3 = h3
    Doc = {d1}
    Handler = {h1, h2, h3}
    NoDoc = NoDoc
    Pipeline <- TinyPipeline
    MaxRetries = 2
    Deletable = {d1}
    ChannelsClose = TRUE
    MayLose = TRUE
    MaxCrashes = 1
    MaxCloses = 1
    MaxDbFaults = 1
PROPERTIES
    QueuedIsAnswered
CHECK_DEADLOCK FALSE
