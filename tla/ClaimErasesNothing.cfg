SPECIFICATION Spec
CONSTANTS
    d1 = d1
    h1 = h1
    h2 = h2
    Doc = {d1}
    Handler = {h1, h2}
    NoDoc = NoDoc
    Pipeline <- FullPipeline
    MaxRetries = 2
    Deletable = {}
    ChannelsClose = TRUE
    MayLose = FALSE
    MaxCrashes = 0
    MaxCloses = 1
    MaxDbFaults = 0
PROPERTIES
    StageErasesNothing
CHECK_DEADLOCK FALSE
