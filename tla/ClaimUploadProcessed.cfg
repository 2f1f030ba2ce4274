SPECIFICATION FairUploadSpec
CONSTANTS
    d1 = d1
    d2 = d2
    d3 = d3
    h1 = h1
    r1 = r1
    r2 = r2
    s1 = s1
    Doc = {d1}
    Handler = {h1}
    NoDoc = NoDoc
    Pipeline <- OneStage
    MaxRetries = 2
    Deletable = {}
    ChannelsClose = FALSE
    MayLose = FALSE
    MaxCrashes = 0
    MaxCloses = 0
    MaxDbFaults = 0
    Request = {r1, r2}
    Stream = {}
    TooLarge = {}
    Unreadable = {}
    Untyped = {}
    MaxApiCrashes = 1
    MaxApiFaults = 0
PROPERTIES
    UploadIsProcessed
CHECK_DEADLOCK FALSE
