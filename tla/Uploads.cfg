SPECIFICATION FairUploadSpec
CONSTANTS
    d1 = d1
    d2 = d2
    d3 = d3
    h1 = h1
    r1 = r1
    r2 = r2
    s1 = s1
    Doc = {d1, d2, d3}
    Handler = {h1}
    NoDoc = NoDoc
    Pipeline <- OneStage
    MaxRetries = 2
    Deletable = {}
    ChannelsClose = FALSE
    MayLose = TRUE
    MaxCrashes = 1
    MaxCloses = 0
    MaxDbFaults = 0
    Request = {r1, r2}
    Stream = {s1}
    TooLarge = {d3}
    Unreadable = {d2}
    Untyped = {d1}
    MaxApiCrashes = 1
    MaxApiFaults = 1
INVARIANTS
    UploadTypeOK OneCopy ClosedShowsVerdict
PROPERTIES
    ShownGoesForward StreamEnds
CHECK_DEADLOCK FALSE
