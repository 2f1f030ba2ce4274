SPECIFICATION Spec
CONSTANTS
    d1 = d1
    d2 = d2
    h1 = h1
    h2 = h2
    Doc = {d1, d2}
    Handler = {h1, h2}
    NoDoc = NoDoc
    Pipeline <- ShortPipeline
    MaxRetries = 2
    Deletable = {d1, d2}
    ChannelsClose = FALSE
    MayLose = TRUE
    MaxCrashes = 2
    MaxCloses = 0
    MaxDbFaults = 2
INVARIANTS
    TypeOK OneCopy SoleHandler DoneHasEverySection DoneHasNoFailure
    FailedOnlyWhenExhausted DeadLetterIsFailed UnfinishedHasTask
PROPERTIES
    VerdictIsFinal ReportOnlyGrows KeepsPromise
SYMMETRY Symmetry
CHECK_DEADLOCK FALSE
