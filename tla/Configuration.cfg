SPECIFICATION FairSpec
CONSTANTS
 Phrase = {"p1", "p2"}
 DefaultCliches <- MCCliches
 Spelling = {" Typa", "koroche"}
 Normal <- MCNormal
 DefaultJunkWords = {"typa", "koroche"}
 Norm = {1800, 2000}
 DefaultNorm = 1800
 Feature = {"burstiness", "perplexity"}
 DefaultWeight <- MCWeights
 Updates <- MCUpdates
 Request = {1, 2}
 ConnectAttempts = 2
 Score = {0, 500, 1000}
 Perplexities = {0, 75, 400}
 MaxDeaths = 1
 MaxOutages = 1
 MaxHandEdits = 1
INVARIANTS
 TypeOK AnalysisIsConfigured DeadLettersAreKept RemovedOnce ProbabilityIsAMean
PROPERTIES
 SeedTouchesNoEdits ApiListens
CHECK_DEADLOCK FALSE
