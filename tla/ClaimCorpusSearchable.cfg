SPECIFICATION Spec
CONSTANTS
    c1 = c1
    c2 = c2
    a1 = a1
    a2 = a2
    k1 = k1
    Source = {c1, c2}
    Shingles <- MCShingles
    Text <- MCText
    Sentences <- MCSentences
    Similar <- MCSimilar
    TextSentences = 2
    Alike <- MCAlike
    Adder = {a1, a2}
    Checker = {}
    NoSource = NoSource
    ChunkSize = 2
    ChunkStride = 1
    MaxFaults = 1
    MaxRedisFaults = 0
INVARIANTS
    AcceptedIsSearchable
CHECK_DEADLOCK FALSE
