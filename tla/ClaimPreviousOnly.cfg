SPECIFICATION Spec
CONSTANTS
    d1 = d1
    d2 = d2
    d3 = d3
    h1 = h1
    h2 = h2
    Doc = {d1, d2, d3}
    Handler = {h1, h2}
    NoDoc = NoDoc
    Author <- MCAuthor
    NoAuthor = NoAuthor
    Shingles <- MCShingles
    Pct = {0, 400}
    MaxAttempts <- MCAttempts
INVARIANTS
    PreviousOnly
CHECK_DEADLOCK FALSE
