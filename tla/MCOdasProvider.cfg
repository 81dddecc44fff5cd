CONSTANTS
    SourceCounts = {1, 2}
    MaxBuffer = 10
    MaxBackoff = 2
    Unreliable = TRUE
    RecvLimit = 6
    WireLimit = 8
    MaxAge = 3
SPECIFICATION FairSpec
INVARIANTS TypeOK InOrder
PROPERTY Resumes
