CONSTANTS
    SourceCounts = {1, 2}
    MaxBuffer = 20
    MaxBackoff = 4
    Unreliable = FALSE
    RecvLimit = 10
    WireLimit = 10
    MaxAge = 4
SPECIFICATION FairSpec
PROPERTY SplitFrameParsed
