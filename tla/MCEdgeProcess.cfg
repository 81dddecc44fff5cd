SPECIFICATION FairSpec
CONSTANTS
    Handlers = {h1, h2}
    Configs = {a, bad}
    Invalid = {bad}
    LogCapacity = 2
    ErrorCapacity = 1
    PipeCapacity = 1
    MaxRuns = 2
    MaxCalls = 3
    Kinds = {"profile"}
    MaxLines = 2
INVARIANTS TypeOK OneChild StatusTrue Delivered
PROPERTY Answered
CHECK_DEADLOCK FALSE
