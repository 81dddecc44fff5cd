CONSTANTS
    Hops = 2
    Chunk = 2
    SrcDelay = 1
    CaptureBlocks = 2
    ModelRingUnits = 7
    MaxAheadArg = 5
    TargetAheadArg = 3
    RecoverArg = 2
    RecoverSteps = 2
    MaxSteps = 4
    RingBlocks = 3
    Args <- MCArgs
    MaxCapture = 7
SPECIFICATION FairSpec
INVARIANTS TypeOK Accounted PlayedInOrder OutputBounded
PROPERTY Shutdown
CHECK_DEADLOCK FALSE
