CONSTANTS
    Hops = 2
    Chunk = 1
    SrcDelay = 0
    CaptureBlocks = 1
    ModelRingUnits = 8
    MaxAheadArg = 6
    TargetAheadArg = 2
    RecoverArg = 1
    RecoverSteps = 2
    MaxSteps = 4
    RingBlocks = 6
    Args <- OnlyAdaptive
    MaxCapture = 6
SPECIFICATION Spec
INVARIANT CoherentAfterGaps
CHECK_DEADLOCK FALSE
