CONSTANTS
    BlockCount = 3
    RingCapacity <- MCRingCapacity
    MaxFrames = 2
    Audio = {a1, a2}
    Silence = a1
    PrefillBlocks = 2
SPECIFICATION FairSpec
INVARIANTS
    TypeOK
    OneOwner
    NeverFails
    FramesAccounted
PROPERTIES
    PlaysInOrder
    BlocksReturn
