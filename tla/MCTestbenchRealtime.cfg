SPECIFICATION FairSpec
CONSTANTS
    MaxWorkers = 2
    QueueCapacity = 2
    MaxBlocks = 4
    MaxClicks = 3
INVARIANTS TypeOK Paired NewestWins OneWorker
CHECK_DEADLOCK FALSE
PROPERTY Stops
