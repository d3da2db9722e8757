SPECIFICATION FairSpec
CONSTANTS
    MaxQueue = 2
    MaxSamples = 5
INVARIANTS
    TypeOK
    QueueBounded
    NothingLost
    DrainedOnStop
    NoLostWakeup
PROPERTIES
    StopReturns
    SampleLeavesQueue
    ImplementsLog
    WriterWorksOff
