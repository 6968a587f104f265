SPECIFICATION FairSpec
CONSTANTS
    MaxSegments = 4
    LongSegments = {4}
INVARIANTS
    TypeOK
    IdleReleasesEverything
    SignalsReachOwnChild
    FeederHasChannel
    InDocumentOrder
    NoMissedWakeup
PROPERTIES
    RefinesSpeechStream
    MemoryErrorsHaveTwoCauses
    QueueDrains
    CallsReturn
    StopReturnsUnlessAsleep
