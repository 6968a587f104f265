SPECIFICATION Spec
CONSTANTS
    MaxPage = 1
    MaxSegments = 1
    Speeds = {0, 4, 5, 30, 31}
    Volumes = {0, 101}
INVARIANTS
    ActiveFlagAgrees
    StatusNotStale
    OneTimeout
    QuietAfterCleanup
PROPERTY UsesAudioController
