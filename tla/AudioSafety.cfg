SPECIFICATION Spec
CONSTANTS
    MaxPage = 2
    MaxSegments = 3
    Speeds = {0, 1, 10, 50, 51}
    Volumes = {0, 100, 101}
INVARIANTS
    TypeOK
    EngineAgrees
    PlayingHasSegments
    PositionInSegments
