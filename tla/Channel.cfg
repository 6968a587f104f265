SPECIFICATION FairSpec
CONSTANTS
    MaxSegments = 3
    Lengths = {1, 3, 7}
    FullAt = 3
    Space = 4
    PipeSize = 5
INVARIANTS
    BeginningsInOrder
    ReportedHasLeft
PROPERTY
    StragglersDelivered
