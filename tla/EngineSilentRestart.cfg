SPECIFICATION FairSpec
CONSTANTS
    MaxSegments = 1
    LongSegments = {}
PROPERTY ReadingBegins
