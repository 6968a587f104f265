SPECIFICATION Spec
CONSTANTS
    MaxBytes = 30
    Alphabets = {{"sp", "tab", "com", "A", "."}, {"a", ".", "com", "1", "|", "pi"}, {"sp", "a", "1", "=", "|"}}
    MaxLength = 6
    MaxText = 6
INVARIANTS
    BufferSafe
    TextKept
    NothingLost
    SegmentsAreSentences
    TypesAgree
