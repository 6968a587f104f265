SPECIFICATION Spec
CONSTANTS
    Speeds = {400, 500, 1249}
    Volumes = {0, 101}
    Numbers = {2, 125}
    MaxChanges = 3
INVARIANTS
    RangesHold
    RoundTrip
    CutSaveHurtsOneSetting
    UnmarkedIsStored
