SPECIFICATION Spec
CONSTANTS
    Speeds = {1250}
    Volumes = {80}
    Numbers = {2}
    MaxChanges = 1
INVARIANT SpeedComesBack
