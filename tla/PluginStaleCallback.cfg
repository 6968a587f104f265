SPECIFICATION Spec
CONSTANTS
    MaxPage = 0
    MaxSegments = 1
    Speeds = {10}
    Volumes = {80}
INVARIANT NoStaleCallback
