SPECIFICATION Spec
\* A call that waits for a paused process never goes on.
CHECK_DEADLOCK FALSE
CONSTANTS
    Voices = {amy, joe}
    NoVoice = NoVoice
    MaxSpawns = 3
INVARIANTS
    TypeOK
    NoProcessLost
    IdleIsSilent
    PausedAgrees
    VoiceApplied
PROPERTIES
    StopReturns
    SpeakReturns
    CleanupReturnsUnlessPaused
