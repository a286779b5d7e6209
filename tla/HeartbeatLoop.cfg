SPECIFICATION Spec
CONSTANTS
    MaxSafeInteger = 100
    Loops = {l1, l2, l3, l4}
    None = None
    Intervals = {0, 1, 2}
    ReconnectThreshold = 2
    MaxUnderWay = 3
INVARIANTS
    LoopBeatsAsConfigured
    RunningActorBeats
PROPERTIES
    SilenceIsNoticed
