\* A publisher and a pull worker; sessions end in every way; codecs change.
SPECIFICATION TakeoverSpec
CONSTANTS
    Packager = {p1, p2}
    Nobody = Nobody
    Puller = {p2}
    WindowSegments = 1
    Depth = 1
    ConfigId = {1, 2}
    Builds = {TRUE}
    MayFail = FALSE
    MaxPending = 1
    MaxBatch = 1
    MaxSeg = 4
    MaxGen = 4
    MaxClock = 1
INVARIANTS TakeoverTypeOK NoForeignFile
PROPERTIES DrainedBeforeRelease
CHECK_DEADLOCK FALSE
