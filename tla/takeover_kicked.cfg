\* A publisher is kicked or idle: its lease is released first.
SPECIFICATION TakeoverSpec
CONSTANTS
    Packager = {p1, p2}
    Nobody = Nobody
    Puller = {}
    WindowSegments = 1
    Depth = 1
    ConfigId = {1}
    Builds = {TRUE}
    MayFail = FALSE
    MaxPending = 1
    MaxBatch = 1
    MaxSeg = 3
    MaxGen = 3
    MaxClock = 1
INVARIANT NoLateManifest
CHECK_DEADLOCK FALSE
