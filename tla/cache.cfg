\* A packager, its writer and the janitor.
SPECIFICATION CacheFair
CONSTANTS
    WindowSegments = 1
    Lag = 0
    MaxBatch = 1
    MaxSeg = 4
    MaxGen = 2
    FirstGen = {1}
    LastSeg <- SuccessorBegins
    MayFail = FALSE
    SegmentSecs = 1
    GopSecs = 1
    TtlSecs = 1
    MinTtl = 3
    Budget = 2
    SweepTicks = 1
    SweepCalls = 1
INVARIANTS CacheTypeOK InitOutlivesManifest
PROPERTIES LiveWindowKept GhostGone
CHECK_DEADLOCK FALSE
