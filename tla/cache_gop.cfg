\* A source whose keyframe interval is twice the segment duration asked for.
SPECIFICATION CacheSpec
CONSTANTS
    WindowSegments = 2
    Lag = 0
    MaxBatch = 1
    MaxSeg = 4
    MaxGen = 1
    FirstGen = {1}
    LastSeg <- SuccessorBegins
    MayFail = FALSE
    SegmentSecs = 1
    GopSecs = 2
    TtlSecs = 0
    MinTtl = 2
    Budget = 2
    SweepTicks = 1
    SweepCalls = 1
PROPERTY LiveWindowKept
CHECK_DEADLOCK FALSE
