\* One packager through rotations, reconnects, drops, a full writer and failing file operations.
SPECIFICATION FairSpec
CONSTANTS
    Packager = {p1}
    WindowSegments = 1
    Depth = 1
    ConfigId = {1}
    Builds = {TRUE, FALSE}
    MayFail = TRUE
    MaxPending = 1
    MaxBatch = 2
    MaxSeg = 4
    MaxGen = 2
    MaxClock = 2
INVARIANTS TypeOK WindowIsTimeline OneGeneration GapIsTransient NoForgottenSegment
PROPERTIES ManifestAdvances GapCloses ClosingEnds ImplementsChannelFiles
CHECK_DEADLOCK FALSE
