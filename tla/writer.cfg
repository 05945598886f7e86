\* Two packagers in turn: writers that are drained, dropped, or die and are
\* respawned; file operations may fail.
SPECIFICATION FairSpec
CONSTANTS
    Name = {mpd}
    Inodes = 3
    Depth = 2
    Version = {1}
    MaxEpoch = 2
    MaxDeaths = 1
    MayDrop = TRUE
    MayFail = TRUE
    NoData = NoData
    Torn = Torn
    NoOp = NoOp
INVARIANTS TypeOK NoTornFile NoStaleFile
PROPERTIES ImplementsOrderedFiles BlockedSendEnds DrainEnds
\* The last writer may be gone for good.
CHECK_DEADLOCK FALSE
