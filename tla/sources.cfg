\* Two connections that may publish on either of two channels, and a pull worker for one of them.
SPECIFICATION FairSpec
CONSTANTS
    c1 = c1  c2 = c2  s1 = s1
    Session = {s1, s2}
    Worker = {w1}
    Channel = {c1, c2}
    ChannelOf <- FirstChannel
    None = None
    Nobody = Nobody
    Lost = Lost
    MediaIdle = 1
    ReadWake = 1
    TakeoverWait = 1
    ConnectTimeout = 1
    ReadTimeout = 1
    PullIdle = 1
    PullWake = 1
    Reconnect = 1
    DrainTime = 1
    Keys <- TheKeys
    MaxAsks <- TheMaxAsks
    MaxEnds <- TheMaxEnds
    MayFail = TRUE
INVARIANTS SourcesTypeOK LeaseMatchesPackager SilentHolderBounded MediaGapBounded
PROPERTIES RefusalJustified KickedLeaves PullKeepsTrying
CHECK_DEADLOCK FALSE
