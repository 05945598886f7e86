\* A connection asks for the channel of a pull worker.
SPECIFICATION FairSpec
CONSTANTS
    c1 = c1  c2 = c2  s1 = s1
    Session = {s1}
    Worker = {w1}
    Channel = {c1}
    ChannelOf <- FirstChannel
    None = None
    Nobody = Nobody
    Lost = Lost
    MediaIdle = 1
    ReadWake = 1
    TakeoverWait = 1
    ConnectTimeout = 1
    ReadTimeout = 1
    PullIdle = 1
    PullWake = 1
    Reconnect = 1
    DrainTime = 1
    Keys <- TheKeys
    MaxAsks <- TheMaxAsks
    MaxEnds <- TheMaxEnds
    MayFail = FALSE
PROPERTY KickedWorkerLeaves
CHECK_DEADLOCK FALSE
