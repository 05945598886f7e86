\* A connection that publishes twice.
SPECIFICATION Spec
CONSTANTS
    MaxSampleGap = 3
    MaxAsymJump = 1
    DefaultDuration = {1, 2}
    Lag = 0
    MayRestart = FALSE
    MayRepublish = TRUE
    MaxDts = 5
    MaxPos = 6
INVARIANT SharedEpoch
CHECK_DEADLOCK FALSE
