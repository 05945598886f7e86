\* A peer that interleaves its tracks up to a lag, restarts its clock and publishes again.
SPECIFICATION Spec
CONSTANTS
    MaxSampleGap = 2
    MaxAsymJump = 1
    DefaultDuration = {1, 2}
    Lag = 1
    MayRestart = TRUE
    MayRepublish = TRUE
    MaxDts = 4
    MaxPos = 4
INVARIANTS TypeOK StartsTogether NeverUndercounts
PROPERTY MonotoneTimeline
CHECK_DEADLOCK FALSE
