SPECIFICATION Spec
CONSTANTS
    TicksPerSecond = 4
    LastSecond = 2
    Times <- ClockTimes
    Durations <- SomeDurations
    Limits <- SomeLimits
    Micro = 2
    Plus <- ClockPlus
    Bucket = 2
INVARIANTS PlanInv PlanTiles PlanExact BucketsRefreshed
CHECK_DEADLOCK FALSE
