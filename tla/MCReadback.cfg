SPECIFICATION Spec
CONSTANTS
    MaxInt = 31
    Micro = 2
    Kinds = {"refresh", "retention", "columnstore"}
    Wishes <- SomeWishes
    ForeignJobs <- SomeJobs
    Day = 5
    HalfDay = 6
    Zones = {"UTC"}
    NoZone = NoZone
    NoTime = NoTime
    NoBool = NoBool
    Null = Null
    Absent = Absent
    NoJob = NoJob
    NoPolicy = NoPolicy
    Unreadable = Unreadable
INVARIANTS NeverMisread Converged
CHECK_DEADLOCK FALSE
