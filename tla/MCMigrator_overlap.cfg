SPECIFICATION FairSpec
CONSTANTS
    p1 = p1
    p2 = p2
    m1 = m1
    m2 = m2
    m3 = m3
    Procs = {p1, p2}
    Names = {m1, m2, m3}
    Calls <- OverlapCalls
    MaxCalls = 2
    ExclusiveDown = FALSE
INVARIANT RecordedIsApplied
PROPERTY Terminates
CHECK_DEADLOCK FALSE
