SPECIFICATION FairSpec
CONSTANTS
    p1 = p1
    p2 = p2
    m1 = m1
    m2 = m2
    m3 = m3
    Procs = {p1, p2}
    Names = {m1, m2}
    Calls <- FullCalls
    MaxCalls = 2
    ExclusiveDown = TRUE
INVARIANTS TypeOK LedgerExact
PROPERTIES ReportsHold LedgerRefined Terminates
CHECK_DEADLOCK FALSE
