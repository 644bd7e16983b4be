SPECIFICATION FairSpec
CONSTANTS
    p1 = p1  p2 = p2  p3 = p3  a = a  b = b  bad = bad
    Procs = {p1, p2, p3}
    Conns = {1, 2, 3, 4}
    Specs = {a, b}
    Invalid = bad
    Calls <- MixedCalls
    Kinds = {"refresh", "columnstore"}
    Deadline = FALSE
    NoJob = NoJob
    NoProc = NoProc
INVARIANTS TypeOK StrictReportsHold SameWishAgreed PoolServes
PROPERTIES PolicyChangesOwned Terminates
CHECK_DEADLOCK FALSE
