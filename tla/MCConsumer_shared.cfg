SPECIFICATION FairSpec
CONSTANTS
    c1 = c1  c2 = c2  k1 = k1  k2 = k2  x = x  y = y  bad = bad
    Consumers = {c1, c2}
    Conns = {k1, k2}
    Channels = {x, y}
    Unquotable = bad
    NoConn = NoConn
    Assignments <- SomeAssignments
    MaxListens = 2
    MaxEvents = 2
INVARIANTS TypeOK NothingMissed SessionsClean
PROPERTIES Delivered CancelEnds
CHECK_DEADLOCK FALSE
