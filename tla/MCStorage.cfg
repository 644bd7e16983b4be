SPECIFICATION FairSpec
CONSTANTS
    s1 = s1  s2 = s2
    MaxInt = 31
    Micro = 2
    Services = {s1, s2}
    Plans <- SomePlans
    Default = Default
    Refused = Refused
INVARIANT AsPlanned
PROPERTY SetupEnds
CHECK_DEADLOCK FALSE
