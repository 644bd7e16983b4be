SPECIFICATION FairSpec
CONSTANTS
    p1 = p1  p2 = p2  r1 = r1  r2 = r2  row = row  big = big
    Procs = {p1, p2}
    MayCall <- SomeCalls
    Notifs <- SomeNotifs
    Letters = {"a", "i", "x", "y"}
    OtherLetters = {"ae"}
    Digits = {}
    Relations = {r1, r2}
    RelationOf <- Tables
    Changes <- SomeChanges
    BigRows = {big}
    NoRow = NoRow
    NoChange = NoChange
    NoFunction = NoFunction
    NoTrigger = NoTrigger
    NoCall = NoCall
    NameLimit = 6
    ChannelLimit = 4
INVARIANT CatalogIntact
PROPERTIES RegistryRefined Terminates
CHECK_DEADLOCK FALSE
