SPECIFICATION FrameSpec
CONSTANTS
    MaxInt = 31
    Micro = 2
    Targets = {"frame", "aggregate"}
    Columns = {"a", "bucket"}
    Widths <- SomeWidths
    Offsets <- SomeOffsets
    Zones = {"UTC", "Local", "Not/AZone"}
    Locations = {"UTC", "Local"}
    Local = "Local"
    ServerZones = {"UTC"}
    TrustedSelects <- SomeSelects
    Origins = {5}
    Ranges <- SomeRanges
    Measures <- SomeMeasures
    Predicates <- SomePredicates
    Values = {1, 2}
    Null = Null
    NoZone = NoZone
    NoTime = NoTime
    NoSelect = NoSelect
    Absent = Absent
    NoStatement = NoStatement
    MaxCalls = 6
INVARIANTS MeansWhatWasAsked ValidRuns
CHECK_DEADLOCK FALSE
