SPECIFICATION Spec
CONSTANTS
    Configs <- MCConfigs
    CalendarBack <- MCCalendarBack
    MaxInt = 31
    Micro = 2
    ChunkWidth = 4
    Phases = {0, 2}
    MaxMonths = 3
    MaxTime = 24
    MaxRows = 2
INVARIANTS TypeOK PlanIsExact RevisitedWhenAligned
PROPERTIES HistoryKept NoWriteToColumnstore DroppedClosed
CHECK_DEADLOCK FALSE
