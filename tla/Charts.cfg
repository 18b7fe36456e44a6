SPECIFICATION HistorySpec
CONSTANTS
    MaxTime = 3
    Retention = 3
    Windows = {1, 3}
    RowLimits = {1}
    MostBeats = 2
    MostSamples = 2
    RangeCap = 2
    ChartPoints = 1
CHECK_DEADLOCK FALSE
INVARIANTS
    ChartEndsNow
