SPECIFICATION Spec
CONSTANTS
    Admins = {a1, a2}
    Sessions = {x1, x2}
    Requests = {r1, r2}
    MaxOps = 5
    MaxTime = 3
    Retention = 2
    Windows = {2, 3}
    RowLimits = {0, 9}
    MostBeats = 2
    MostSamples = 2
    RangeCap = 3
    ChartPoints = 1
    Apps = {r1, r2}
    Tags = {1, 2, 3}
    MaxUpdates = 3
    Launches = {r1, r2}
    Metrics = {m1, m2}
    MaxStarts = 3
    MaxCuts = 2
SYMMETRY Symmetry
CHECK_DEADLOCK FALSE
INVARIANTS
    TypeOK
    OwnerRemains
    SetupOnce
    RoleStands
    ResetEvicts
    InstalledIntact
    DataOutlivesStarts
PROPERTIES
    HistoryTold
