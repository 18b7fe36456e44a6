SPECIFICATION Spec
CONSTANTS
    Servers = {s1}
    MaxRuns = 2
    BackupStaleDays = 1
    RetentionDays = 1
    MaxDay = 2
    MaxFaults = 1
INVARIANTS
    TypeOK
    OutcomeIsTrue
PROPERTIES
    NoFalseAlarm
    AcceptedRunsSettle
    NegligenceShows
    SuccessResolves
