SPECIFICATION Spec
CONSTANTS
    Servers = {s1}
    MaxRuns = 1
    BackupStaleDays = 1
    RetentionDays = 1
    MaxDay = 1
    MaxFaults = 0
PROPERTIES
    RunsSettle
