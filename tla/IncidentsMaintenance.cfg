SPECIFICATION Spec
CONSTANTS
    Alerts = {a1}
    Duration = 1
    EscalateAfter = 1
    Retention = 1
    MaxSnooze = 1
    MaxNotes = 1
    MaxOps = 1
    MaxFaults = 1
PROPERTIES
    MaintenanceSilences
