SPECIFICATION Spec
CONSTANTS
    Alerts = {a1}
    Duration = 1
    EscalateAfter = 1
    Retention = 1
    MaxSnooze = 1
    MaxNotes = 2
    MaxOps = 3
    MaxFaults = 3
INVARIANTS
    TypeOK
    OneOpenIncident
    EscalatedOnce
PROPERTIES
    HandledStaysQuiet
    SilencedOpensNothing
    Refines
    IncidentsFollow
    NeglectEscalates
