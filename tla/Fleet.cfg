SPECIFICATION Spec
CONSTANTS
    Servers = {s1}
    Secrets = {k1, k2}
    Requests = {r1, r2}
    FileCreds = {"valid"}
    MaxOps = 3
    MaxFaults = 1
INVARIANTS
    TypeOK
    UnreachableNeverValid
    PauseStands
    RemovalStands
    SecretStands
PROPERTIES
    EventuallyAccurate
