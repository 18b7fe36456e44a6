SPECIFICATION Spec
CONSTANTS
    Servers = {s1}
    Secrets = {k1, k2}
    Requests = {r1}
    FileCreds = {"valid"}
    MaxOps = 2
    MaxFaults = 1
PROPERTIES
    DisableHolds
