SPECIFICATION OutagesSpec
CONSTANTS
    MaxTime = 2
    Servers = {s1}
    Channels = {c1}
    CertDates = {2}
    CertWarn = 1
    RemediationFailures = 2
    MaxPolls = 2
    MaxMishaps = 0
CHECK_DEADLOCK FALSE
PROPERTIES
    CrossingAnnounced
