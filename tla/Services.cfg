SPECIFICATION Spec
CONSTANTS
    MaxTime = 3
    Addresses = {i1}
    Accounts = {u1}
    Requests = {r1, r2}
    MaxFailures = 2
    Window = 2
    Lockout = 2
    AlertThreshold = 2
    PruneAt = 1
    MaxLogins = 5
    Admins = {a1, a2}
    Finishers = {r1, r2}
    Challenges = {c1, c2}
    Keys = {k1, k2}
    ChallengeTTL = 1
    MaxCeremonies = 6
    Tokens = {t1}
    Clients = {r1, r2}
    Rotators = {c1, c2}
    Sources = {src1}
    Scopes = {"fleet"}
    Limits = {0, 2}
    Lifetimes = {2}
    Minute = 2
    ExpiryNotice = 1
    PruneWindowsAt = 1
    MaxTokenCalls = 5
    Servers = {s1}
    Channels = {ch1}
    CertDates = {2, 4}
    CertWarn = 2
    RemediationFailures = 2
    MaxPolls = 3
    MaxMishaps = 1
    Panels = {s1}
    Views = {r1, r2}
    StatusTTL = 2
    MaxLoads = 5
    Fleet = {s1, s2, s3}
    Versions = {1, 2}
    Rows <- PolicyRows
    Instructed = {"credential_invalid"}
    Expiries = {2}
    Day = 2
    CertWarnDays = 1
    MaxPolicyCalls = 3
SYMMETRY Symmetry
CHECK_DEADLOCK FALSE
INVARIANTS
    TypeOK
    GuessesBounded
    OneNotice
    DeletedStaysDeleted
    RetiredStaysOut
    RateBound
    ChannelsHear
    RestartEarned
    StatusShared
PROPERTIES
    ChallengesAreTickets
    PageIsTrue
