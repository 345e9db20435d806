\* Two requests in flight, two extensions, sweeps of any length.
SPECIFICATION FairSpec
CONSTANTS
    Requests = {r1, r2}
    SessionMinutes = 3
    ExtensionMinutes = 1
    MaxExtensions = 2
    IdleTimeoutMinutes = 2
    IdleWarningMinutes = 1
    LastStart = 1
    Prompt = FALSE
INVARIANTS
    TypeOK
    NoFreeTime
    WarnsOncePerIdlePeriod
PROPERTIES
    SessionEnds
