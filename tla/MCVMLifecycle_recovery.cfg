\* One student, two requests at a time: two stops of one session, one failure
\* between any two steps of a request or a job, or in libvirt, and one job that
\* runs again after its worker died.
SPECIFICATION Spec
CONSTANTS
    Users = {u1}
    Students = {u1}
    Sessions = {s1, s2}
    Ports = {p1, p2}
    MaxConcurrent = 2
    Handlers = {h1, h2}
    Sweepers = {}
    Collectors = {}
    MaxStops = 2
    MaxRenewals = 0
    MaxFaults = 1
    MaxRedeliveries = 1
    None = None
INVARIANTS
    OneActivePerUser
    RunningIsBacked
    ConsoleIsExclusive
    ForceStopKills
PROPERTIES
    UsesPortsAsRegistry
SYMMETRY Symmetry
\* Users may stop asking for anything.
CHECK_DEADLOCK FALSE
