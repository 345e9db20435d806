\* A student's and a lecturer's session at once, one request and one run of the
\* collector: a stop races both jobs, one of which runs again.
SPECIFICATION Spec
CONSTANTS
    Users = {u1, u2}
    Students = {u1}
    Sessions = {s1, s2}
    Ports = {p1, p2}
    MaxConcurrent = 2
    Handlers = {h1}
    Sweepers = {}
    Collectors = {g1}
    MaxStops = 1
    MaxRenewals = 0
    MaxFaults = 0
    MaxRedeliveries = 1
    None = None
INVARIANTS
    TypeOK
    ConsoleIsExclusive
SYMMETRY Symmetry
\* Users may stop asking for anything.
CHECK_DEADLOCK FALSE
