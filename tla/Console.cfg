\* A student and a lecturer share one VNC port, so that it is handed on; one
\* console; a worker dies in a job, and arq runs the job again.
SPECIFICATION ConsoleFairSpec
CONSTANTS
    Users = {u1, u2}
    Students = {u1}
    Sessions = {s1, s2}
    Ports = {p1}
    MaxConcurrent = 2
    Handlers = {h1}
    Sweepers = {}
    Collectors = {}
    MaxStops = 1
    MaxRenewals = 0
    MaxFaults = 0
    MaxRedeliveries = 1
    Consoles = {c1}
    None = None
INVARIANTS
    ConsoleTypeOK
    ConsoleShowsOwnVM
    OverIsClosed
PROPERTIES
    EndsTogether
\* Users may stop asking for anything.
CHECK_DEADLOCK FALSE
