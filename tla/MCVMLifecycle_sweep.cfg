\* Fair scheduler, no stop requests: two sessions fall due, guests power off,
\* so that one teardown of a sweep raises, and one session is renewed.
SPECIFICATION FairSpec
CONSTANTS
    Users = {u1, u2}
    Students = {u1}
    Sessions = {s1, s2}
    Ports = {p1, p2}
    MaxConcurrent = 2
    Handlers = {h1}
    Sweepers = {w1}
    Collectors = {}
    MaxStops = 0
    MaxRenewals = 1
    MaxFaults = 0
    MaxRedeliveries = 0
    None = None
PROPERTIES
    DueIsSwept
\* Users may stop asking for anything.
CHECK_DEADLOCK FALSE
