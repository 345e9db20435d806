\* One session whose guest powered off, and a fair collector.
SPECIFICATION FairSpec
CONSTANTS
    Users = {u1}
    Students = {u1}
    Sessions = {s1}
    Ports = {p1}
    MaxConcurrent = 2
    Handlers = {h1}
    Sweepers = {}
    Collectors = {g1}
    MaxStops = 0
    MaxRenewals = 0
    MaxFaults = 0
    MaxRedeliveries = 0
    None = None
PROPERTIES
    MismatchIsCollected
\* Users may stop asking for anything.
CHECK_DEADLOCK FALSE
