\* One replica, three sockets that open, close and open again, two events, one fault.
SPECIFICATION FairSpec
CONSTANTS
    Replicas = {r1}
    Sockets = {w1, w2, w3}
    MaxEvents = 2
    MaxFaults = 1
    None = None
INVARIANTS
    TypeOK
    InOrderOnce
    MissesOnlyForLeavers
PROPERTIES
    EventsAreHandled
