\* Two slots and three ports: while one call walks the range the other slot
\* can claim, release and forget any of the ports, so a call can lose the race
\* on every one of them.
SPECIFICATION FairSpec
CONSTANTS
    Clients = {w1, w2}
    PortMin = 5900
    PortMax = 5903
INVARIANTS
    TypeOK
    PortMutex
PROPERTIES
    ClaimsLowestFree
    RaisesOnlyWhenNoneStayedFree
    AllocationEnds
    ImplementsRegistry
