\* Two requests of any kind in flight, limits 1 and 2.
SPECIFICATION Spec
CONSTANTS
    Requests = {r1, r2}
    Windows = {w1, w2, w3}
    Limits = {1, 2}
    Default = 2
    MaxRevived = 1
    MaxFaults = 1
INVARIANTS
    TypeOK
    OvershootIsBounded
    SlipsAreBounded
    BannerIsTrue
\* The window ids of this instance may be used up.
CHECK_DEADLOCK FALSE
