\* Three requests on an admin, a lecturer, a student and a free name; all of
\* them may have been served in the end.
SPECIFICATION Spec
CONSTANTS
    adm = adm
    lec = lec
    stu = stu
    new = new
    p1 = p1
    p2 = p2
    k1 = k1
    Users = {adm, lec, stu, new}
    Passwords = {p1, p2}
    Keys = {k1}
    MaxAttempts = 1
    Requests = {r1, r2, r3}
    Calls <- MCCalls
    MaxFaults = 1
    Table <- MCTable
    None = None
CHECK_DEADLOCK FALSE
INVARIANTS
    TypeOK
    DecisionsHaveAMoment
    LimitHolds
    CountersExpire
PROPERTIES
    UpdatesAreTheRequests
