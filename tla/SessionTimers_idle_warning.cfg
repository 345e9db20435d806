\* A whole sweep in every unit of the clock: the warning is lost to a race, not
\* to a late sweep.
SPECIFICATION Spec
CONSTANTS
    Requests = {r1}
    SessionMinutes = 6
    ExtensionMinutes = 1
    MaxExtensions = 1
    IdleTimeoutMinutes = 3
    IdleWarningMinutes = 1
    LastStart = 1
    Prompt = TRUE
PROPERTIES
    IdleStopIsWarned
