\* Session.Close while a Start is in flight.
CONSTANTS
    Paths = {p1}
    NoPath = nopath
    Starts = {o1}
    MaxSessions = 1
    MaxCaptures = 1
    Several = {}
SPECIFICATION Spec
PROPERTY
    CloseAbortsStart
CHECK_DEADLOCK FALSE
