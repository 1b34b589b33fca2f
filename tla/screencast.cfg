\* Two Starts, overlapping or not, one of which may select two sources, on two sessions
\* created one after the other at a path.
CONSTANTS
    Paths = {p1}
    NoPath = nopath
    Starts = {o1, o2}
    MaxSessions = 2
    MaxCaptures = 2
    Several = {o1}
SPECIFICATION FairSpec
INVARIANTS
    TypeOK
    FinishedHoldsNothing
    CapturingCanEnd
    ClosedSessionsGetErased
    StreamsWereAnnounced
    StopClosesOwnSession
PROPERTIES
    OnlyOldErases
    StartIsPortalRequest
    CapturingIsAnswered
CHECK_DEADLOCK FALSE
