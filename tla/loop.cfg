\* Four registrations on three numbers: a number is used again while others are watched.
CONSTANTS
    Fds = {f1, f2, f3}
    MaxSerial = 4
SPECIFICATION FairSpec
INVARIANTS
    RegisteredUntilRemoved
PROPERTIES
    OnlyLiveCallbacks
    TimersRun
CHECK_DEADLOCK FALSE
