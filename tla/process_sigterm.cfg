\* The child inherits the signal mask of the portal.
CONSTANTS
    Input = 1
    PipeSize = 1
    MaxOutput = 1
    SigtermBlocked = TRUE
SPECIFICATION ProcessFairSpec
PROPERTIES
    TerminatedChildEnds
CHECK_DEADLOCK FALSE
