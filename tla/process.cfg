\* A child with more to read than its pipe holds, and more to write.
CONSTANTS
    Input = 3
    PipeSize = 2
    MaxOutput = 3
    SigtermBlocked = FALSE
SPECIFICATION ProcessFairSpec
INVARIANTS
    ResultIsWhole
PROPERTIES
    TerminatedIsSilent
    EndIsReported
CHECK_DEADLOCK FALSE
