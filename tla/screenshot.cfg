\* Two calls at once, each capture's constraints changing once.
CONSTANTS
    Calls = {c1, c2}
    MaxDones = 2
SPECIFICATION FairSpec
INVARIANTS
    FinishedHoldsNothing
    FrameHasItsBuffer
PROPERTIES
    CallIsPortalRequest
    CaptureIsAnswered
CHECK_DEADLOCK FALSE
