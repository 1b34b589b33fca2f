\* A pick whose constraints change while its frame is outstanding.
CONSTANTS
    Calls = {c1}
    MaxDones = 2
SPECIFICATION Spec
INVARIANTS
    FrameHasItsCallback
CHECK_DEADLOCK FALSE
