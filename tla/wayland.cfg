\* One capture at a time, pictures of two sizes.
CONSTANTS
    Requests = {"session", "frame", "stream", "destroy"}
    p1 = p1
    p2 = p2
    small = small
    large = large
    Pictures = {p1, p2}
    SizeOf <- MCSizeOf
    Nothing = nothing
    MaxChanges = 2
    MaxRetries = 1
    MaxStalls = 1
SPECIFICATION MCFairSpec
INVARIANTS
    IdleListens
    RequestsGoOut
    CursorIsWhole
    RequestsAreKept
PROPERTIES
    NeverStuck
    CursorSettles
CHECK_DEADLOCK FALSE
