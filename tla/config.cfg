\* Any changes, also of the parent directory, between any two system calls.
CONSTANTS
    Configs = {defaults, a, b}
    Defaults = defaults
    Missing = missing
    Depth = 2
    MaxChanges = 5
SPECIFICATION FairSpec
INVARIANTS
    StaleIsNoticed
    ChainIsWatched
PROPERTIES
    SettlesOnFile
CHECK_DEADLOCK FALSE
