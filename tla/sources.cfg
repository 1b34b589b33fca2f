\* Two connectors, two windows of one application or two, any two changes.
CONSTANTS
    Connectors = {k1, k2}
    Modes = {m1, m2}
    Windows = {w1, w2}
    i1 = i1
    i2 = i2
    a1 = a1
    a2 = a2
    Infos = {i1, i2}
    AppOf <- MCAppOf
    None = none
    MaxGlobals = 2
    MaxChanges = 2
    MaxStarts = 2
SPECIFICATION Spec
SYMMETRY MCSymmetry
INVARIANTS
    ListsAgree
    WindowsAreWhole
    SharesOnlyGranted
CHECK_DEADLOCK FALSE
