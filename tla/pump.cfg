\* Two buffers, two sizes; allocations may fail and a negotiation may back fewer addresses.
CONSTANTS
    Slots = {b1, b2}
    NoSlot = noslot
    Sizes = {small, large}
    MaxResizes = 2
    MaxRelinks = 3
SPECIFICATION FairSpec
INVARIANTS
    BuffersComeBack
    FramesExcludeReconfiguration
    OfferIsCurrent
    PumpIsDriven
PROPERTIES
    SizeSettles
CHECK_DEADLOCK FALSE
