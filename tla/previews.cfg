\* Three cards, every viewport.
CONSTANT Cards = {0, 1, 2}
SPECIFICATION FairSpec
INVARIANTS
    OnePlaceEach
    ResultsAreAnnounced
PROPERTIES
    VisibleGetsPreview
    PickerEnds
CHECK_DEADLOCK FALSE
