\* Fifteen words heard through a window of twelve, two of them not yet stable.
CONSTANTS
    Speech <- MCSpeech
    Durations = {9, 12}
    Window = 48
    StableRegion = 8
    Tolerance = 1
    Lateness = {0, 1}
    SegmentSizes = {1, 2, 3}
SPECIFICATION Spec
INVARIANTS SpokenOnce NothingIsDropped
CHECK_DEADLOCK FALSE
