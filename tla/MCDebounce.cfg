CONSTANTS
    Keys = {k1, k2}
    PressMs = {1, 3}
    ReleaseMs = {1, 2}
    TIME_MOD = 128
    UINT8_MAX = 255
    Gaps = {0, 1, 2}
    CLOCK_CAP = 9
SPECIFICATION Spec
SYMMETRY KeySymmetry
INVARIANTS NoStuckKey PressIsEager FreshTimeBase ReportedInTime
PROPERTIES ReleaseIsDeferred PressIsHeld ReportsEveryChange
