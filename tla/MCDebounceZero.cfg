CONSTANTS
    Keys = {k1, k2}
    PressMs = {2}
    ReleaseMs = {0}
    TIME_MOD = 128
    UINT8_MAX = 255
    Gaps = {0, 1, 2}
    CLOCK_CAP = 6
SPECIFICATION Spec
INVARIANT ReportedInTime
