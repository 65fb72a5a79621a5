SPECIFICATION Spec
CONSTANTS
    Lights = {"side"}
    DEBOUNCE = 0
    DEBOUNCE_MAX = 1
    VIA_DEBOUNCE_MAX = 0
    TIMEOUT = 2
    TIMEOUT_MAX = 2
    BRIGHTNESS = 2
    BRIGHTNESS_MAX = 2
    SPEED = 1
    LIGHT_SPEED_MAX = 1
    LIGHT_COLOUR_MAX = 2
    SIDE_OFF = 2
    CAPS_INDICATOR_OFF = 0
    MaxUnsaved = 1
INVARIANTS DataIsGood ViaShowsOption RunsMarked
PROPERTY RestartRestores
