CONSTANTS
    SLEEP_TIMEOUT = 2
    LINK_TIMEOUT = 2
    SUSPEND_DEBOUNCE = 2
    DISCONNECT_TURNS = 1
SPECIFICATION Spec
INVARIANTS AwakeIsLit AsleepIsDark
PROPERTY IdleSleeps
