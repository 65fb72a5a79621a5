SPECIFICATION Spec
CONSTANTS
    NUM_BYTE_SLOTS = 1
    NUM_KEYS = 2
    Mods = {0}
    RF_QUEUE_SIZE = 3
INVARIANTS
    TypeOK
    HostUpToDate
    NeverRefused
PROPERTIES
    NoStaleFrame
    QueueDrains
    ChangesPropagate
    BreakAllReleases

VIEW View
