SPECIFICATION Spec
CONSTANTS
    NUM_BYTE_SLOTS = 2
    NUM_KEYS = 4
    Mods = {0, 1}
INVARIANTS
    ReceiverSeesReport
    HeldOnce
PROPERTY NoneReleasedBetween
