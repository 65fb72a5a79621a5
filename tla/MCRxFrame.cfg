CONSTANTS
    UART_MAX_LEN = 8
    STATUS_LEN = 2
    FUNC_TAB_LEN = 2
    Messages <- MCMessages
    Stray = {90, 4}
    MaxFrames = 3
    MaxStray = 1
    MaxWire = 9
SPECIFICATION Spec
CHECK_DEADLOCK FALSE
INVARIANTS ReadsInside
PROPERTIES WholeFrameTaken DamageDropped OnlyIntactTaken
