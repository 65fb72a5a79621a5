CONSTANTS
    DENSITY = 2
    LOG = 4
    PAGE = 2
    FEE_BYTE_RANGE = 2
    Byte = {0, 1}
    MaxBlock = 3
    MaxSpoilt = 2
SPECIFICATION Spec
INVARIANTS TypeOK ProgramsErased SavedInOrder
PROPERTY ImplementsStore
