SPECIFICATION RingSpec
CONSTANTS
    RF_QUEUE_SIZE = 4
    Report = {r1, r2}
    NoReport = NoReport
PROPERTIES
    ImplementsFifo
