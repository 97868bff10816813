SPECIFICATION Spec
CHECK_DEADLOCK FALSE
CONSTANTS
    Lengths <- LongAndShort
    CHUNK = 3
    IOV_MAX = 2
INVARIANTS BuffersHoldStream RequestsWhole SendDoneExactly
