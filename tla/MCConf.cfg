SPECIFICATION Spec
CHECK_DEADLOCK FALSE
CONSTANTS
    Text = {1, 2, 7}
    PoolAlloc = 1
    MaxSpare <- Spares
    MaxExtra = 1
    MaxFault = 1
INVARIANTS StructureExact AssertionsHold HandlersRight AcceptedIsSound
