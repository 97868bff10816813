SPECIFICATION Spec
CHECK_DEADLOCK FALSE
SYMMETRY Interchangeable
CONSTANTS
    Client = {c1, c2}
    Server = {s1, s2}
    MaxMsg = 4
    MaxParts = 2
    MaxFault = 2
INVARIANTS FragmentTree CountsAgree ResponsesWhole
PROPERTIES ImplementsGather
