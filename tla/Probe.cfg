CONSTANTS
    c1 = c1
    c2 = c2
    NoComm = NoComm
    Comms <- TwoComms
    MaxCalls = 3
    MaxDepth = 2
SPECIFICATION Spec
SYMMETRY CommSymmetry
CHECK_DEADLOCK FALSE
INVARIANTS
    OwnDuration
    SizeIsKnown
PROPERTIES
    Refines
