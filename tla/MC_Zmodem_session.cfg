CONSTANTS
    Wires <- MCWires
    MaxChunks = 4
    MaxCarry = 2
    MaxFiles = 2
    Window = 2
SPECIFICATION ZmodemSpec
INVARIANTS ZmodemInv ShownInOrder
PROPERTIES DisplayRecovers
CHECK_DEADLOCK FALSE
