SPECIFICATION Spec
CONSTANTS
    Clients = {p1, p2}
    Cells = {c1}
    Stone = Stone
    Air = Air
    Blocks = {Air, Stone}
    Generated <- MCGenerated
    World = World
    OutCapacity = 3
    MaxSpecPool = 2
    HooksInstalled = TRUE
    MayRefuse = FALSE
    MaxRev = 1
    OutQueue = 9
    ExpiryOn = FALSE
    ToolsOn = TRUE
    MaxReq = 2
SYMMETRY MCSymmetry
CHECK_DEADLOCK FALSE
INVARIANTS
    TypeOK CommitsAtExpected VerdictsTrue StreamInOrder NothingMissed MirrorFaithful
PROPERTIES
    ImplementsHistory
