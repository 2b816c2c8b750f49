SPECIFICATION FairSpec
CONSTANTS
    Clients = {p1, p2}
    Cells = {c1}
    Stone = Stone
    Air = Air
    Blocks = {Air, Stone}
    Generated <- MCGenerated
    World = World
    OutCapacity = 2
    MaxSpecPool = 2
    HooksInstalled = TRUE
    MayRefuse = FALSE
    MaxRev = 1
    OutQueue = 9
    ExpiryOn = TRUE
    ToolsOn = FALSE
    MaxReq = 1
CHECK_DEADLOCK FALSE
PROPERTIES
    Converges
