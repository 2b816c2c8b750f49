SPECIFICATION FairSpec
CONSTANTS
    Clients = {p1}
    Cells = {c1, c2}
    Stone = Stone
    Air = Air
    Blocks = {Air, Stone, Sand}
    Generated <- MCGenerated
    World = World
    OutCapacity = 2
    MaxSpecPool = 1
    HooksInstalled = FALSE
    MayRefuse = TRUE
    MaxRev = 1
    OutQueue = 1
    ExpiryOn = TRUE
    ToolsOn = TRUE
    MaxReq = 2
CHECK_DEADLOCK FALSE
INVARIANTS
    PoolHolds
PROPERTIES
    RequestsSettle
