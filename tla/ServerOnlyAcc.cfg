SPECIFICATION HSpec
CONSTANTS
    AddrBits = 3
    NodeIDs <- MCNodeIDs
    Macs = {"m1"}
    NoMac = "none"
    UserID = 1
    GatewayID = 9
    IsGateWay = FALSE
    TapMode = FALSE
    OnlyAcc = TRUE
    Packets <- MCPackets
    Frames <- MCFrames
    RouteFaults = TRUE
INVARIANTS
    OneExit
    NoStrayRoutes
    RoutesCoverMesh
