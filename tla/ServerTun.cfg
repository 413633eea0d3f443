SPECIFICATION HSpec
CONSTANTS
    AddrBits = 3
    NodeIDs <- MCNodeIDs
    Macs = {"m1"}
    NoMac = "none"
    UserID = 1
    GatewayID = 9
    IsGateWay = FALSE
    TapMode = FALSE
    OnlyAcc = FALSE
    Packets <- MCPackets
    Frames <- MCFrames
    RouteFaults = FALSE
INVARIANTS
    TypeOK
    CacheCoherent
    SentAsTabled
    GatewayNeverCached
    RoutesCoverMesh
    NoStrayRoutes
    SteeredPacketsReachNode
    SteeredAsClaimed
