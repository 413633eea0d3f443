SPECIFICATION HSpec
CONSTANTS
    AddrBits = 5
    NodeIDs <- MCNodeIDs
    Macs = {"m1", "m2"}
    NoMac = "none"
    UserID = 1
    GatewayID = 0
    IsGateWay = TRUE
    TapMode = TRUE
    OnlyAcc = FALSE
    Packets <- MCPackets
    Frames <- MCFrames
    RouteFaults = FALSE
PROPERTIES
    BelowAllHostsLookedUp
