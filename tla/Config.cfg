SPECIFICATION Spec
CONSTANTS
    Numbers = {"tapMode"}
    Texts = {"devName"}
    KeptTexts = {"macAddr", "venderID"}
    MacField = "macAddr"
    Values <- MCValues
    Default = Default
    Absent = Absent
    OtherType = OtherType
    Macs <- MCMacs
    Tunnels = {"a", "b"}
    Incomplete = "-"
    Broken = Broken
    Files <- MCFiles
    MaxTunnels = 4
INVARIANTS
    ReloadedAsFresh
    TunnelsOfAllLoads
    EditSurvives
