SPECIFICATION Spec
CONSTANTS
    Nodes = {n1, n2}
    Lengths <- MCLengths
    SessionMessages <- MCSessionMessages
    InFlight = 2
    Nothing = Nothing
INVARIANTS
    WrittenAsRead
    PeersKeepNodeUp
    BodyWithinMessage
