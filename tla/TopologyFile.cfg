SPECIFICATION Spec
CHECK_DEADLOCK FALSE
CONSTANTS
    r1 = r1
    r2 = r2
    r3 = r3
    a = a
    b = b
    p10 = p10
    z = z
    w = w
    br = br
    a0 = a0
    a00 = a00
    a1 = a1
    b0 = b0
    b1 = b1
    bare = bare
    ax = ax
    NoIdx = 9
    Torn = Torn
    NoFile = NoFile
    Requests <- MCRequests
    Scenarios <- MCScenarios
    Nodes <- MCNodes
    Unfit = {z}
    Odd = {w}
    Bridges = {br}
    BridgePeers <- MCBridgePeers
    Peers <- MCPeers
    PeerNode <- MCPeerNode
    PeerIdx <- MCPeerIdx
    Matched <- MCMatched
PROPERTIES
    LinksGoWhenAsked
    ReloadKeepsLinks
    EditKeepsTheRest
