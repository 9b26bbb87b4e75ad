SPECIFICATION SysSpec
CONSTANTS
    p1 = p1
    p2 = p2
    s = s
    l1 = l1
    l2 = l2
    lobby = lobby
    noRoom = noRoom
    Pods <- MCPods
    Conns <- MCConns
    Rooms <- MCRooms
    PodOf <- MCPodOf
    RoomOf <- MCRoomOf
    Payloads <- MCPayloads
    SendCap = 2
    NoRoom = noRoom
    MaxSends <- MCMaxSends
    Leavers <- MCLeavers
    FaultKinds = {}
    MaxFaults = 0
    HashOf <- MCHashOf
    NumShards = 2
INVARIANTS
    NoGaps
    SenderOrder
PROPERTIES
    ImplementsChatRoom
CHECK_DEADLOCK FALSE
