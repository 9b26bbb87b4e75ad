SPECIFICATION SysSpec
CONSTANTS
    p1 = p1
    p2 = p2
    s = s
    l1 = l1
    lobby = lobby
    noRoom = noRoom
    Pods <- MCPods
    Conns <- MCConns
    Rooms <- MCRooms
    PodOf <- MCOnePod
    RoomOf <- MCRoomOf
    Payloads <- MCPayloads
    SendCap = 2
    NoRoom = noRoom
    MaxSends <- MCOneSend
    Leavers <- MCLeavers
    FaultKinds = {}
    MaxFaults = 0
    HashOf <- MCHashOf
    NumShards = 1
INVARIANTS
    OwnMessageComesBack
CHECK_DEADLOCK FALSE
