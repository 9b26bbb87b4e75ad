SPECIFICATION FairSysSpec
CONSTANTS
    p1 = p1
    p2 = p2
    s = s
    l1 = l1
    lobby = lobby
    noRoom = noRoom
    Pods <- MCPods
    Conns <- MCConns
    Rooms <- MCRooms
    PodOf <- MCOnePod
    RoomOf <- MCRoomOf
    Payloads <- MCPayloads
    SendCap = 1
    NoRoom = noRoom
    MaxSends <- MCTwoSends
    Leavers <- MCLeavers
    FaultKinds = {"peerDies", "peerStalls", "publishFails", "slowRedis"}
    MaxFaults = 1
    HashOf <- MCHashOf
    NumShards = 1
PROPERTIES
    HandlerReturns
    InboxReachesUsers
CHECK_DEADLOCK FALSE
