SPECIFICATION SysSpec
CONSTANTS
    p1 = p1
    p2 = p2
    s = s
    l1 = l1
    lobby = lobby
    noRoom = noRoom
    Pods <- MCPods
    Conns <- MCConns
    Rooms <- MCRooms
    PodOf <- MCPodOf
    RoomOf <- MCRoomOf
    Payloads <- MCPayloads
    SendCap = 1
    NoRoom = noRoom
    MaxSends <- MCOneSend
    Leavers <- MCLeavers
    FaultKinds = {"peerDies", "publishFails", "publishTimesOut", "redisLost", "slowRedis", "crash"}
    MaxFaults = 2
    HashOf <- MCHashOf
    NumShards = 1
INVARIANTS
    SysTypeOK
    IdleClientStaysConnected
PROPERTIES
    ImplementsChatRoom
CHECK_DEADLOCK FALSE
