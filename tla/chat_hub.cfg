SPECIFICATION FairHubSpec
CONSTANTS
    p1 = p1
    p2 = p2
    c1 = c1
    c2 = c2
    c3 = c3
    c4 = c4
    lobby = lobby
    m1 = m1
    noRoom = noRoom
    Pods <- MCPods
    Conns <- MCConns
    Rooms <- MCRooms
    PodOf <- MCPodOf
    RoomOf <- MCRoomOf
    Payloads <- MCPayloads
    SendCap = 1
    NoRoom = noRoom
INVARIANTS
    HubInv
    NoSendOnClosedChannel
    NoStrandedClient
    DetachedRoomIsEmpty
    OneSubscriptionPerRoom
PROPERTIES
    CancelledSubscriptionEnds
CHECK_DEADLOCK FALSE
