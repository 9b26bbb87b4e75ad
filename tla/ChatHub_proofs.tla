--------------------------- MODULE ChatHub_proofs ---------------------------
(***************************************************************************)
(* Proofs about the chat hub, for any number of pods, connections, rooms   *)
(* and any buffer capacity.  HubInv is inductive; the four safety          *)
(* properties of ChatHub follow from it.                                   *)
(***************************************************************************)
EXTENDS ChatHub, TLAPS

\* The bounded, non-blocking send keeps a buffer a sequence within capacity.
LEMMA OfferType ==
    ASSUME NEW m \in Payloads, NEW q \in Seq(Payloads), Len(q) <= SendCap
    PROVE  Offer(q, m) \in Seq(Payloads) /\ Len(Offer(q, m)) <= SendCap
  BY HubAssumption DEF Offer

LEMMA KeyType == \A c \in Conns : Key(c) \in Keys
  BY HubAssumption DEF Key, Keys

\* A hub starts with no rooms and satisfies the inductive invariant.
LEMMA HubInitInv == HubInit => HubInv
  BY KeyType, HubAssumption
  DEF HubInit, HubInv, HubTypeOK, RegisteredRooms, Members, LiveSubscriptions,
      Handlers, NoStrandedClient, InRoom, RoomAt

\* join, when the name has a room.
LEMMA JoinExistingInv ==
    ASSUME HubInv, NEW c \in Conns, JoinExisting(c)
    PROVE  HubInv'
  <1> USE DEF HubInv
  <1>1. HubTypeOK'
    BY KeyType DEF HubTypeOK, JoinExisting, RoomAt
  <1>2. RoomAt(c) \in Conns /\ Key(RoomAt(c)) = Key(c) /\ pc[RoomAt(c)] # "new"
    BY KeyType DEF HubTypeOK, JoinExisting, RoomAt, RegisteredRooms, Handlers
  <1>3. RegisteredRooms'
    BY <1>2, KeyType DEF HubTypeOK, JoinExisting, RegisteredRooms, RoomAt
  <1>4. Members'
    BY <1>2, KeyType DEF HubTypeOK, JoinExisting, Members, Handlers, InRoom, RoomAt
  <1>5. LiveSubscriptions'
    BY DEF HubTypeOK, JoinExisting, LiveSubscriptions, RoomAt
  <1>6. Handlers'
    BY <1>2 DEF HubTypeOK, JoinExisting, Handlers, RoomAt
  <1>7. NoStrandedClient'
    BY <1>2, KeyType DEF HubTypeOK, JoinExisting, NoStrandedClient, InRoom, RoomAt
  <1> QED BY <1>1, <1>3, <1>4, <1>5, <1>6, <1>7

\* join, when it creates the room: nothing is registered under the name.
LEMMA JoinNewInv ==
    ASSUME HubInv, NEW c \in Conns, JoinNew(c)
    PROVE  HubInv'
  <1> USE DEF HubInv, JoinNew, CreateRoom
  <1>1. HubTypeOK'
    BY KeyType DEF HubTypeOK
  <1>2. Key(c) \in Keys /\ rooms[Key(c)] = NoRoom /\ rooms'[Key(c)] = c
    BY KeyType DEF HubTypeOK, RoomAt
  <1>3. \A d \in Conns : c \notin clients[d]
    BY DEF Members, InRoom
  <1>4. RegisteredRooms'
    <2> SUFFICES ASSUME NEW k \in Keys, rooms'[k] # NoRoom
                 PROVE  /\ Key(rooms'[k]) = k
                        /\ clients'[rooms'[k]] # {}
                        /\ ~cancelled'[rooms'[k]]
                        /\ sub'[rooms'[k]] \in {"pending", "running"}
      BY DEF RegisteredRooms, Key
    <2>1. CASE k = Key(c)
      BY <1>2, <2>1 DEF HubTypeOK, Handlers
    <2>2. CASE k # Key(c)
      <3>1. rooms'[k] = rooms[k] /\ rooms[k] \in Conns
        BY <2>2, HubAssumption DEF HubTypeOK
      <3>2. rooms[k] # c
        BY <2>2, <3>1 DEF RegisteredRooms
      <3> QED BY <3>1, <3>2 DEF HubTypeOK, RegisteredRooms
    <2> QED BY <2>1, <2>2
  <1>5. Members'
    BY <1>2, <1>3, KeyType, HubAssumption DEF HubTypeOK, Members, Handlers, InRoom, RoomAt
  <1>6. LiveSubscriptions'
    BY <1>2, KeyType, HubAssumption DEF HubTypeOK, LiveSubscriptions, RoomAt
  <1>7. Handlers'
    BY <1>2, KeyType, HubAssumption DEF HubTypeOK, Handlers, RoomAt
  <1>8. NoStrandedClient'
    <2> SUFFICES ASSUME NEW d \in Conns, InRoom(d)'
                 PROVE  RoomAt(d)' # NoRoom /\ d \in clients'[RoomAt(d)']
      BY DEF NoStrandedClient
    <2>1. CASE d = c
      BY <1>2, <2>1, HubAssumption DEF HubTypeOK, RoomAt, Key
    <2>2. CASE d # c
      <3>1. Key(d) # Key(c) /\ RoomAt(d) # NoRoom /\ d \in clients[RoomAt(d)]
        BY <1>2, <2>2 DEF HubTypeOK, NoStrandedClient, InRoom, RoomAt
      <3>2. RoomAt(d)' = RoomAt(d) /\ RoomAt(d) # c
        BY <1>2, <3>1, KeyType DEF HubTypeOK, RoomAt, Key, Handlers
      <3> QED BY <3>1, <3>2, KeyType, HubAssumption DEF HubTypeOK, RoomAt
    <2> QED BY <2>1, <2>2
  <1> QED BY <1>1, <1>4, <1>5, <1>6, <1>7, <1>8

\* The creator still stands in its room when its subscription starts.
LEMMA SubscribeInv ==
    ASSUME HubInv, NEW c \in Conns, Subscribe(c)
    PROVE  HubInv'
  <1> USE DEF HubInv, Subscribe
  <1>1. HubTypeOK'
    BY DEF HubTypeOK
  <1>2. RegisteredRooms'
    BY DEF HubTypeOK, RegisteredRooms
  <1>3. Members'
    BY DEF HubTypeOK, Members, InRoom, RoomAt
  <1>4. LiveSubscriptions'
    BY DEF HubTypeOK, LiveSubscriptions, Handlers, RoomAt
  <1>5. Handlers'
    BY DEF HubTypeOK, Handlers, RoomAt
  <1>6. NoStrandedClient'
    BY DEF HubTypeOK, NoStrandedClient, InRoom, RoomAt
  <1> QED BY <1>1, <1>2, <1>3, <1>4, <1>5, <1>6

\* leave finds the room of the client, and takes it down with the last one.
LEMMA LeaveInv ==
    ASSUME HubInv, NEW c \in Conns, Leave(c)
    PROVE  HubInv'
  <1> USE DEF HubInv
  <1> DEFINE r == RoomAt(c)
  <1>1. /\ r \in Conns /\ Key(r) = Key(c) /\ Key(c) \in Keys
        /\ c \in clients[r] /\ rooms[Key(c)] = r
        /\ pc[c] = "joined" /\ pc' = [pc EXCEPT ![c] = "left"]
        /\ clients' = [clients EXCEPT ![r] = @ \ {c}]
        /\ UNCHANGED <<sub, send, closed>>
    BY KeyType DEF Leave, HubTypeOK, NoStrandedClient, InRoom, RegisteredRooms, RoomAt
  <1>2. r \in Conns /\ sub[r] # "none" /\ ~cancelled[r]
    BY <1>1, HubAssumption DEF RegisteredRooms
  <1>3. CASE LastOut(c)
    <2>1. rooms' = [rooms EXCEPT ![Key(c)] = NoRoom] /\ cancelled' = [cancelled EXCEPT ![r] = TRUE]
      BY <1>1, <1>3 DEF Leave, CloseRoom, RoomAt, HubTypeOK
    <2>2. clients[r] = {c} /\ clients'[r] = {}
      BY <1>1, <1>3 DEF LastOut, HubTypeOK
    <2>3. pc[r] \notin {"new", "subscribing"}
      <3>1. pc[r] # "new"
        BY <1>2 DEF Handlers
      <3>2. ASSUME pc[r] = "subscribing" PROVE FALSE
        <4>1. r \in clients[r]
          BY <1>1, <1>2, <3>2 DEF NoStrandedClient, InRoom, RoomAt
        <4> QED BY <1>1, <2>2, <3>2, <4>1
      <3> QED BY <3>1, <3>2
    <2>4. HubTypeOK'
      BY <1>1, <2>1 DEF HubTypeOK
    <2>5. RegisteredRooms'
      BY <1>1, <2>1 DEF HubTypeOK, RegisteredRooms
    <2>6. Members'
      BY <1>1, <2>1, <2>2, KeyType DEF HubTypeOK, Members, InRoom, RoomAt
    <2>7. LiveSubscriptions'
      BY <1>1, <2>1, KeyType DEF HubTypeOK, LiveSubscriptions, RoomAt
    <2>8. Handlers'
      BY <1>1, <2>1, <2>3, KeyType DEF HubTypeOK, Handlers, RoomAt
    <2>9. NoStrandedClient'
      BY <1>1, <2>1, <2>2, KeyType DEF HubTypeOK, NoStrandedClient, InRoom, RoomAt
    <2> QED BY <2>4, <2>5, <2>6, <2>7, <2>8, <2>9
  <1>4. CASE ~LastOut(c)
    <2>1. UNCHANGED <<rooms, cancelled>>
      BY <1>1, <1>4 DEF Leave, RoomAt, HubTypeOK
    <2>2. HubTypeOK'
      BY <1>1, <2>1 DEF HubTypeOK
    <2>3. RegisteredRooms'
      BY <1>1, <1>4, <2>1 DEF HubTypeOK, RegisteredRooms, LastOut
    <2>4. Members'
      BY <1>1, <2>1 DEF HubTypeOK, Members, InRoom, RoomAt
    <2>5. LiveSubscriptions'
      BY <1>1, <2>1 DEF HubTypeOK, LiveSubscriptions, RoomAt
    <2>6. Handlers'
      BY <1>1, <2>1 DEF HubTypeOK, Handlers, RoomAt
    <2>7. NoStrandedClient'
      BY <1>1, <2>1 DEF HubTypeOK, NoStrandedClient, InRoom, RoomAt
    <2> QED BY <2>2, <2>3, <2>4, <2>5, <2>6, <2>7
  <1> QED BY <1>3, <1>4

\* The client has left: closing its channel concerns no room object.
LEMMA CloseSendInv ==
    ASSUME HubInv, NEW c \in Conns, CloseSend(c)
    PROVE  HubInv'
  <1> USE DEF HubInv, CloseSend
  <1>1. HubTypeOK'
    BY DEF HubTypeOK
  <1>2. Members'
    BY DEF HubTypeOK, Members, InRoom, RoomAt
  <1>3. Handlers'
    BY DEF HubTypeOK, Handlers, RoomAt
  <1>4. RegisteredRooms' /\ LiveSubscriptions' /\ NoStrandedClient'
    BY DEF HubTypeOK, RegisteredRooms, LiveSubscriptions, NoStrandedClient, InRoom, RoomAt
  <1> QED BY <1>1, <1>2, <1>3, <1>4

\* The handler returns after it has closed the channel.
LEMMA ReturnInv ==
    ASSUME HubInv, NEW c \in Conns, Return(c)
    PROVE  HubInv'
  <1> USE DEF HubInv, Return
  <1>1. HubTypeOK'
    BY DEF HubTypeOK
  <1>2. Members'
    BY DEF HubTypeOK, Members, InRoom, RoomAt
  <1>3. Handlers'
    BY DEF HubTypeOK, Handlers, RoomAt
  <1>4. RegisteredRooms' /\ LiveSubscriptions' /\ NoStrandedClient'
    BY DEF HubTypeOK, RegisteredRooms, LiveSubscriptions, NoStrandedClient, InRoom, RoomAt
  <1> QED BY <1>1, <1>2, <1>3, <1>4

\* Receiving from a buffer changes nothing else.
LEMMA WriterReceiveInv ==
    ASSUME HubInv, NEW c \in Conns, WriterReceive(c)
    PROVE  HubInv'
  <1> USE DEF HubInv, WriterReceive
  <1>1. HubTypeOK'
    <2>1. Tail(send[c]) \in Seq(Payloads) /\ Len(Tail(send[c])) <= SendCap
      BY HubAssumption DEF HubTypeOK
    <2> QED BY <2>1 DEF HubTypeOK
  <1>2. RegisteredRooms' /\ Members' /\ LiveSubscriptions' /\ Handlers' /\ NoStrandedClient'
    BY DEF RegisteredRooms, Members, LiveSubscriptions, Handlers, NoStrandedClient, InRoom, RoomAt
  <1> QED BY <1>1, <1>2

\* A broadcast changes buffers only, and keeps them within their capacity.
LEMMA DeliverInv ==
    ASSUME HubInv, NEW o \in Conns, NEW m \in Payloads, Deliver(o, m)
    PROVE  HubInv'
  <1> USE DEF HubInv, Deliver
  <1>1. HubTypeOK'
    <2>1. ASSUME NEW c \in Conns
          PROVE  send'[c] \in Seq(Payloads) /\ Len(send'[c]) <= SendCap
      BY OfferType DEF HubTypeOK, BroadcastLocalRoom
    <2>2. send' \in [Conns -> Seq(Payloads)]
      BY <2>1 DEF BroadcastLocalRoom
    <2> QED BY <2>1, <2>2 DEF HubTypeOK
  <1>2. RegisteredRooms' /\ Members' /\ LiveSubscriptions' /\ Handlers' /\ NoStrandedClient'
    BY DEF RegisteredRooms, Members, LiveSubscriptions, Handlers, NoStrandedClient, InRoom, RoomAt
  <1> QED BY <1>1, <1>2

\* A subscription that ends was cancelled, so it belonged to no registered room.
LEMMA SubscriptionExitInv ==
    ASSUME HubInv, NEW o \in Conns, SubscriptionExit(o)
    PROVE  HubInv'
  <1> USE DEF HubInv, SubscriptionExit
  <1>1. HubTypeOK'
    BY DEF HubTypeOK
  <1>2. RegisteredRooms'
    BY DEF HubTypeOK, RegisteredRooms
  <1>3. LiveSubscriptions'
    BY DEF HubTypeOK, LiveSubscriptions, RoomAt
  <1>4. Handlers'
    BY DEF HubTypeOK, Handlers, RoomAt
  <1>5. Members' /\ NoStrandedClient'
    BY DEF Members, NoStrandedClient, InRoom, RoomAt
  <1> QED BY <1>1, <1>2, <1>3, <1>4, <1>5

\* A crash takes every room object, client and handler of one pod and leaves
\* those of the other pods alone.
LEMMA PodCrashInv ==
    ASSUME HubInv, NEW p \in Pods, PodCrash(p)
    PROVE  HubInv'
  <1> USE DEF HubInv
  <1> DEFINE lost == {c \in Conns : PodOf[c] = p /\ pc[c] # "new"}
  <1>1. /\ rooms' = [k \in Keys |-> IF k[1] = p THEN NoRoom ELSE rooms[k]]
        /\ clients' = [c \in Conns |-> IF c \in lost THEN {} ELSE clients[c]]
        /\ sub' = [c \in Conns |-> IF c \in lost THEN "exited" ELSE sub[c]]
        /\ pc' = [c \in Conns |-> IF c \in lost THEN "returned" ELSE pc[c]]
        /\ send' = [c \in Conns |-> IF c \in lost THEN <<>> ELSE send[c]]
        /\ UNCHANGED <<cancelled, closed>>
    BY DEF PodCrash
  <1>2. \A c \in Conns : Key(c)[1] = PodOf[c]
    BY DEF Key
  <1>3. HubTypeOK'
    <2>1. send' \in [Conns -> Seq(Payloads)] /\ \A c \in Conns : Len(send'[c]) <= SendCap
      BY <1>1, HubAssumption DEF HubTypeOK
    <2> QED BY <1>1, <2>1 DEF HubTypeOK
  <1>4. RegisteredRooms'
    <2> SUFFICES ASSUME NEW k \in Keys, rooms'[k] # NoRoom
                 PROVE  /\ Key(rooms'[k]) = k
                        /\ clients'[rooms'[k]] # {}
                        /\ ~cancelled'[rooms'[k]]
                        /\ sub'[rooms'[k]] \in {"pending", "running"}
      BY DEF RegisteredRooms, Key
    <2>1. k[1] # p /\ rooms'[k] = rooms[k] /\ rooms[k] \in Conns
      BY <1>1 DEF HubTypeOK
    <2>2. rooms[k] \notin lost
      BY <1>2, <2>1 DEF RegisteredRooms
    <2> QED BY <1>1, <2>1, <2>2 DEF RegisteredRooms
  <1>5. Members'
    <2> SUFFICES ASSUME NEW o \in Conns, NEW c \in Conns, c \in clients'[o]
                 PROVE  /\ Key(c) = Key(o)
                        /\ RoomAt(o)' = o
                        /\ InRoom(c)'
                        /\ ~closed'[c]
      BY DEF Members, Key
    <2>1. o \notin lost /\ c \in clients[o]
      BY <1>1
    <2>2. Key(c) = Key(o) /\ rooms[Key(o)] = o /\ InRoom(c) /\ ~closed[c]
      BY <2>1 DEF Members, RoomAt
    <2>3. pc[o] # "new"
      BY <2>1 DEF Handlers
    <2>4. PodOf[o] # p /\ PodOf[c] # p
      BY <1>2, <2>1, <2>2, <2>3
    <2> QED BY <1>1, <1>2, <2>2, <2>4, KeyType DEF InRoom, RoomAt, Key
  <1>6. LiveSubscriptions'
    <2> SUFFICES ASSUME NEW o \in Conns, sub'[o] \in {"pending", "running"}, ~cancelled'[o]
                 PROVE  RoomAt(o)' = o
      BY DEF LiveSubscriptions
    <2>1. o \notin lost /\ sub[o] \in {"pending", "running"} /\ RoomAt(o) = o
      BY <1>1 DEF LiveSubscriptions
    <2>2. PodOf[o] # p
      BY <2>1 DEF Handlers
    <2> QED BY <1>1, <1>2, <2>1, <2>2, KeyType DEF RoomAt, Key
  <1>7. Handlers'
    <2>1. \A c \in Conns : pc'[c] = "subscribing" => RoomAt(c)' = c
      <3> SUFFICES ASSUME NEW c \in Conns, pc'[c] = "subscribing"
                   PROVE  RoomAt(c)' = c
        OBVIOUS
      <3>1. PodOf[c] # p /\ RoomAt(c) = c
        BY <1>1 DEF Handlers
      <3> QED BY <1>1, <1>2, <3>1, KeyType DEF RoomAt, Key
    <2>2. \A c \in Conns :
             /\ pc'[c] = "new" => sub'[c] = "none" /\ clients'[c] = {}
                                    /\ ~closed'[c] /\ ~cancelled'[c]
             /\ pc'[c] = "subscribing" <=> sub'[c] = "pending"
             /\ closed'[c] => pc'[c] \in {"closed", "returned"}
      BY <1>1 DEF HubTypeOK, Handlers
    <2> QED BY <2>1, <2>2 DEF Handlers
  <1>8. NoStrandedClient'
    <2> SUFFICES ASSUME NEW c \in Conns, InRoom(c)'
                 PROVE  RoomAt(c)' # NoRoom /\ c \in clients'[RoomAt(c)']
      BY DEF NoStrandedClient
    <2>1. PodOf[c] # p /\ InRoom(c)
      BY <1>1 DEF InRoom
    <2>2. RoomAt(c) \in Conns /\ c \in clients[RoomAt(c)] /\ RoomAt(c)' = RoomAt(c)
      BY <1>1, <1>2, <2>1, KeyType DEF NoStrandedClient, HubTypeOK, RoomAt, Key
    <2>3. Key(RoomAt(c)) = Key(c)
      BY <2>2 DEF Members
    <2>4. PodOf[RoomAt(c)] # p
      BY <1>2, <2>1, <2>2, <2>3
    <2> QED BY <1>1, <2>2, <2>4, HubAssumption
  <1> QED BY <1>3, <1>4, <1>5, <1>6, <1>7, <1>8

\* Every step of the hub preserves the inductive invariant.
LEMMA HubStepInv == HubInv /\ [HubNext]_hubVars => HubInv'
  <1> SUFFICES ASSUME HubInv, [HubNext]_hubVars PROVE HubInv'
    OBVIOUS
  <1>1. ASSUME NEW c \in Conns,
               \/ JoinExisting(c) \/ JoinNew(c) \/ Subscribe(c)
               \/ Leave(c) \/ CloseSend(c) \/ Return(c)
               \/ WriterReceive(c) \/ SubscriptionExit(c)
        PROVE  HubInv'
    BY <1>1, JoinExistingInv, JoinNewInv, SubscribeInv, LeaveInv, CloseSendInv,
       ReturnInv, WriterReceiveInv, SubscriptionExitInv
  <1>2. ASSUME NEW o \in Conns, NEW m \in Payloads, Deliver(o, m)
        PROVE  HubInv'
    BY <1>2, DeliverInv
  <1>3. ASSUME NEW p \in Pods, PodCrash(p)
        PROVE  HubInv'
    BY <1>3, PodCrashInv
  <1>4. CASE UNCHANGED hubVars
    BY <1>4 DEF hubVars, HubInv, HubTypeOK, RegisteredRooms, Members, LiveSubscriptions,
       Handlers, NoStrandedClient, InRoom, RoomAt
  <1> QED BY <1>1, <1>2, <1>3, <1>4 DEF HubNext
-----------------------------------------------------------------------------
\* The inductive invariant, and with it type correctness: buffers within
\* capacity, and no client stranded in a room that was dropped.
THEOREM HubInvariant == HubSpec => []HubInv
  BY HubInitInv, HubStepInv, PTL DEF HubSpec

\* Every connected client is in the room object registered under its name.
THEOREM HubNoStrandedClient == HubSpec => []NoStrandedClient
  BY HubInvariant, PTL DEF HubInv

\* No broadcast ever sends on a closed channel.
THEOREM HubNoSendOnClosedChannel == HubSpec => []NoSendOnClosedChannel
  <1>1. HubInv => NoSendOnClosedChannel
    BY DEF HubInv, Members, NoSendOnClosedChannel
  <1> QED BY <1>1, HubInvariant, PTL

\* A room object that is not registered is empty, so that its subscription
\* goroutine, if it still runs, delivers to nobody.
THEOREM HubDetachedRoomIsEmpty == HubSpec => []DetachedRoomIsEmpty
  <1>1. HubInv => DetachedRoomIsEmpty
    BY DEF HubInv, HubTypeOK, Members, DetachedRoomIsEmpty
  <1> QED BY <1>1, HubInvariant, PTL

\* A pod holds one live subscription for each occupied room and no other.
THEOREM HubOneSubscriptionPerRoom == HubSpec => []OneSubscriptionPerRoom
  <1>1. HubInv => OneSubscriptionPerRoom
    <2> SUFFICES ASSUME HubInv, NEW k \in Keys
                 PROVE  /\ {o \in Conns : Key(o) = k /\ sub[o] \in {"pending", "running"}
                                             /\ ~cancelled[o]} = {rooms[k]} \ {NoRoom}
                        /\ rooms[k] # NoRoom => \E c \in Conns : Key(c) = k /\ InRoom(c)
      BY DEF OneSubscriptionPerRoom
    <2>1. ASSUME NEW o \in Conns, Key(o) = k, sub[o] \in {"pending", "running"}, ~cancelled[o]
          PROVE  o \in {rooms[k]} \ {NoRoom}
      BY <2>1, HubAssumption DEF HubInv, LiveSubscriptions, RoomAt
    <2>2. rooms[k] # NoRoom =>
            /\ rooms[k] \in Conns /\ Key(rooms[k]) = k
            /\ sub[rooms[k]] \in {"pending", "running"} /\ ~cancelled[rooms[k]]
            /\ clients[rooms[k]] # {}
      BY DEF HubInv, HubTypeOK, RegisteredRooms
    <2>3. ASSUME rooms[k] # NoRoom
          PROVE  \E c \in Conns : Key(c) = k /\ InRoom(c)
      <3>1. PICK c \in Conns : c \in clients[rooms[k]]
        BY <2>2, <2>3 DEF HubInv, HubTypeOK
      <3> QED BY <2>2, <2>3, <3>1 DEF HubInv, Members
    <2> QED BY <2>1, <2>2, <2>3
  <1> QED BY <1>1, HubInvariant, PTL
=============================================================================
