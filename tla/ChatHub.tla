------------------------------- MODULE ChatHub -------------------------------
(***************************************************************************)
(* The hub of the chat service: which WebSocket clients of a pod are in    *)
(* which room, the Redis subscription each room holds, and the buffered    *)
(* channel of every client (services/chat/hub.go, broker.go, and the calls *)
(* services/chat/handler.go makes on them).                                *)
(*                                                                         *)
(* A `*room` is a pointer: the code relies on two rooms of one name being  *)
(* different objects.  Every connection joins once, so a room object is    *)
(* named here by the connection whose join created it.                     *)
(***************************************************************************)
EXTENDS Naturals, Sequences

CONSTANTS
    Pods,       \* the replicas of the chat service
    Conns,      \* WebSocket connections, each of which joins once
    Rooms,      \* room names
    PodOf,      \* the pod the load balancer picks for a connection
    RoomOf,     \* the ?room= of a connection
    Payloads,   \* what arrives on a Redis channel
    SendCap,    \* the capacity of client.send (16 in handler.go)
    NoRoom      \* the absence of an entry in Hub.rooms

ASSUME HubAssumption ==
    /\ PodOf \in [Conns -> Pods]
    /\ RoomOf \in [Conns -> Rooms]
    /\ SendCap \in Nat \ {0}
    /\ NoRoom \notin Conns

VARIABLES
    rooms,      \* Hub.rooms of each pod: <<pod, name>> -> room object
    clients,    \* room.clients of each room object
    cancelled,  \* whether room.cancel of the object was called
    sub,        \* the subscription of each room object
    pc,         \* where the handler of each connection is
    send,       \* what client.send holds
    closed      \* whether client.send is closed

hubVars == <<rooms, clients, cancelled, sub, pc, send, closed>>

Key(c) == <<PodOf[c], RoomOf[c]>>
Keys == Pods \X Rooms

\* The object registered under the name of c's room, as leave looks it up.
RoomAt(c) == rooms[Key(c)]

HubTypeOK ==
    /\ rooms \in [Keys -> Conns \cup {NoRoom}]
    /\ clients \in [Conns -> SUBSET Conns]
    /\ cancelled \in [Conns -> BOOLEAN]
    /\ sub \in [Conns -> {"none", "pending", "running", "exited"}]
    /\ pc \in [Conns -> {"new", "subscribing", "joined", "left", "closed", "returned"}]
    /\ send \in [Conns -> Seq(Payloads)]
    /\ \A c \in Conns : Len(send[c]) <= SendCap
    /\ closed \in [Conns -> BOOLEAN]

HubInit ==
    /\ rooms = [k \in Keys |-> NoRoom]
    /\ clients = [c \in Conns |-> {}]
    /\ cancelled = [c \in Conns |-> FALSE]
    /\ sub = [c \in Conns |-> "none"]
    /\ pc = [c \in Conns |-> "new"]
    /\ send = [c \in Conns |-> <<>>]
    /\ closed = [c \in Conns |-> FALSE]
-----------------------------------------------------------------------------
(* join *)

\* The name has a room: the client is added to it and join returns.
JoinExisting(c) ==
    /\ pc[c] = "new"
    /\ RoomAt(c) # NoRoom
    /\ clients' = [clients EXCEPT ![RoomAt(c)] = @ \cup {c}]
    /\ pc' = [pc EXCEPT ![c] = "joined"]
    /\ UNCHANGED <<rooms, cancelled, sub, send, closed>>

\* The body of the other branch, up to the Unlock: the room is visible to
\* other handlers from here on, and it has no subscription yet.
CreateRoom(c) ==
    /\ rooms' = [rooms EXCEPT ![Key(c)] = c]
    /\ clients' = [clients EXCEPT ![c] = {c}]
    /\ sub' = [sub EXCEPT ![c] = "pending"]
    /\ pc' = [pc EXCEPT ![c] = "subscribing"]
    /\ UNCHANGED <<cancelled, send, closed>>

\* Variant: the lookup and the insertion are not one critical section.
JoinNewUnchecked(c) ==
    /\ pc[c] = "new"
    /\ CreateRoom(c)

JoinNew(c) ==
    /\ pc[c] = "new"
    /\ RoomAt(c) = NoRoom
    /\ CreateRoom(c)

\* broker.subscribe, after the Unlock: it starts the listening goroutine.
Subscribe(c) ==
    /\ pc[c] = "subscribing"
    /\ sub' = [sub EXCEPT ![c] = "running"]
    /\ pc' = [pc EXCEPT ![c] = "joined"]
    /\ UNCHANGED <<rooms, clients, cancelled, send, closed>>
-----------------------------------------------------------------------------
(* leave, and what the handler does after it *)

\* Variant: the first client to leave takes the room down.
LastOutAlways(c) == TRUE

\* len(r.clients) == 0 once c is deleted from it.
LastOut(c) == clients[RoomAt(c)] \ {c} = {}

\* Variant: the room is dropped from the map without cancelling its context.
CloseRoomUncancelled(o) ==
    /\ rooms' = [rooms EXCEPT ![Key(o)] = NoRoom]
    /\ UNCHANGED cancelled

CloseRoom(o) ==
    /\ rooms' = [rooms EXCEPT ![Key(o)] = NoRoom]
    /\ cancelled' = [cancelled EXCEPT ![o] = TRUE]

Leave(c) ==
    /\ pc[c] = "joined"
    /\ pc' = [pc EXCEPT ![c] = "left"]
    /\ UNCHANGED <<sub, send, closed>>
    /\ \/ /\ RoomAt(c) = NoRoom
          /\ UNCHANGED <<rooms, clients, cancelled>>
       \/ /\ RoomAt(c) # NoRoom
          /\ clients' = [clients EXCEPT ![RoomAt(c)] = @ \ {c}]
          /\ IF LastOut(c) THEN CloseRoom(RoomAt(c)) ELSE UNCHANGED <<rooms, cancelled>>

\* Variant: the channel is closed before the client has left the hub.
CloseSendFirst(c) ==
    /\ pc[c] = "joined"
    /\ closed' = [closed EXCEPT ![c] = TRUE]
    /\ pc' = [pc EXCEPT ![c] = "closed"]
    /\ UNCHANGED <<rooms, clients, cancelled, sub, send>>

CloseSend(c) ==
    /\ pc[c] = "left"
    /\ closed' = [closed EXCEPT ![c] = TRUE]
    /\ pc' = [pc EXCEPT ![c] = "closed"]
    /\ UNCHANGED <<rooms, clients, cancelled, sub, send>>

\* The handler returns; ChatSystem says when (the writer goroutine is done).
Return(c) ==
    /\ pc[c] = "closed"
    /\ pc' = [pc EXCEPT ![c] = "returned"]
    /\ UNCHANGED <<rooms, clients, cancelled, sub, send, closed>>
-----------------------------------------------------------------------------
(* The goroutines *)

\* Variant: a send that ignores the capacity of the channel.
OfferUnbounded(q, m) == Append(q, m)

\* Variant: the last place of the buffer is never used.
OfferOffByOne(q, m) == IF Len(q) + 1 < SendCap THEN Append(q, m) ELSE q

\* The select of broadcastLocalRoom: a full buffer drops the message.
Offer(q, m) == IF Len(q) < SendCap THEN Append(q, m) ELSE q

\* broadcastLocalRoom, under the mutex, on a room object and not on a name.
BroadcastLocalRoom(o, m) ==
    send' = [c \in Conns |-> IF c \in clients[o] THEN Offer(send[c], m) ELSE send[c]]

\* Variant: the goroutine broadcasts to the room that has its name.
DeliverByName(o, m) ==
    /\ sub[o] = "running"
    /\ RoomAt(o) # NoRoom
    /\ BroadcastLocalRoom(RoomAt(o), m)
    /\ UNCHANGED <<rooms, clients, cancelled, sub, pc, closed>>

\* The listening goroutine of o receives m.  When its context is cancelled
\* too, select may still choose the message.
Deliver(o, m) ==
    /\ sub[o] = "running"
    /\ BroadcastLocalRoom(o, m)
    /\ UNCHANGED <<rooms, clients, cancelled, sub, pc, closed>>

\* Variant: the goroutine waits for its channel to be closed, which nobody does.
SubscriptionNeverExits(o) == FALSE /\ UNCHANGED hubVars

SubscriptionExit(o) ==
    /\ sub[o] = "running"
    /\ cancelled[o]
    /\ sub' = [sub EXCEPT ![o] = "exited"]
    /\ UNCHANGED <<rooms, clients, cancelled, pc, send, closed>>

\* The writer goroutine takes the next payload: also from a closed channel,
\* which it drains.
WriterReceive(c) ==
    /\ send[c] # <<>>
    /\ send' = [send EXCEPT ![c] = Tail(@)]
    /\ UNCHANGED <<rooms, clients, cancelled, sub, pc, closed>>

\* A pod stops: everything the service keeps is in memory.  Connections that
\* had not reached the pod reach its replacement.
PodCrash(p) ==
    LET lost == {c \in Conns : PodOf[c] = p /\ pc[c] # "new"}
    IN  /\ lost # {}
        /\ rooms' = [k \in Keys |-> IF k[1] = p THEN NoRoom ELSE rooms[k]]
        /\ clients' = [c \in Conns |-> IF c \in lost THEN {} ELSE clients[c]]
        /\ sub' = [c \in Conns |-> IF c \in lost THEN "exited" ELSE sub[c]]
        /\ pc' = [c \in Conns |-> IF c \in lost THEN "returned" ELSE pc[c]]
        /\ send' = [c \in Conns |-> IF c \in lost THEN <<>> ELSE send[c]]
        /\ UNCHANGED <<cancelled, closed>>

HubNext ==
    \/ \E c \in Conns :
          \/ JoinExisting(c) \/ JoinNew(c) \/ Subscribe(c)
          \/ Leave(c) \/ CloseSend(c) \/ Return(c)
          \/ WriterReceive(c) \/ SubscriptionExit(c)
    \/ \E o \in Conns, m \in Payloads : Deliver(o, m)
    \/ \E p \in Pods : PodCrash(p)

\* Fairness: Subscribe is the next statement of a running goroutine, and a Go
\* select with a ready ctx.Done case picks it after finitely many others.
HubFairness ==
    \A c \in Conns : WF_hubVars(Subscribe(c)) /\ WF_hubVars(SubscriptionExit(c))

HubSpec == HubInit /\ [][HubNext]_hubVars
FairHubSpec == HubSpec /\ HubFairness
-----------------------------------------------------------------------------
(* Properties *)

InRoom(c) == pc[c] \in {"subscribing", "joined"}

\* A closed client.send belongs to no room object, registered or not, so no
\* broadcast can send on a closed channel, which would panic the whole pod
\* (the argument of handler.go:97-99, hub.go:101-110).
NoSendOnClosedChannel ==
    \A c, o \in Conns : closed[c] => c \notin clients[o]

\* A connection whose handler runs is in the room object registered under its
\* name: no interleaving of joins and leaves strands it in one that was
\* dropped (hub.go:47-81).
NoStrandedClient ==
    \A c \in Conns : InRoom(c) => RoomAt(c) # NoRoom /\ c \in clients[RoomAt(c)]

\* An object that is no longer registered is empty: a stale subscription
\* goroutine reaches nobody (hub.go:97-100).
DetachedRoomIsEmpty ==
    \A o \in Conns : RoomAt(o) # o => clients[o] = {}

\* Each pod has one live subscription for each room some local client is in,
\* and none for the others (hub.go:28-31).
OneSubscriptionPerRoom ==
    \A k \in Keys :
        /\ {o \in Conns : Key(o) = k /\ sub[o] \in {"pending", "running"} /\ ~cancelled[o]}
             = {rooms[k]} \ {NoRoom}
        /\ rooms[k] # NoRoom => \E c \in Conns : Key(c) = k /\ InRoom(c)

\* The subscription of a room everybody left ends: the goroutine and the Redis
\* connection are not leaked (hub.go:77-80, broker.go:59-73).
CancelledSubscriptionEnds ==
    \A o \in Conns : cancelled[o] ~> sub[o] = "exited"
-----------------------------------------------------------------------------
(* The inductive invariant behind the safety properties *)

\* A registered room is occupied, not cancelled, and subscribed or about to be.
RegisteredRooms ==
    \A k \in Keys : rooms[k] # NoRoom =>
        /\ Key(rooms[k]) = k
        /\ clients[rooms[k]] # {}
        /\ ~cancelled[rooms[k]]
        /\ sub[rooms[k]] \in {"pending", "running"}

\* Every member of a room object is a present client of the registered room.
Members ==
    \A o, c \in Conns : c \in clients[o] =>
        /\ Key(c) = Key(o)
        /\ RoomAt(o) = o
        /\ InRoom(c)
        /\ ~closed[c]

\* A live subscription belongs to a registered room.
LiveSubscriptions ==
    \A o \in Conns : sub[o] \in {"pending", "running"} /\ ~cancelled[o] => RoomAt(o) = o

\* What the place of the handler says about its client and its room object.
Handlers ==
    \A c \in Conns :
        /\ pc[c] = "new" => sub[c] = "none" /\ clients[c] = {} /\ ~closed[c] /\ ~cancelled[c]
        /\ pc[c] = "subscribing" <=> sub[c] = "pending"
        /\ pc[c] = "subscribing" => RoomAt(c) = c
        /\ closed[c] => pc[c] \in {"closed", "returned"}

HubInv ==
    /\ HubTypeOK
    /\ RegisteredRooms
    /\ Members
    /\ LiveSubscriptions
    /\ Handlers
    /\ NoStrandedClient
=============================================================================
