----------------------------- MODULE ChatSystem -----------------------------
(***************************************************************************)
(* The chat service end to end: the WebSocket handler of each connection   *)
(* (services/chat/handler.go) with its read loop, its writer goroutine and *)
(* its pinger, the hubs of all pods (ChatHub), and the Redis shards that   *)
(* carry a room's messages between pods (broker.go).                       *)
(*                                                                         *)
(* A payload is its position in the sequence of PUBLISH commands that      *)
(* Redis executed for the room, so that order and repetition show.         *)
(***************************************************************************)
EXTENDS ChatHub, SequencesExt, FiniteSets

CONSTANTS
    MaxSends,    \* bound: messages each connection sends, [Conns -> Nat]
    Leavers,     \* the connections whose user may close the tab
    FaultKinds,  \* the faults that may happen
    MaxFaults,   \* bound: how many of them in a behaviour
    HashOf,      \* FNV-1a of a room name, a 32-bit number
    NumShards    \* the length of REDIS_ADDR's list, the same on every pod

ASSUME SystemAssumption ==
    /\ MaxSends \in [Conns -> Nat]
    /\ Leavers \subseteq Conns
    /\ FaultKinds \subseteq
         {"peerDies", "peerStalls", "publishFails", "publishTimesOut", "redisLost", "slowRedis",
          "crash"}
    /\ MaxFaults \in Nat
    /\ HashOf \in [Rooms -> Nat]
    /\ NumShards \in Nat \ {0}
    /\ Payloads \subseteq Nat \ {0}

VARIABLES
    log,        \* what Redis executed for each room: who sent it, its number for them
    listening,  \* the shards whose channel each room object's pubsub is subscribed to
    inbox,      \* what those pushed and the listening goroutine has not received
    strays,     \* PUBLISH commands given up on that Redis may still execute
    reader,     \* the read loop of each handler
    sent,       \* how many messages each handler has read
    writer,     \* the writer goroutine of each handler
    outgoing,   \* the payload in its conn.Write, 0 when it is in none
    got,        \* what the user of each connection received
    peer,       \* the user's end: here, left (closed the connection), dead (silent)
    shut,       \* whether the pod's end of the WebSocket is closed
    ctxDone,    \* whether the handler's ctx is cancelled; the pinger ends with it
    faults      \* how many faults happened

wireVars == <<log, listening, inbox, strays>>
handlerVars == <<reader, sent, writer, outgoing, got, peer, shut, ctxDone>>
sysVars == <<hubVars, wireVars, handlerVars, faults>>

SysInit ==
    /\ HubInit
    /\ log = [r \in Rooms |-> <<>>]
    /\ listening = [o \in Conns |-> {}]
    /\ inbox = [o \in Conns |-> <<>>]
    /\ strays = {}
    /\ reader = [c \in Conns |-> "none"]
    /\ sent = [c \in Conns |-> 0]
    /\ writer = [c \in Conns |-> "none"]
    /\ outgoing = [c \in Conns |-> 0]
    /\ got = [c \in Conns |-> <<>>]
    /\ peer = [c \in Conns |-> "here"]
    /\ shut = [c \in Conns |-> FALSE]
    /\ ctxDone = [c \in Conns |-> FALSE]
    /\ faults = 0

Fault(kind) ==
    /\ kind \in FaultKinds
    /\ faults < MaxFaults
    /\ faults' = faults + 1
-----------------------------------------------------------------------------
(* Redis *)

ShardIndex(hash, n) == IF n <= 1 THEN 0 ELSE hash % n

ShardFor(r) == ShardIndex(HashOf[r], NumShards)

\* The message number n of c is executed: it gets the next position of its
\* room, and each subscription to the room's channel on that shard gets it.
Execute(c, n) ==
    LET r == RoomOf[c]
        Reached(o) == RoomOf[o] = r /\ ShardFor(r) \in listening[o]
    IN  /\ log' = [log EXCEPT ![r] = Append(@, [from |-> c, num |-> n])]
        /\ inbox' = [o \in Conns |->
                       IF Reached(o) THEN Append(inbox[o], Len(log[r]) + 1) ELSE inbox[o]]

\* Redis executes the SUBSCRIBE of o, the first or one after a reconnection.
RedisSubscribes(o) ==
    /\ sub[o] = "running"
    /\ listening[o] = {}
    /\ listening' = [listening EXCEPT ![o] = {ShardFor(RoomOf[o])}]
    /\ UNCHANGED <<hubVars, log, inbox, strays, handlerVars, faults>>

\* The pubsub connection of o breaks: what was not read from it is lost, and
\* so is what is published until go-redis has subscribed again.
RedisLost(o) ==
    /\ Fault("redisLost")
    /\ listening[o] # {}
    /\ listening' = [listening EXCEPT ![o] = {}]
    /\ \E n \in 0..Len(inbox[o]) : inbox' = [inbox EXCEPT ![o] = SubSeq(@, 1, n)]
    /\ UNCHANGED <<hubVars, log, strays, handlerVars>>

\* A command whose answer never came is executed after all.
StrayExecuted(m) ==
    /\ m \in strays
    /\ strays' = strays \ {m}
    /\ Execute(m.from, m.num)
    /\ UNCHANGED <<hubVars, listening, handlerVars, faults>>
-----------------------------------------------------------------------------
(* The handler: join, read loop, leave *)

StartLoops(c) ==
    /\ reader' = [reader EXCEPT ![c] = "reading"]
    /\ writer' = [writer EXCEPT ![c] = "running"]
    /\ UNCHANGED <<wireVars, sent, outgoing, got, peer, shut, ctxDone, faults>>

SysJoinExisting(c) == JoinExisting(c) /\ StartLoops(c)

SysJoinNew(c) == JoinNew(c) /\ UNCHANGED <<wireVars, handlerVars, faults>>

SysSubscribe(c) == Subscribe(c) /\ StartLoops(c)

\* conn.Read returns a message: the loop publishes it before it reads again.
ReadMessage(c) ==
    /\ reader[c] = "reading"
    /\ peer[c] = "here" /\ ~shut[c]
    /\ sent[c] < MaxSends[c]
    /\ sent' = [sent EXCEPT ![c] = @ + 1]
    /\ reader' = [reader EXCEPT ![c] = "publishing"]
    /\ UNCHANGED <<hubVars, wireVars, writer, outgoing, got, peer, shut, ctxDone, faults>>

BackToReading(c) ==
    /\ reader[c] = "publishing"
    /\ reader' = [reader EXCEPT ![c] = "reading"]
    /\ UNCHANGED <<hubVars, sent, writer, outgoing, got, peer, shut, ctxDone>>

\* Variant: the answer is taken for an error and the command is sent again.
PublishRepeated(c) ==
    /\ reader[c] = "publishing"
    /\ Execute(c, sent[c])
    /\ UNCHANGED <<hubVars, listening, strays, handlerVars, faults>>

\* Variant: the message is also broadcast to the clients of the pod directly.
PublishAndBroadcast(c) ==
    /\ reader[c] = "publishing" /\ pc[c] = "joined"
    /\ reader' = [reader EXCEPT ![c] = "reading"]
    /\ Execute(c, sent[c])
    /\ BroadcastLocalRoom(RoomAt(c), Len(log[RoomOf[c]]) + 1)
    /\ UNCHANGED <<rooms, clients, cancelled, sub, pc, closed, listening, strays, sent, writer,
                   outgoing, got, peer, shut, ctxDone, faults>>

PublishExecuted(c) ==
    /\ BackToReading(c)
    /\ Execute(c, sent[c])
    /\ UNCHANGED <<listening, strays, faults>>

\* The error is logged and the message is gone.
PublishFails(c) ==
    /\ Fault("publishFails")
    /\ BackToReading(c)
    /\ UNCHANGED wireVars

\* The PUBLISH that c waits for; each attempt that a fault ends is one more.
Attempt(c) == [from |-> c, num |-> sent[c], try |-> faults]

\* No answer in time: the command may be executed later.  go-redis retries
\* a PUBLISH like any command, unless its context is done, or gives up.
PublishTimesOut(c) ==
    /\ Fault("publishTimesOut")
    /\ reader[c] = "publishing"
    /\ strays' = strays \cup {Attempt(c)}
    /\ UNCHANGED <<log, listening, inbox>>
    /\ \/ BackToReading(c)
       \/ ~ctxDone[c] /\ UNCHANGED <<hubVars, handlerVars>>

\* Variant: each Read has a deadline of its own.
ReadDeadline(c) == reader[c] = "reading"

\* conn.Read has no deadline: it ends with ctx, or with the connection.
ReadEnds(c) ==
    /\ reader[c] = "reading"
    /\ ctxDone[c] \/ peer[c] = "left" \/ shut[c]

\* A Read that ends with its context closes the connection.
ReadFails(c) ==
    /\ ReadEnds(c)
    /\ reader' = [reader EXCEPT ![c] = "stopped"]
    /\ shut' = [shut EXCEPT ![c] = TRUE]
    /\ UNCHANGED <<hubVars, wireVars, sent, writer, outgoing, got, peer, ctxDone, faults>>

SysLeave(c) ==
    /\ reader[c] = "stopped"
    /\ Leave(c)
    /\ UNCHANGED <<wireVars, handlerVars, faults>>

SysCloseSend(c) == CloseSend(c) /\ UNCHANGED <<wireVars, handlerVars, faults>>

\* <-writeDone, then the deferred stop and CloseNow.
SysReturn(c) ==
    /\ writer[c] = "exited"
    /\ Return(c)
    /\ ctxDone' = [ctxDone EXCEPT ![c] = TRUE]
    /\ shut' = [shut EXCEPT ![c] = TRUE]
    /\ UNCHANGED <<wireVars, reader, sent, writer, outgoing, got, peer, faults>>
-----------------------------------------------------------------------------
(* The writer goroutine and the pinger *)

WriterTakes(c) ==
    /\ writer[c] = "running"
    /\ outgoing[c] = 0
    /\ WriterReceive(c)
    /\ outgoing' = [outgoing EXCEPT ![c] = Head(send[c])]
    /\ UNCHANGED <<wireVars, reader, sent, writer, got, peer, shut, ctxDone, faults>>

\* A write to a user's end that is gone or silent succeeds too, as long as the
\* kernel buffers it.
WriteSucceeds(c) ==
    /\ writer[c] = "running"
    /\ outgoing[c] # 0
    /\ ~shut[c]
    /\ got' = IF peer[c] = "here" THEN [got EXCEPT ![c] = Append(@, outgoing[c])] ELSE got
    /\ outgoing' = [outgoing EXCEPT ![c] = 0]
    /\ UNCHANGED <<hubVars, wireVars, reader, sent, writer, peer, shut, ctxDone, faults>>

\* The 5 s of writeCtx run out, also on an end that is there but too slow, or
\* the connection is closed: the goroutine returns and leaves what its channel
\* holds.  A Write that fails closes.
WriteFails(c) ==
    /\ writer[c] = "running"
    /\ outgoing[c] # 0
    /\ \/ (peer[c] # "here" \/ shut[c]) /\ UNCHANGED faults
       \/ Fault("peerStalls")
    /\ writer' = [writer EXCEPT ![c] = "exited"]
    /\ outgoing' = [outgoing EXCEPT ![c] = 0]
    /\ shut' = [shut EXCEPT ![c] = TRUE]
    /\ UNCHANGED <<hubVars, wireVars, reader, sent, got, peer, ctxDone>>

\* The range over a closed and drained channel ends.
WriterDone(c) ==
    /\ writer[c] = "running"
    /\ outgoing[c] = 0 /\ send[c] = <<>> /\ closed[c]
    /\ writer' = [writer EXCEPT ![c] = "exited"]
    /\ UNCHANGED <<hubVars, wireVars, reader, sent, outgoing, got, peer, shut, ctxDone, faults>>

\* A ping is answered only if the user's end is there and a Read runs to take
\* the pong: a publish that outlasts the 5 s of pingCtx fails it too.
Unanswered(c) ==
    \/ peer[c] # "here" \/ shut[c]
    \/ "slowRedis" \in FaultKinds /\ reader[c] = "publishing"

\* Variant: the pinger ends without calling stop.
PingFailsQuietly(c) == FALSE /\ UNCHANGED sysVars

\* The pinger calls stop and ends.  (A ping that succeeds changes nothing; once
\* the read loop has ended nothing waits for ctx.)
PingFails(c) ==
    /\ reader[c] \in {"reading", "publishing"}
    /\ ~ctxDone[c]
    /\ Unanswered(c)
    /\ ctxDone' = [ctxDone EXCEPT ![c] = TRUE]
    /\ UNCHANGED <<hubVars, wireVars, reader, sent, writer, outgoing, got, peer, shut, faults>>

PeerLeaves(c) ==
    /\ c \in Leavers
    /\ InRoom(c) /\ peer[c] = "here"
    /\ peer' = [peer EXCEPT ![c] = "left"]
    /\ UNCHANGED <<hubVars, wireVars, reader, sent, writer, outgoing, got, shut, ctxDone, faults>>

PeerDies(c) ==
    /\ Fault("peerDies")
    /\ InRoom(c) /\ peer[c] = "here"
    /\ peer' = [peer EXCEPT ![c] = "dead"]
    /\ UNCHANGED <<hubVars, wireVars, reader, sent, writer, outgoing, got, shut, ctxDone>>
-----------------------------------------------------------------------------
(* The listening goroutine of a room object, and the end of a pod *)

SysDeliver(o) ==
    /\ inbox[o] # <<>>
    /\ Deliver(o, Head(inbox[o]))
    /\ inbox' = [inbox EXCEPT ![o] = Tail(@)]
    /\ UNCHANGED <<log, listening, strays, handlerVars, faults>>

\* The deferred pubsub.Close ends the Redis side.
SysSubscriptionExit(o) ==
    /\ SubscriptionExit(o)
    /\ listening' = [listening EXCEPT ![o] = {}]
    /\ inbox' = [inbox EXCEPT ![o] = <<>>]
    /\ UNCHANGED <<log, strays, handlerVars, faults>>

\* A PUBLISH that was on its way may be executed after the pod is gone.
Crash(p) ==
    LET on(c) == PodOf[c] = p /\ pc[c] # "new"
        Gone(f, v) == [c \in Conns |-> IF on(c) THEN v ELSE f[c]]
    IN  /\ Fault("crash")
        /\ PodCrash(p)
        /\ strays' = strays \cup
                       {Attempt(c) : c \in {d \in Conns : on(d) /\ reader[d] = "publishing"}}
        /\ listening' = Gone(listening, {})
        /\ inbox' = Gone(inbox, <<>>)
        /\ reader' = Gone(reader, "stopped")
        /\ writer' = Gone(writer, "exited")
        /\ outgoing' = Gone(outgoing, 0)
        /\ peer' = Gone(peer, "left")
        /\ shut' = Gone(shut, TRUE)
        /\ ctxDone' = Gone(ctxDone, TRUE)
        /\ UNCHANGED <<log, sent, got>>
-----------------------------------------------------------------------------
Handler(c) ==
    \/ SysJoinExisting(c) \/ SysJoinNew(c) \/ SysSubscribe(c)
    \/ ReadMessage(c) \/ PublishExecuted(c) \/ PublishFails(c) \/ PublishTimesOut(c)
    \/ ReadFails(c) \/ SysLeave(c) \/ SysCloseSend(c) \/ SysReturn(c)
    \/ WriterTakes(c) \/ WriteSucceeds(c) \/ WriteFails(c) \/ WriterDone(c)
    \/ PingFails(c) \/ PeerLeaves(c) \/ PeerDies(c)

Subscription(o) ==
    RedisSubscribes(o) \/ RedisLost(o) \/ SysDeliver(o) \/ SysSubscriptionExit(o)

SysNext ==
    \/ \E c \in Conns : Handler(c) \/ Subscription(c)
    \/ \E m \in strays : StrayExecuted(m)
    \/ \E p \in Pods : Crash(p)

SysSpec == SysInit /\ [][SysNext]_sysVars

\* Every goroutine that can go on does: publishing ends (executed, refused or
\* timed out), a Write ends within its 5 s, an unanswered ping fails within
\* its 5 s, select picks a ready Done case, and Redis executes what it is sent.
SysFairness ==
    \A c \in Conns :
        /\ WF_sysVars(SysSubscribe(c))
        /\ WF_sysVars(PublishExecuted(c))
        /\ WF_sysVars(ReadFails(c)) /\ WF_sysVars(SysLeave(c))
        /\ WF_sysVars(SysCloseSend(c)) /\ WF_sysVars(SysReturn(c))
        /\ WF_sysVars(WriterTakes(c)) /\ WF_sysVars(WriterDone(c))
        /\ WF_sysVars(WriteSucceeds(c) \/ WriteFails(c))
        /\ WF_sysVars(PingFails(c))
        /\ WF_sysVars(RedisSubscribes(c))
        /\ WF_sysVars(SysDeliver(c)) /\ WF_sysVars(SysSubscriptionExit(c))

FairSysSpec == SysSpec /\ SysFairness
-----------------------------------------------------------------------------
(* Properties *)

SysTypeOK ==
    /\ HubTypeOK
    /\ \A r \in Rooms : \A i \in 1..Len(log[r]) :
          log[r][i].from \in Conns /\ log[r][i].num \in 1..MaxSends[log[r][i].from]
    /\ listening \in [Conns -> SUBSET (0..(NumShards - 1))]
    /\ inbox \in [Conns -> Seq(Payloads)]
    /\ strays \subseteq [from : Conns, num : Nat, try : Nat]
    /\ reader \in [Conns -> {"none", "reading", "publishing", "stopped"}]
    /\ \A c \in Conns : sent[c] \in 0..MaxSends[c]
    /\ writer \in [Conns -> {"none", "running", "exited"}]
    /\ outgoing \in [Conns -> Payloads \cup {0}]
    /\ got \in [Conns -> Seq(Payloads)]
    /\ peer \in [Conns -> {"here", "left", "dead"}]
    /\ shut \in [Conns -> BOOLEAN]
    /\ ctxDone \in [Conns -> BOOLEAN]
    /\ faults \in 0..MaxFaults

Consecutive(s) == \A i \in 1..(Len(s) - 1) : s[i + 1] = s[i] + 1

\* What c received and what is on its way to it on its pod.
Stream(c) ==
    got[c] \o (IF outgoing[c] = 0 THEN <<>> ELSE <<outgoing[c]>>) \o send[c]
           \o inbox[RoomAt(c)]

\* While no Redis connection breaks and no buffer overflows, a connected user
\* gets, from the first message on, every message of the room, up to the last
\* one Redis executed: also one who joined while the room was being
\* subscribed, or after an earlier room of that name was dropped.
NoGaps ==
    \A c \in Conns : (pc[c] = "joined" /\ peer[c] = "here" /\ ~shut[c]) =>
        /\ Consecutive(Stream(c))
        /\ (listening[RoomAt(c)] # {} /\ Stream(c) # <<>>)
              => Last(Stream(c)) = Len(log[RoomOf[c]])

\* As long as no publish times out, the room's sequence holds the messages of
\* one sender in the order they were typed, and none twice.
SenderOrder ==
    strays = {} /\ faults = 0 =>
        \A r \in Rooms : \A i, j \in 1..Len(log[r]) :
            i < j /\ log[r][i].from = log[r][j].from => log[r][i].num < log[r][j].num

\* A user who only listens and whose end is there and keeps up is never
\* disconnected by the service: the read loop has no deadline and the ping has
\* its answer (handler.go:76-81: "idle-but-healthy clients").
IdleClientStaysConnected ==
    "peerStalls" \notin FaultKinds => \A c \in Conns : peer[c] = "here" /\ sent[c] = 0 =>
        ~ctxDone[c] /\ ~shut[c] /\ pc[c] \in {"new", "subscribing", "joined"}

\* The users see one sequence per room.
Room == INSTANCE ChatRoom WITH
    log <- [r \in Rooms |-> [i \in 1..Len(log[r]) |-> log[r][i].from]]

ImplementsChatRoom == Room!RoomSpec

\* A connection that ended on either side, or whose user fell silent, is let
\* go: the handler and its goroutines return, and the client leaves its room.
HandlerReturns ==
    \A c \in Conns :
        ((peer[c] # "here" \/ shut[c]) /\ pc[c] # "new") ~> pc[c] = "returned"

\* The next payload for c's room on its pod, and a place for it in c's channel.
NextFits(c) == inbox[RoomAt(c)] # <<>> /\ Len(send[c]) < SendCap

\* A full channel is the only way for a user who stays to miss what reached the
\* pod (hub.go:83-86): a message that finds a place when its turn comes is
\* handed to that user, though others are dropped before and after it.
InboxReachesUsers ==
    \A c \in Conns, m \in Payloads :
        (pc[c] = "joined" /\ NextFits(c) /\ Head(inbox[RoomAt(c)]) = m)
            ~> (m \in ToSet(got[c]) \/ peer[c] # "here" \/ shut[c])

\* What handler.go:13-18 says of a sender, "including the sender's own
\* message": each message Redis executed for a connected sender came back to
\* it or is on its way.
OwnMessageComesBack ==
    \A c \in Conns : (pc[c] = "joined" /\ peer[c] = "here" /\ ~shut[c]) =>
        \A i \in 1..Len(log[RoomOf[c]]) :
            log[RoomOf[c]][i].from = c => i \in ToSet(Stream(c))
=============================================================================
