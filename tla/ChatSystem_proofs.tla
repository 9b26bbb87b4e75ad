-------------------------- MODULE ChatSystem_proofs --------------------------
(***************************************************************************)
(* The chat service end to end is an implementation of the hub: whatever   *)
(* handlers, Redis and users do, each step is one of ChatHub's actions or  *)
(* leaves the hub alone.  The hub's theorems therefore hold of the whole   *)
(* service, with its failures, for any number of pods, rooms and users.    *)
(*                                                                         *)
(* On the hub's invariant rest the theorems about messages: the types of   *)
(* the state, the order of one sender's messages, the refinement of        *)
(* ChatRoom (a room is one sequence), and that nothing is missing from it  *)
(* unless a buffer or a Redis connection lost it.                          *)
(***************************************************************************)
EXTENDS ChatSystem, ChatHub_proofs, SequenceTheorems

\* What Redis pushed to a room object are positions of the room's log.
InboxTypeOK ==
    /\ log \in [Rooms -> Seq([from : Conns, num : Nat])]
    /\ inbox \in [Conns -> Seq(Nat \ {0})]
    /\ strays \subseteq [from : Conns, num : Nat, try : Nat]
    /\ sent \in [Conns -> Nat]
    /\ faults \in Nat

\* A command appends to a room's log and to the inboxes it reaches.
LEMMA ExecuteKeepsTypes ==
    ASSUME InboxTypeOK, NEW c \in Conns, NEW n \in Nat, Execute(c, n)
    PROVE  /\ log' \in [Rooms -> Seq([from : Conns, num : Nat])]
           /\ inbox' \in [Conns -> Seq(Nat \ {0})]
<1> DEFINE r == RoomOf[c]
           m == [from |-> c, num |-> n]
<1>1. r \in Rooms
  BY HubAssumption
<1>2. log[r] \in Seq([from : Conns, num : Nat])
  BY <1>1 DEF InboxTypeOK
<1>3. m \in [from : Conns, num : Nat]
  OBVIOUS
<1>4. Append(log[r], m) \in Seq([from : Conns, num : Nat])
  BY <1>2, <1>3
<1>5. Len(log[r]) + 1 \in Nat \ {0}
  BY <1>2
<1>6. log' \in [Rooms -> Seq([from : Conns, num : Nat])]
  BY <1>1, <1>4 DEF InboxTypeOK, Execute
<1>7. \A o \in Conns : Append(inbox[o], Len(log[r]) + 1) \in Seq(Nat \ {0})
  BY <1>5 DEF InboxTypeOK
<1>8. inbox' \in [Conns -> Seq(Nat \ {0})]
  BY <1>7 DEF InboxTypeOK, Execute
<1> QED
  BY <1>6, <1>8

\* Faults are counted.
LEMMA FaultsCount ==
    ASSUME faults \in Nat, [SysNext]_sysVars
    PROVE  faults' \in Nat
<1> SUFFICES faults' = faults \/ faults' = faults + 1
  OBVIOUS
<1>1. ASSUME NEW c \in Conns, Handler(c)
      PROVE  faults' = faults \/ faults' = faults + 1
  <2>1. CASE SysJoinExisting(c) \/ SysJoinNew(c) \/ SysSubscribe(c)
    BY <2>1 DEF SysJoinExisting, SysJoinNew, SysSubscribe, StartLoops
  <2>2. CASE ReadMessage(c) \/ PublishExecuted(c) \/ PublishFails(c) \/ PublishTimesOut(c)
    BY <2>2 DEF ReadMessage, PublishExecuted, PublishFails, PublishTimesOut, Fault
  <2>3. CASE ReadFails(c) \/ SysLeave(c) \/ SysCloseSend(c) \/ SysReturn(c)
    BY <2>3 DEF ReadFails, SysLeave, SysCloseSend, SysReturn
  <2>4. CASE WriterTakes(c) \/ WriteSucceeds(c) \/ WriteFails(c) \/ WriterDone(c)
    BY <2>4 DEF WriterTakes, WriteSucceeds, WriteFails, WriterDone, Fault
  <2>5. CASE PingFails(c) \/ PeerLeaves(c) \/ PeerDies(c)
    BY <2>5 DEF PingFails, PeerLeaves, PeerDies, Fault
  <2> QED
    BY <1>1, <2>1, <2>2, <2>3, <2>4, <2>5 DEF Handler
<1>2. ASSUME NEW o \in Conns, Subscription(o)
      PROVE  faults' = faults \/ faults' = faults + 1
  BY <1>2 DEF Subscription, RedisSubscribes, RedisLost, SysDeliver, SysSubscriptionExit, Fault
<1>3. ASSUME (\E m \in strays : StrayExecuted(m)) \/ (\E p \in Pods : Crash(p))
      PROVE  faults' = faults \/ faults' = faults + 1
  BY <1>3 DEF StrayExecuted, Crash, Fault
<1> QED
  BY <1>1, <1>2, <1>3 DEF SysNext, sysVars

\* The log, the inboxes and the commands have their types at any time.
LEMMA InboxTypes == SysSpec => []InboxTypeOK
<1>1. SysInit => InboxTypeOK
  BY DEF SysInit, InboxTypeOK
<1>2. InboxTypeOK /\ [SysNext]_sysVars => InboxTypeOK'
  <2> SUFFICES ASSUME InboxTypeOK, [SysNext]_sysVars
               PROVE  InboxTypeOK'
    OBVIOUS
  <2>0. faults' \in Nat
    BY FaultsCount DEF InboxTypeOK
  <2>1. ASSUME NEW c \in Conns, PublishExecuted(c)
        PROVE  InboxTypeOK'
    <3>1. sent[c] \in Nat
      BY DEF InboxTypeOK
    <3> QED
      BY <2>0, <2>1, <3>1, ExecuteKeepsTypes DEF PublishExecuted, BackToReading, InboxTypeOK
  <2>2. ASSUME NEW m \in strays, StrayExecuted(m)
        PROVE  InboxTypeOK'
    <3>1. m.from \in Conns /\ m.num \in Nat
      BY DEF InboxTypeOK
    <3> QED
      BY <2>0, <2>2, <3>1, ExecuteKeepsTypes DEF StrayExecuted, InboxTypeOK, handlerVars
  <2>3. ASSUME NEW c \in Conns, Handler(c), ~PublishExecuted(c)
        PROVE  InboxTypeOK'
    <3> USE DEF InboxTypeOK, wireVars, handlerVars
    <3>1. CASE SysJoinExisting(c) \/ SysJoinNew(c) \/ SysSubscribe(c)
      BY <2>0, <3>1 DEF SysJoinExisting, SysJoinNew, SysSubscribe, StartLoops
    <3>2. CASE ReadMessage(c)
      BY <2>0, <3>2 DEF ReadMessage
    <3>3. CASE PublishFails(c)
      BY <2>0, <3>3 DEF PublishFails, BackToReading
    <3>4. CASE PublishTimesOut(c)
      <4>1. sent' = sent
        BY <3>4 DEF PublishTimesOut, BackToReading
      <4>2. strays' = strays \cup {Attempt(c)}
        BY <3>4 DEF PublishTimesOut
      <4>3. Attempt(c) \in [from : Conns, num : Nat, try : Nat]
        BY DEF Attempt
      <4>4. strays' \subseteq [from : Conns, num : Nat, try : Nat]
        BY <4>2, <4>3
      <4>5. log' = log /\ inbox' = inbox
        BY <3>4 DEF PublishTimesOut
      <4> QED
        BY <2>0, <4>1, <4>4, <4>5
    <3>5. CASE ReadFails(c) \/ SysLeave(c) \/ SysCloseSend(c) \/ SysReturn(c)
      BY <2>0, <3>5 DEF ReadFails, SysLeave, SysCloseSend, SysReturn
    <3>6. CASE WriterTakes(c) \/ WriteSucceeds(c) \/ WriteFails(c) \/ WriterDone(c)
      BY <2>0, <3>6 DEF WriterTakes, WriteSucceeds, WriteFails, WriterDone
    <3>7. CASE PingFails(c) \/ PeerLeaves(c) \/ PeerDies(c)
      BY <2>0, <3>7 DEF PingFails, PeerLeaves, PeerDies
    <3> QED
      BY <2>3, <3>1, <3>2, <3>3, <3>4, <3>5, <3>6, <3>7 DEF Handler
  <2>4. ASSUME NEW o \in Conns, Subscription(o)
        PROVE  InboxTypeOK'
    <3> USE DEF InboxTypeOK, handlerVars
    <3>1. CASE RedisSubscribes(o)
      BY <2>0, <3>1 DEF RedisSubscribes
    <3>2. CASE RedisLost(o)
      <4>1. PICK n \in 0..Len(inbox[o]) : inbox' = [inbox EXCEPT ![o] = SubSeq(@, 1, n)]
        BY <3>2 DEF RedisLost
      <4>2. SubSeq(inbox[o], 1, n) \in Seq(Nat \ {0})
        BY <4>1
      <4> QED
        BY <2>0, <3>2, <4>1, <4>2 DEF RedisLost
    <3>3. CASE SysDeliver(o)
      <4>1. inbox[o] \in Seq(Nat \ {0}) /\ inbox[o] # <<>>
        BY <3>3 DEF SysDeliver
      <4>2. Tail(inbox[o]) \in Seq(Nat \ {0})
        BY <4>1
      <4> QED
        BY <2>0, <3>3, <4>2 DEF SysDeliver
    <3>4. CASE SysSubscriptionExit(o)
      BY <2>0, <3>4 DEF SysSubscriptionExit
    <3> QED
      BY <2>4, <3>1, <3>2, <3>3, <3>4 DEF Subscription
  <2>5. ASSUME NEW p \in Pods, Crash(p)
        PROVE  InboxTypeOK'
    <3> DEFINE lost == {Attempt(c) :
                          c \in {d \in Conns : (PodOf[d] = p /\ pc[d] # "new")
                                               /\ reader[d] = "publishing"}}
    <3>1. /\ strays' = strays \cup lost
          /\ inbox' = [c \in Conns |-> IF PodOf[c] = p /\ pc[c] # "new" THEN <<>> ELSE inbox[c]]
          /\ log' = log /\ sent' = sent
      BY <2>5 DEF Crash
    <3>2. \A c \in Conns : Attempt(c) \in [from : Conns, num : Nat, try : Nat]
      BY DEF InboxTypeOK, Attempt
    <3>3. lost \subseteq [from : Conns, num : Nat, try : Nat]
      BY <3>2
    <3> HIDE DEF lost
    <3>4. inbox' \in [Conns -> Seq(Nat \ {0})]
      BY <3>1 DEF InboxTypeOK
    <3> QED
      BY <2>0, <3>1, <3>3, <3>4 DEF InboxTypeOK
  <2>6. CASE UNCHANGED sysVars
    BY <2>0, <2>6 DEF sysVars, wireVars, handlerVars, InboxTypeOK
  <2> QED
    BY <2>1, <2>2, <2>3, <2>4, <2>5, <2>6 DEF SysNext
<1> QED
  BY <1>1, <1>2, PTL DEF SysSpec

\* Each step of the service is a step of the hub or none of its business.
LEMMA SysStepIsHubStep ==
    ASSUME Payloads = Nat \ {0}, InboxTypeOK, [SysNext]_sysVars
    PROVE  [HubNext]_hubVars
<1>1. ASSUME NEW c \in Conns, Handler(c)
      PROVE  [HubNext]_hubVars
  <2>1. CASE SysJoinExisting(c) \/ SysJoinNew(c) \/ SysSubscribe(c)
    BY <2>1 DEF SysJoinExisting, SysJoinNew, SysSubscribe, HubNext
  <2>2. CASE ReadMessage(c) \/ PublishExecuted(c) \/ PublishFails(c) \/ PublishTimesOut(c)
    BY <2>2 DEF ReadMessage, PublishExecuted, PublishFails, PublishTimesOut, BackToReading
  <2>3. CASE SysLeave(c) \/ SysCloseSend(c) \/ SysReturn(c)
    BY <2>3 DEF SysLeave, SysCloseSend, SysReturn, HubNext
  <2>4. CASE WriterTakes(c)
    BY <2>4 DEF WriterTakes, HubNext
  <2>5. CASE ReadFails(c) \/ WriteSucceeds(c) \/ WriteFails(c) \/ WriterDone(c)
    BY <2>5 DEF ReadFails, WriteSucceeds, WriteFails, WriterDone
  <2>6. CASE PingFails(c) \/ PeerLeaves(c) \/ PeerDies(c)
    BY <2>6 DEF PingFails, PeerLeaves, PeerDies
  <2> QED
    BY <1>1, <2>1, <2>2, <2>3, <2>4, <2>5, <2>6 DEF Handler
<1>2. ASSUME NEW o \in Conns, Subscription(o)
      PROVE  [HubNext]_hubVars
  <2>1. CASE RedisSubscribes(o) \/ RedisLost(o)
    BY <2>1 DEF RedisSubscribes, RedisLost
  <2>2. CASE SysDeliver(o)
    <3>1. inbox[o] \in Seq(Payloads) /\ inbox[o] # <<>>
      BY <2>2 DEF SysDeliver, InboxTypeOK
    <3>2. Head(inbox[o]) \in Payloads
      BY <3>1
    <3> QED
      BY <2>2, <3>2 DEF SysDeliver, HubNext
  <2>3. CASE SysSubscriptionExit(o)
    BY <2>3 DEF SysSubscriptionExit, HubNext
  <2> QED
    BY <1>2, <2>1, <2>2, <2>3 DEF Subscription
<1>3. ASSUME NEW m \in strays, StrayExecuted(m)
      PROVE  [HubNext]_hubVars
  BY <1>3 DEF StrayExecuted
<1>4. ASSUME NEW p \in Pods, Crash(p)
      PROVE  [HubNext]_hubVars
  BY <1>4 DEF Crash, HubNext
<1>5. CASE UNCHANGED sysVars
  BY <1>5 DEF sysVars
<1> QED
  BY <1>1, <1>2, <1>3, <1>4, <1>5 DEF SysNext

\* The service implements the hub: handler.go and broker.go use hub.go only
\* through the operations ChatHub describes, in the order it allows.
THEOREM SystemImplementsHub ==
    ASSUME Payloads = Nat \ {0}
    PROVE  SysSpec => HubSpec
<1>1. SysInit => HubInit
  BY DEF SysInit
<1>2. InboxTypeOK /\ [SysNext]_sysVars => [HubNext]_hubVars
  BY SysStepIsHubStep
<1> QED
  BY <1>1, <1>2, InboxTypes, PTL DEF SysSpec, HubSpec

\* No step of the service, faults included, sends on a closed channel.
THEOREM SystemNoSendOnClosedChannel ==
    ASSUME Payloads = Nat \ {0}
    PROVE  SysSpec => []NoSendOnClosedChannel
BY SystemImplementsHub, HubNoSendOnClosedChannel, PTL

\* No user of the service is stranded in a room object that was dropped.
THEOREM SystemNoStrandedClient ==
    ASSUME Payloads = Nat \ {0}
    PROVE  SysSpec => []NoStrandedClient
BY SystemImplementsHub, HubNoStrandedClient, PTL
-----------------------------------------------------------------------------
(* Listeners are never disconnected *)

HandlerTypeOK ==
    /\ pc \in [Conns -> {"new", "subscribing", "joined", "left", "closed", "returned"}]
    /\ reader \in [Conns -> {"none", "reading", "publishing", "stopped"}]
    /\ sent \in [Conns -> Nat]
    /\ peer \in [Conns -> {"here", "left", "dead"}]
    /\ shut \in [Conns -> BOOLEAN]
    /\ ctxDone \in [Conns -> BOOLEAN]

\* What keeps a listener connected: its read loop neither publishes, which is
\* what could keep a pong waiting, nor has stopped.
Undisturbed(c) ==
    "peerStalls" \notin FaultKinds /\ peer[c] = "here" /\ sent[c] = 0 =>
        /\ ~ctxDone[c] /\ ~shut[c]
        /\ pc[c] \in {"new", "subscribing", "joined"}
        /\ reader[c] \in {"none", "reading"}

IdleInv == HandlerTypeOK /\ \A c \in Conns : Undisturbed(c)

\* The handlers leave a listener connected.
LEMMA HandlerKeepsIdle ==
    ASSUME IdleInv, NEW c \in Conns, Handler(c)
    PROVE  IdleInv'
<1> USE DEF IdleInv, HandlerTypeOK, Undisturbed, handlerVars
<1>1. CASE SysJoinExisting(c)
  BY <1>1 DEF SysJoinExisting, StartLoops, JoinExisting
<1>2. CASE SysJoinNew(c)
  BY <1>2 DEF SysJoinNew, JoinNew, CreateRoom
<1>3. CASE SysSubscribe(c)
  BY <1>3 DEF SysSubscribe, StartLoops, Subscribe
<1>4. CASE ReadMessage(c)
  BY <1>4 DEF ReadMessage, hubVars
<1>5. CASE PublishExecuted(c) \/ PublishFails(c) \/ PublishTimesOut(c)
  BY <1>5 DEF PublishExecuted, PublishFails, PublishTimesOut, BackToReading, hubVars
<1>6. CASE ReadFails(c)
  BY <1>6 DEF ReadFails, ReadEnds, hubVars
<1>7. CASE SysLeave(c)
  BY <1>7 DEF SysLeave, Leave
<1>8. CASE SysCloseSend(c)
  BY <1>8 DEF SysCloseSend, CloseSend
<1>9. CASE SysReturn(c)
  BY <1>9 DEF SysReturn, Return
<1>10. CASE WriterTakes(c)
  BY <1>10 DEF WriterTakes, WriterReceive
<1>11. CASE WriteSucceeds(c) \/ WriterDone(c)
  BY <1>11 DEF WriteSucceeds, WriterDone, hubVars
<1>12. CASE WriteFails(c)
  BY <1>12 DEF WriteFails, Fault, hubVars
<1>13. CASE PingFails(c)
  BY <1>13 DEF PingFails, Unanswered, hubVars
<1>14. CASE PeerLeaves(c) \/ PeerDies(c)
  BY <1>14 DEF PeerLeaves, PeerDies, hubVars
<1> QED
  BY <1>1, <1>2, <1>3, <1>4, <1>5, <1>6, <1>7, <1>8, <1>9, <1>10, <1>11, <1>12, <1>13, <1>14
     DEF Handler

\* So do Redis, the listening goroutines and a crash.
LEMMA OthersKeepIdle ==
    ASSUME IdleInv, [SysNext]_sysVars, \A c \in Conns : ~Handler(c)
    PROVE  IdleInv'
<1> USE DEF IdleInv, HandlerTypeOK, Undisturbed, handlerVars
<1>1. ASSUME NEW o \in Conns, Subscription(o)
      PROVE  IdleInv'
  <2>1. CASE RedisSubscribes(o) \/ RedisLost(o)
    BY <2>1 DEF RedisSubscribes, RedisLost, hubVars
  <2>2. CASE SysDeliver(o)
    BY <2>2 DEF SysDeliver, Deliver
  <2>3. CASE SysSubscriptionExit(o)
    BY <2>3 DEF SysSubscriptionExit, SubscriptionExit
  <2> QED
    BY <1>1, <2>1, <2>2, <2>3 DEF Subscription
<1>2. ASSUME NEW m \in strays, StrayExecuted(m)
      PROVE  IdleInv'
  BY <1>2 DEF StrayExecuted, hubVars
<1>3. ASSUME NEW p \in Pods, Crash(p)
      PROVE  IdleInv'
  <2>1. /\ pc' = [c \in Conns |-> IF PodOf[c] = p /\ pc[c] # "new" THEN "returned" ELSE pc[c]]
        /\ reader' = [c \in Conns |-> IF PodOf[c] = p /\ pc[c] # "new" THEN "stopped" ELSE reader[c]]
        /\ peer' = [c \in Conns |-> IF PodOf[c] = p /\ pc[c] # "new" THEN "left" ELSE peer[c]]
        /\ shut' = [c \in Conns |-> IF PodOf[c] = p /\ pc[c] # "new" THEN TRUE ELSE shut[c]]
        /\ ctxDone' = [c \in Conns |-> IF PodOf[c] = p /\ pc[c] # "new" THEN TRUE ELSE ctxDone[c]]
        /\ sent' = sent
    BY <1>3 DEF Crash, PodCrash
  <2>2. HandlerTypeOK'
    BY <2>1
  <2>3. \A c \in Conns : Undisturbed(c)'
    BY <2>1
  <2> QED
    BY <2>2, <2>3
<1>4. CASE UNCHANGED sysVars
  BY <1>4 DEF sysVars, hubVars
<1> QED
  BY <1>1, <1>2, <1>3, <1>4 DEF SysNext

\* A user who only listens and whose end is there stays connected, whatever
\* slow publishes, lost connections and other users do (handler.go:76-81).
THEOREM SystemIdleClientStaysConnected == SysSpec => []IdleClientStaysConnected
<1>1. SysInit => IdleInv
  BY DEF SysInit, HubInit, IdleInv, HandlerTypeOK, Undisturbed
<1>2. IdleInv /\ [SysNext]_sysVars => IdleInv'
  BY HandlerKeepsIdle, OthersKeepIdle
<1>3. IdleInv => IdleClientStaysConnected
  BY DEF IdleInv, HandlerTypeOK, Undisturbed, IdleClientStaysConnected
<1> QED
  BY <1>1, <1>2, <1>3, PTL DEF SysSpec
-----------------------------------------------------------------------------
(* The state of the service *)

\* The part of SysTypeOK that is not the hub's, and what makes it inductive:
\* a command that is on its way carries the number of a message that was read.
WireTypeOK ==
    /\ listening \in [Conns -> SUBSET (0..(NumShards - 1))]
    /\ \A r \in Rooms : \A i \in 1..Len(log[r]) : log[r][i].num \in 1..MaxSends[log[r][i].from]
    /\ \A m \in strays : m.num \in 1..MaxSends[m.from]
    /\ \A c \in Conns : sent[c] \in 0..MaxSends[c]
    /\ \A c \in Conns : reader[c] = "publishing" => sent[c] >= 1

LoopTypeOK ==
    /\ reader \in [Conns -> {"none", "reading", "publishing", "stopped"}]
    /\ writer \in [Conns -> {"none", "running", "exited"}]
    /\ outgoing \in [Conns -> Nat]
    /\ got \in [Conns -> Seq(Nat \ {0})]
    /\ peer \in [Conns -> {"here", "left", "dead"}]
    /\ shut \in [Conns -> BOOLEAN]
    /\ ctxDone \in [Conns -> BOOLEAN]
    /\ faults \in 0..MaxFaults

\* What the handler of a connection does to its own state keeps its types.
LEMMA HandlerKeepsLoopTypes ==
    ASSUME LoopTypeOK, send \in [Conns -> Seq(Nat \ {0})], NEW c \in Conns, Handler(c)
    PROVE  LoopTypeOK'
<1> USE SystemAssumption DEF LoopTypeOK, handlerVars, wireVars
<1>1. CASE SysJoinExisting(c) \/ SysSubscribe(c)
  <2>1. StartLoops(c)
    BY <1>1 DEF SysJoinExisting, SysSubscribe
  <2> QED
    BY <2>1 DEF StartLoops
<1>8. CASE SysJoinNew(c)
  BY <1>8 DEF SysJoinNew
<1>2. CASE ReadMessage(c) \/ PublishExecuted(c)
  BY <1>2 DEF ReadMessage, PublishExecuted, BackToReading
<1>12. CASE PublishFails(c) \/ PublishTimesOut(c)
  <2>1. faults' \in 0..MaxFaults
    BY <1>12 DEF PublishFails, PublishTimesOut, Fault
  <2>2. reader' = reader \/ reader' = [reader EXCEPT ![c] = "reading"]
    BY <1>12 DEF PublishFails, PublishTimesOut, BackToReading
  <2>3. UNCHANGED <<writer, outgoing, got, peer, shut, ctxDone>>
    BY <1>12 DEF PublishFails, PublishTimesOut, BackToReading
  <2> QED
    BY <2>1, <2>2, <2>3
<1>3. CASE ReadFails(c) \/ SysLeave(c) \/ SysCloseSend(c) \/ SysReturn(c)
  BY <1>3 DEF ReadFails, SysLeave, SysCloseSend, SysReturn
<1>4. CASE WriterTakes(c)
  <2>1. send[c] \in Seq(Nat \ {0}) /\ send[c] # <<>>
    BY <1>4 DEF WriterTakes, WriterReceive
  <2>2. Head(send[c]) \in Nat
    BY <2>1
  <2> QED
    BY <1>4, <2>2 DEF WriterTakes
<1>5. CASE WriteSucceeds(c)
  <2>1. outgoing[c] \in Nat \ {0} /\ got[c] \in Seq(Nat \ {0})
    BY <1>5 DEF WriteSucceeds
  <2>2. Append(got[c], outgoing[c]) \in Seq(Nat \ {0})
    BY <2>1
  <2> QED
    BY <1>5, <2>2 DEF WriteSucceeds
<1>6. CASE WriteFails(c)
  <2>1. faults' \in 0..MaxFaults
    BY <1>6, SystemAssumption DEF WriteFails, Fault, LoopTypeOK
  <2> QED
    BY <1>6, <2>1 DEF WriteFails
<1>9. CASE WriterDone(c)
  BY <1>9 DEF WriterDone
<1>7. CASE PingFails(c)
  BY <1>7 DEF PingFails
<1>10. CASE PeerLeaves(c)
  BY <1>10 DEF PeerLeaves
<1>11. CASE PeerDies(c)
  <2>1. faults' \in 0..MaxFaults
    BY <1>11 DEF PeerDies, Fault
  <2> QED
    BY <1>11, <2>1 DEF PeerDies
<1> QED
  BY <1>1, <1>2, <1>3, <1>4, <1>5, <1>6, <1>7, <1>8, <1>9, <1>10, <1>11, <1>12 DEF Handler

\* So do Redis, the listening goroutines and a crash.
LEMMA OthersKeepLoopTypes ==
    ASSUME LoopTypeOK, [SysNext]_sysVars, \A c \in Conns : ~Handler(c)
    PROVE  LoopTypeOK'
<1> USE SystemAssumption DEF LoopTypeOK, handlerVars
<1>1. ASSUME NEW o \in Conns, Subscription(o)
      PROVE  LoopTypeOK'
  <2>1. CASE RedisSubscribes(o) \/ SysDeliver(o) \/ SysSubscriptionExit(o)
    BY <2>1 DEF RedisSubscribes, SysDeliver, SysSubscriptionExit
  <2>2. CASE RedisLost(o)
    <3>1. faults' \in 0..MaxFaults
      BY <2>2 DEF RedisLost, Fault
    <3> QED
      BY <2>2, <3>1 DEF RedisLost
  <2> QED
    BY <1>1, <2>1, <2>2 DEF Subscription
<1>2. ASSUME NEW m \in strays, StrayExecuted(m)
      PROVE  LoopTypeOK'
  BY <1>2 DEF StrayExecuted
<1>3. ASSUME NEW p \in Pods, Crash(p)
      PROVE  LoopTypeOK'
  <2>1. /\ reader' = [c \in Conns |-> IF PodOf[c] = p /\ pc[c] # "new" THEN "stopped" ELSE reader[c]]
        /\ writer' = [c \in Conns |-> IF PodOf[c] = p /\ pc[c] # "new" THEN "exited" ELSE writer[c]]
        /\ outgoing' = [c \in Conns |-> IF PodOf[c] = p /\ pc[c] # "new" THEN 0 ELSE outgoing[c]]
        /\ peer' = [c \in Conns |-> IF PodOf[c] = p /\ pc[c] # "new" THEN "left" ELSE peer[c]]
        /\ shut' = [c \in Conns |-> IF PodOf[c] = p /\ pc[c] # "new" THEN TRUE ELSE shut[c]]
        /\ ctxDone' = [c \in Conns |-> IF PodOf[c] = p /\ pc[c] # "new" THEN TRUE ELSE ctxDone[c]]
        /\ got' = got
    BY <1>3 DEF Crash
  <2>2. faults' \in 0..MaxFaults
    BY <1>3 DEF Crash, Fault
  <2> QED
    BY <2>1, <2>2
<1>4. CASE UNCHANGED sysVars
  BY <1>4 DEF sysVars
<1> QED
  BY <1>1, <1>2, <1>3, <1>4 DEF SysNext

\* A command that was read is executed with the number it was read under.
LEMMA ExecuteKeepsWireTypes ==
    ASSUME InboxTypeOK, WireTypeOK, NEW c \in Conns, NEW n \in 1..MaxSends[c], Execute(c, n)
    PROVE  \A r \in Rooms : \A i \in 1..Len(log'[r]) : log'[r][i].num \in 1..MaxSends[log'[r][i].from]
<1> SUFFICES ASSUME NEW r \in Rooms, NEW i \in 1..Len(log'[r])
             PROVE  log'[r][i].num \in 1..MaxSends[log'[r][i].from]
  OBVIOUS
<1> DEFINE m == [from |-> c, num |-> n]
<1>1. log[r] \in Seq([from : Conns, num : Nat])
  BY DEF InboxTypeOK
<1>2. log'[r] = IF r = RoomOf[c] THEN Append(log[r], m) ELSE log[r]
  BY DEF InboxTypeOK, Execute
<1>3. CASE r = RoomOf[c]
  <2>1. Len(log'[r]) = Len(log[r]) + 1
    BY <1>1, <1>2, <1>3
  <2>2. CASE i = Len(log[r]) + 1
    BY <1>1, <1>2, <1>3, <2>2
  <2>3. CASE i \in 1..Len(log[r])
    <3>1. log'[r][i] = log[r][i]
      BY <1>1, <1>2, <1>3, <2>3
    <3> QED
      BY <2>3, <3>1 DEF WireTypeOK
  <2> QED
    BY <1>1, <2>1, <2>2, <2>3
<1>4. CASE r # RoomOf[c]
  BY <1>2, <1>4 DEF WireTypeOK
<1> QED
  BY <1>3, <1>4

\* Each room has a shard.
LEMMA ShardType == \A r \in Rooms : ShardFor(r) \in 0..(NumShards - 1)
  BY SystemAssumption DEF ShardFor, ShardIndex

\* The handlers keep the types of what is on its way.
LEMMA HandlerKeepsWireTypes ==
    ASSUME InboxTypeOK, WireTypeOK, LoopTypeOK, NEW c \in Conns, Handler(c)
    PROVE  WireTypeOK'
<1> USE SystemAssumption DEF wireVars, handlerVars
<1>1. CASE SysJoinExisting(c) \/ SysJoinNew(c) \/ SysSubscribe(c)
  BY <1>1 DEF SysJoinExisting, SysJoinNew, SysSubscribe, StartLoops, WireTypeOK, LoopTypeOK
<1>2. CASE ReadMessage(c)
  BY <1>2 DEF ReadMessage, WireTypeOK, LoopTypeOK, InboxTypeOK
<1>3. CASE PublishExecuted(c)
  <2>1. sent[c] \in 1..MaxSends[c]
    BY <1>3 DEF PublishExecuted, BackToReading, WireTypeOK, InboxTypeOK
  <2>2. \A r \in Rooms : \A i \in 1..Len(log'[r]) : log'[r][i].num \in 1..MaxSends[log'[r][i].from]
    BY <1>3, <2>1, ExecuteKeepsWireTypes DEF PublishExecuted
  <2> QED
    BY <1>3, <2>2 DEF PublishExecuted, BackToReading, WireTypeOK, LoopTypeOK
<1>4. CASE PublishFails(c)
  BY <1>4 DEF PublishFails, BackToReading, WireTypeOK, LoopTypeOK
<1>5. CASE PublishTimesOut(c)
  <2>1. sent[c] \in 1..MaxSends[c]
    BY <1>5 DEF PublishTimesOut, WireTypeOK, InboxTypeOK
  <2>2. /\ strays' = strays \cup {Attempt(c)}
        /\ UNCHANGED <<log, listening, sent>>
        /\ reader' = reader \/ reader' = [reader EXCEPT ![c] = "reading"]
    BY <1>5 DEF PublishTimesOut, BackToReading
  <2> QED
    BY <2>1, <2>2 DEF Attempt, WireTypeOK, LoopTypeOK
<1>6. CASE ReadFails(c) \/ SysLeave(c) \/ SysCloseSend(c) \/ SysReturn(c)
  BY <1>6 DEF ReadFails, SysLeave, SysCloseSend, SysReturn, WireTypeOK, LoopTypeOK
<1>7. CASE WriterTakes(c) \/ WriteSucceeds(c) \/ WriteFails(c) \/ WriterDone(c)
  BY <1>7 DEF WriterTakes, WriteSucceeds, WriteFails, WriterDone, WireTypeOK
<1>8. CASE PingFails(c) \/ PeerLeaves(c) \/ PeerDies(c)
  BY <1>8 DEF PingFails, PeerLeaves, PeerDies, WireTypeOK
<1> QED
  BY <1>1, <1>2, <1>3, <1>4, <1>5, <1>6, <1>7, <1>8 DEF Handler

\* So do Redis, the listening goroutines and a crash.
LEMMA OthersKeepWireTypes ==
    ASSUME InboxTypeOK, WireTypeOK, LoopTypeOK, [SysNext]_sysVars, \A c \in Conns : ~Handler(c)
    PROVE  WireTypeOK'
<1> USE SystemAssumption DEF handlerVars
<1>1. ASSUME NEW o \in Conns, Subscription(o)
      PROVE  WireTypeOK'
  <2>1. RoomOf[o] \in Rooms /\ {ShardFor(RoomOf[o])} \in SUBSET (0..(NumShards - 1))
    BY ShardType, HubAssumption
  <2>2. CASE RedisSubscribes(o)
    BY <2>1, <2>2 DEF RedisSubscribes, WireTypeOK
  <2>3. CASE RedisLost(o) \/ SysDeliver(o) \/ SysSubscriptionExit(o)
    BY <2>3 DEF RedisLost, SysDeliver, SysSubscriptionExit, WireTypeOK
  <2> QED
    BY <1>1, <2>2, <2>3 DEF Subscription
<1>2. ASSUME NEW m \in strays, StrayExecuted(m)
      PROVE  WireTypeOK'
  <2>1. m.from \in Conns /\ m.num \in 1..MaxSends[m.from]
    BY DEF InboxTypeOK, WireTypeOK
  <2>2. \A r \in Rooms : \A i \in 1..Len(log'[r]) : log'[r][i].num \in 1..MaxSends[log'[r][i].from]
    BY <1>2, <2>1, ExecuteKeepsWireTypes DEF StrayExecuted
  <2> QED
    BY <1>2, <2>2 DEF StrayExecuted, WireTypeOK
<1>3. ASSUME NEW p \in Pods, Crash(p)
      PROVE  WireTypeOK'
  <2> DEFINE lost == {Attempt(c) :
                        c \in {d \in Conns : (PodOf[d] = p /\ pc[d] # "new")
                                             /\ reader[d] = "publishing"}}
  <2>1. /\ strays' = strays \cup lost
        /\ listening' = [c \in Conns |-> IF PodOf[c] = p /\ pc[c] # "new" THEN {} ELSE listening[c]]
        /\ reader' = [c \in Conns |-> IF PodOf[c] = p /\ pc[c] # "new" THEN "stopped" ELSE reader[c]]
        /\ log' = log /\ sent' = sent
    BY <1>3 DEF Crash
  <2>2. \A m \in lost : m.num \in 1..MaxSends[m.from]
    BY DEF Attempt, WireTypeOK, InboxTypeOK
  <2> HIDE DEF lost
  <2> QED
    BY <2>1, <2>2 DEF WireTypeOK, LoopTypeOK
<1>4. CASE UNCHANGED sysVars
  BY <1>4 DEF sysVars, wireVars, WireTypeOK
<1> QED
  BY <1>1, <1>2, <1>3, <1>4 DEF SysNext

\* The hub's inductive invariant holds of the whole service.
LEMMA SystemHubInvariant ==
    ASSUME Payloads = Nat \ {0}
    PROVE  SysSpec => []HubInv
BY SystemImplementsHub, HubInvariant, PTL

\* The two halves hold together: a command's type rests on its handler's.
LEMMA SystemLoopTypes ==
    ASSUME Payloads = Nat \ {0}
    PROVE  SysSpec => [](LoopTypeOK /\ WireTypeOK)
<1> DEFINE Inv == LoopTypeOK /\ WireTypeOK
<1>1. SysInit => Inv
  BY SystemAssumption DEF SysInit, LoopTypeOK, WireTypeOK
<1>2. Inv /\ HubInv /\ InboxTypeOK /\ [SysNext]_sysVars => Inv'
  <2> SUFFICES ASSUME Inv, HubInv, InboxTypeOK, [SysNext]_sysVars
               PROVE  Inv'
    OBVIOUS
  <2>1. send \in [Conns -> Seq(Nat \ {0})]
    BY DEF HubInv, HubTypeOK
  <2>2. CASE \E c \in Conns : Handler(c)
    BY <2>1, <2>2, HandlerKeepsLoopTypes, HandlerKeepsWireTypes
  <2>3. CASE \A c \in Conns : ~Handler(c)
    BY <2>3, OthersKeepLoopTypes, OthersKeepWireTypes
  <2> QED
    BY <2>2, <2>3
<1> QED
  BY <1>1, <1>2, SystemHubInvariant, InboxTypes, PTL DEF SysSpec

\* The state of the service has its types.
THEOREM SystemTypes ==
    ASSUME Payloads = Nat \ {0}
    PROVE  SysSpec => []SysTypeOK
<1>1. HubInv /\ InboxTypeOK /\ LoopTypeOK /\ WireTypeOK => SysTypeOK
  <2> SUFFICES ASSUME HubInv, InboxTypeOK, LoopTypeOK, WireTypeOK
               PROVE  SysTypeOK
    OBVIOUS
  <2>1. \A r \in Rooms : \A i \in 1..Len(log[r]) : log[r][i] \in [from : Conns, num : Nat]
    <3>1. \A r \in Rooms : log[r] \in Seq([from : Conns, num : Nat])
      BY DEF InboxTypeOK
    <3> QED
      BY <3>1, ElementOfSeq
  <2>2. \A r \in Rooms : \A i \in 1..Len(log[r]) :
          log[r][i].from \in Conns /\ log[r][i].num \in 1..MaxSends[log[r][i].from]
    BY <2>1 DEF WireTypeOK
  <2>3. outgoing \in [Conns -> Payloads \cup {0}]
    BY DEF LoopTypeOK
  <2> QED
    BY <2>2, <2>3 DEF HubInv, InboxTypeOK, LoopTypeOK, WireTypeOK, SysTypeOK
<1> QED
  BY <1>1, SystemHubInvariant, InboxTypes, SystemLoopTypes, PTL
-----------------------------------------------------------------------------
(* The messages of one sender *)

\* What SenderOrder needs to be inductive: a handler publishes a message
\* before it reads the next one, so the room holds nothing of a sender that is
\* newer than the one it is publishing.
PublishedBefore ==
    \A r \in Rooms : \A i \in 1..Len(log[r]) :
        LET c == log[r][i].from
        IN  /\ log[r][i].num <= sent[c]
            /\ reader[c] = "publishing" => log[r][i].num < sent[c]

SortedBySender ==
    \A r \in Rooms : \A i, j \in 1..Len(log[r]) :
        i < j /\ log[r][i].from = log[r][j].from => log[r][i].num < log[r][j].num

SenderInv == faults = 0 => strays = {} /\ PublishedBefore /\ SortedBySender

\* What the entries of a room's log are.
LEMMA EntryTypes ==
    ASSUME InboxTypeOK, NEW r \in Rooms, NEW i \in 1..Len(log[r])
    PROVE  log[r][i].from \in Conns /\ log[r][i].num \in Nat
<1>1. log[r] \in Seq([from : Conns, num : Nat])
  BY DEF InboxTypeOK
<1>2. log[r][i] \in [from : Conns, num : Nat]
  BY <1>1, ElementOfSeq
<1> QED
  BY <1>2

\* The log of a room after one more command.
LEMMA ExecuteLog ==
    ASSUME InboxTypeOK, NEW c \in Conns, NEW n \in Nat, Execute(c, n)
    PROVE  \A r \in Rooms :
             /\ Len(log[r]) \in Nat
             /\ Len(log'[r]) = IF r = RoomOf[c] THEN Len(log[r]) + 1 ELSE Len(log[r])
             /\ \A i \in 1..Len(log[r]) : log'[r][i] = log[r][i]
             /\ r = RoomOf[c] => log'[r][Len(log[r]) + 1] = [from |-> c, num |-> n]
<1> TAKE r \in Rooms
<1> DEFINE m == [from |-> c, num |-> n]
<1>1. log[r] \in Seq([from : Conns, num : Nat]) /\ m \in [from : Conns, num : Nat]
  BY DEF InboxTypeOK
<1>2. log'[r] = IF r = RoomOf[c] THEN Append(log[r], m) ELSE log[r]
  BY DEF InboxTypeOK, Execute
<1> QED
  BY <1>1, <1>2, AppendProperties

\* The room of every connection, longer by one if it is the sender's.
LEMMA ExecuteLength ==
    ASSUME InboxTypeOK, NEW c \in Conns, NEW n \in Nat, Execute(c, n)
    PROVE  \A d \in Conns :
             Len(log'[RoomOf[d]]) = IF RoomOf[d] = RoomOf[c] THEN Len(log[RoomOf[c]]) + 1
                                    ELSE Len(log[RoomOf[d]])
<1> SUFFICES ASSUME NEW d \in Conns
             PROVE  Len(log'[RoomOf[d]]) = IF RoomOf[d] = RoomOf[c] THEN Len(log[RoomOf[c]]) + 1
                                           ELSE Len(log[RoomOf[d]])
  OBVIOUS
<1>1. RoomOf[d] \in Rooms
  BY HubAssumption
<1> DEFINE m == [from |-> c, num |-> n]
<1>2. log[RoomOf[d]] \in Seq([from : Conns, num : Nat]) /\ m \in [from : Conns, num : Nat]
  BY <1>1 DEF InboxTypeOK
<1>3. log'[RoomOf[d]] = IF RoomOf[d] = RoomOf[c] THEN Append(log[RoomOf[d]], m) ELSE log[RoomOf[d]]
  BY <1>1 DEF InboxTypeOK, Execute
<1>4. Len(Append(log[RoomOf[d]], m)) = Len(log[RoomOf[d]]) + 1
  BY <1>2, AppendProperties
<1> QED
  BY <1>3, <1>4

\* The message being published is the newest of its sender in the room.
LEMMA PublishKeepsSenderInv ==
    ASSUME InboxTypeOK, LoopTypeOK, SenderInv, NEW c \in Conns, PublishExecuted(c)
    PROVE  SenderInv'
<1> DEFINE R == RoomOf[c]
<1>1. SUFFICES ASSUME faults = 0
               PROVE  strays' = {} /\ PublishedBefore' /\ SortedBySender'
  BY DEF SenderInv, PublishExecuted
<1>2. /\ reader[c] = "publishing" /\ reader' = [reader EXCEPT ![c] = "reading"]
      /\ sent' = sent /\ strays' = strays /\ Execute(c, sent[c]) /\ sent[c] \in Nat
  BY DEF PublishExecuted, BackToReading, InboxTypeOK
<1>3. strays = {} /\ PublishedBefore /\ SortedBySender
  BY <1>1 DEF SenderInv
<1>4. \A r \in Rooms :
        /\ Len(log[r]) \in Nat
        /\ Len(log'[r]) = IF r = R THEN Len(log[r]) + 1 ELSE Len(log[r])
        /\ \A i \in 1..Len(log[r]) : log'[r][i] = log[r][i]
        /\ r = R => log'[r][Len(log[r]) + 1] = [from |-> c, num |-> sent[c]]
  BY <1>2, ExecuteLog
<1>5. \A r \in Rooms : \A i \in 1..Len(log[r]) : log[r][i].from \in Conns /\ log[r][i].num \in Nat
  BY EntryTypes
<1>6. PublishedBefore'
  <2> SUFFICES ASSUME NEW r \in Rooms, NEW i \in 1..Len(log'[r])
               PROVE  /\ log'[r][i].num <= sent'[log'[r][i].from]
                      /\ reader'[log'[r][i].from] = "publishing"
                            => log'[r][i].num < sent'[log'[r][i].from]
    BY DEF PublishedBefore
  <2>1. CASE i \in 1..Len(log[r])
    <3>1. log'[r][i] = log[r][i] /\ log[r][i].from \in Conns
      BY <2>1, <1>4, <1>5
    <3> QED
      BY <2>1, <3>1, <1>2, <1>3 DEF PublishedBefore, LoopTypeOK
  <2>2. CASE i \notin 1..Len(log[r])
    <3>1. r = R /\ i = Len(log[r]) + 1
      BY <2>2, <1>4
    <3>2. log'[r][i] = [from |-> c, num |-> sent[c]]
      BY <3>1, <1>4
    <3> QED
      BY <3>2, <1>2 DEF LoopTypeOK
  <2> QED
    BY <2>1, <2>2
<1>7. SortedBySender'
  <2> SUFFICES ASSUME NEW r \in Rooms, NEW i \in 1..Len(log'[r]), NEW j \in 1..Len(log'[r]),
                      i < j, log'[r][i].from = log'[r][j].from
               PROVE  log'[r][i].num < log'[r][j].num
    BY DEF SortedBySender
  <2>1. i \in 1..Len(log[r]) /\ log'[r][i] = log[r][i]
    BY <1>4
  <2>2. CASE j \in 1..Len(log[r])
    BY <2>1, <2>2, <1>3, <1>4 DEF SortedBySender
  <2>3. CASE j \notin 1..Len(log[r])
    <3>1. r = R /\ j = Len(log[r]) + 1
      BY <2>3, <1>4
    <3>2. log'[r][j] = [from |-> c, num |-> sent[c]]
      BY <3>1, <1>4
    <3> QED
      BY <2>1, <3>2, <1>2, <1>3 DEF PublishedBefore
  <2> QED
    BY <2>2, <2>3
<1> QED
  BY <1>2, <1>3, <1>6, <1>7

\* A step that publishes nothing lets nobody read while publishing.
LEMMA QuietKeepsSenderInv ==
    ASSUME InboxTypeOK, LoopTypeOK, SenderInv,
           faults' = 0 => faults = 0 /\ log' = log /\ strays' = strays,
           faults' = 0 => \A c \in Conns :
              /\ sent'[c] = sent[c] \/ (reader[c] # "publishing" /\ sent'[c] = sent[c] + 1)
              /\ reader'[c] = "publishing" => reader[c] = "publishing" \/ sent'[c] = sent[c] + 1
    PROVE  SenderInv'
<1> SUFFICES ASSUME faults' = 0
             PROVE  strays' = {} /\ PublishedBefore' /\ SortedBySender'
  BY DEF SenderInv
<1>1. strays' = {} /\ SortedBySender' /\ PublishedBefore
  BY DEF SenderInv, SortedBySender
<1>2. \A r \in Rooms : \A i \in 1..Len(log[r]) : log[r][i].from \in Conns /\ log[r][i].num \in Nat
  BY EntryTypes
<1>3. \A c \in Conns : sent[c] \in Nat
  BY DEF InboxTypeOK
<1>4. PublishedBefore'
  <2> SUFFICES ASSUME NEW r \in Rooms, NEW i \in 1..Len(log[r])
               PROVE  /\ log[r][i].num <= sent'[log[r][i].from]
                      /\ reader'[log[r][i].from] = "publishing"
                            => log[r][i].num < sent'[log[r][i].from]
    BY DEF PublishedBefore
  <2> DEFINE c == log[r][i].from
             n == log[r][i].num
  <2>1. c \in Conns /\ n \in Nat /\ sent[c] \in Nat
    BY <1>2, <1>3
  <2>2. n <= sent[c] /\ (reader[c] = "publishing" => n < sent[c])
    BY <1>1 DEF PublishedBefore
  <2> HIDE DEF c, n
  <2>3. n <= sent'[c] /\ (reader'[c] = "publishing" => n < sent'[c])
    BY <2>1, <2>2
  <2> QED
    BY <2>3 DEF c, n
<1> QED
  BY <1>1, <1>4

\* Every step keeps the order of each sender, as long as no fault happened.
LEMMA StepKeepsSenderInv ==
    ASSUME InboxTypeOK, LoopTypeOK, SenderInv, [SysNext]_sysVars
    PROVE  SenderInv'
<1> DEFINE Quiet ==
      /\ faults' = 0 => faults = 0 /\ log' = log /\ strays' = strays
      /\ faults' = 0 => \A c \in Conns :
           /\ sent'[c] = sent[c] \/ (reader[c] # "publishing" /\ sent'[c] = sent[c] + 1)
           /\ reader'[c] = "publishing" => reader[c] = "publishing" \/ sent'[c] = sent[c] + 1
<1>1. Quiet => SenderInv'
  BY QuietKeepsSenderInv
<1>2. ASSUME Fault("peerDies") \/ Fault("peerStalls") \/ Fault("publishFails") \/ Fault("publishTimesOut")
             \/ Fault("redisLost") \/ Fault("crash")
      PROVE  SenderInv'
  <2>1. faults' # 0
    BY <1>2 DEF Fault, LoopTypeOK
  <2> QED
    BY <2>1 DEF SenderInv
<1>3. ASSUME NEW c \in Conns, Handler(c)
      PROVE  SenderInv'
  <2> USE DEF handlerVars, wireVars, LoopTypeOK, InboxTypeOK
  <2>1. CASE SysJoinExisting(c) \/ SysSubscribe(c)
    <3>1. StartLoops(c)
      BY <2>1 DEF SysJoinExisting, SysSubscribe
    <3> QED
      BY <1>1, <3>1 DEF StartLoops
  <2>2. CASE SysJoinNew(c)
    BY <1>1, <2>2 DEF SysJoinNew
  <2>3. CASE ReadMessage(c)
    BY <1>1, <2>3 DEF ReadMessage
  <2>4. CASE PublishExecuted(c)
    BY <2>4, PublishKeepsSenderInv
  <2>5. CASE PublishFails(c) \/ PublishTimesOut(c) \/ PeerDies(c)
    BY <1>2, <2>5 DEF PublishFails, PublishTimesOut, PeerDies
  <2>6. CASE ReadFails(c) \/ SysLeave(c) \/ SysCloseSend(c) \/ SysReturn(c)
    BY <1>1, <2>6 DEF ReadFails, SysLeave, SysCloseSend, SysReturn
  <2>7. CASE WriterTakes(c) \/ WriteSucceeds(c) \/ WriteFails(c) \/ WriterDone(c)
    BY <1>1, <1>2, <2>7 DEF WriterTakes, WriteSucceeds, WriteFails, WriterDone
  <2>8. CASE PingFails(c) \/ PeerLeaves(c)
    BY <1>1, <2>8 DEF PingFails, PeerLeaves
  <2> QED
    BY <1>3, <2>1, <2>2, <2>3, <2>4, <2>5, <2>6, <2>7, <2>8 DEF Handler
<1>4. ASSUME NEW o \in Conns, Subscription(o)
      PROVE  SenderInv'
  <2>1. CASE RedisLost(o)
    BY <1>2, <2>1 DEF RedisLost
  <2>2. CASE RedisSubscribes(o) \/ SysDeliver(o) \/ SysSubscriptionExit(o)
    BY <1>1, <2>2 DEF RedisSubscribes, SysDeliver, SysSubscriptionExit, handlerVars
  <2> QED
    BY <1>4, <2>1, <2>2 DEF Subscription
<1>5. ASSUME NEW m \in strays, StrayExecuted(m)
      PROVE  SenderInv'
  BY <1>5 DEF StrayExecuted, SenderInv
<1>6. ASSUME NEW p \in Pods, Crash(p)
      PROVE  SenderInv'
  BY <1>2, <1>6 DEF Crash
<1>7. CASE UNCHANGED sysVars
  BY <1>1, <1>7 DEF sysVars, wireVars, handlerVars
<1> QED
  BY <1>3, <1>4, <1>5, <1>6, <1>7 DEF SysNext

\* While no fault has happened, the messages of one sender are in the room in
\* the order they were typed, and none of them twice: a handler reads the next
\* message only when the previous one is published (handler.go:84-94).
THEOREM SystemSenderOrder ==
    ASSUME Payloads = Nat \ {0}
    PROVE  SysSpec => []SenderOrder
<1>1. SysInit => SenderInv
  BY DEF SysInit, SenderInv, PublishedBefore, SortedBySender
<1>2. InboxTypeOK /\ LoopTypeOK /\ SenderInv /\ [SysNext]_sysVars => SenderInv'
  BY StepKeepsSenderInv
<1>3. SenderInv => SenderOrder
  BY DEF SenderInv, SortedBySender, SenderOrder
<1> QED
  BY <1>1, <1>2, <1>3, InboxTypes, SystemLoopTypes, PTL DEF SysSpec
-----------------------------------------------------------------------------
(* Sequences of positions in a room's log *)

Positions == Nat \ {0}

Increasing(s) == \A i, j \in 1..Len(s) : i < j => s[i] < s[j]

Below(s, t) == \A i \in 1..Len(s), j \in 1..Len(t) : s[i] < t[j]

UpTo(s, n) == \A i \in 1..Len(s) : s[i] <= n

\* A later position may be appended.
LEMMA AppendOrder ==
    ASSUME NEW s \in Seq(Positions), NEW m \in Positions
    PROVE  /\ Append(s, m) \in Seq(Positions)
           /\ Increasing(s) /\ Below(s, <<m>>) => Increasing(Append(s, m))
           /\ \A t \in Seq(Positions) : Below(s, t) /\ Below(<<m>>, t) => Below(Append(s, m), t)
           /\ \A t \in Seq(Positions) : Below(t, s) /\ Below(t, <<m>>) => Below(t, Append(s, m))
           /\ \A n \in Nat : UpTo(s, n) /\ m <= n => UpTo(Append(s, m), n)
<1>1. /\ Append(s, m) \in Seq(Positions)
      /\ Len(Append(s, m)) = Len(s) + 1
      /\ \A i \in 1..Len(s) : Append(s, m)[i] = s[i]
      /\ Append(s, m)[Len(s) + 1] = m
  BY AppendProperties
<1>2. \A i \in 1..Len(s) + 1 : Append(s, m)[i] = IF i = Len(s) + 1 THEN m ELSE s[i]
  BY <1>1
<1>3. Len(<<m>>) = 1 /\ <<m>>[1] = m
  OBVIOUS
<1> HIDE DEF Positions
<1>4. Increasing(s) /\ Below(s, <<m>>) => Increasing(Append(s, m))
  BY <1>1, <1>2, <1>3 DEF Increasing, Below
<1>5. \A t \in Seq(Positions) : Below(s, t) /\ Below(<<m>>, t) => Below(Append(s, m), t)
  BY <1>1, <1>2, <1>3 DEF Below
<1>6. \A t \in Seq(Positions) : Below(t, s) /\ Below(t, <<m>>) => Below(t, Append(s, m))
  BY <1>1, <1>2, <1>3 DEF Below
<1>7. \A n \in Nat : UpTo(s, n) /\ m <= n => UpTo(Append(s, m), n)
  BY <1>1, <1>2 DEF UpTo
<1> QED
  BY <1>1, <1>4, <1>5, <1>6, <1>7

\* Taking the head leaves what came after it.
LEMMA TailOrder ==
    ASSUME NEW s \in Seq(Positions), s # <<>>
    PROVE  /\ Head(s) \in Positions /\ Tail(s) \in Seq(Positions)
           /\ Increasing(s) => Increasing(Tail(s)) /\ Below(<<Head(s)>>, Tail(s))
           /\ \A t \in Seq(Positions) : Below(s, t) => Below(Tail(s), t) /\ Below(<<Head(s)>>, t)
           /\ \A t \in Seq(Positions) : Below(t, s) => Below(t, Tail(s)) /\ Below(t, <<Head(s)>>)
           /\ \A n \in Nat : UpTo(s, n) => UpTo(Tail(s), n) /\ Head(s) <= n
  BY DEF Positions, Increasing, Below, UpTo

\* What is left of a sequence whose end is lost.
LEMMA PrefixOrder ==
    ASSUME NEW s \in Seq(Positions), NEW k \in 0..Len(s)
    PROVE  /\ SubSeq(s, 1, k) \in Seq(Positions)
           /\ Increasing(s) => Increasing(SubSeq(s, 1, k))
           /\ \A t \in Seq(Positions) : Below(t, s) => Below(t, SubSeq(s, 1, k))
           /\ \A n \in Nat : UpTo(s, n) => UpTo(SubSeq(s, 1, k), n)
  BY DEF Positions, Increasing, Below, UpTo

\* The empty sequence is in any order.
LEMMA EmptyOrder ==
    /\ <<>> \in Seq(Positions)
    /\ Increasing(<<>>)
    /\ \A t \in Seq(Positions) : Below(<<>>, t) /\ Below(t, <<>>)
    /\ \A n \in Nat : UpTo(<<>>, n)
  BY DEF Positions, Increasing, Below, UpTo

\* The next position of a log is after all of it.
LEMMA UpToOrder ==
    ASSUME NEW n \in Nat, NEW s \in Seq(Positions), UpTo(s, n)
    PROVE  UpTo(s, n + 1) /\ Below(s, <<n + 1>>)
  BY DEF Positions, Below, UpTo
-----------------------------------------------------------------------------
(* The users of a room see one sequence *)

\* The payload in the conn.Write of c, as a sequence.
Writing(c) == IF outgoing[c] = 0 THEN <<>> ELSE <<outgoing[c]>>

\* What c received, is sent, and has buffered: later positions come later, and
\* none is past the end of the room's log.
InOrder(c) ==
    /\ Increasing(got[c]) /\ Increasing(send[c])
    /\ Below(got[c], Writing(c)) /\ Below(got[c], send[c]) /\ Below(Writing(c), send[c])
    /\ UpTo(got[c], Len(log[RoomOf[c]]))
    /\ UpTo(Writing(c), Len(log[RoomOf[c]]))
    /\ UpTo(send[c], Len(log[RoomOf[c]]))

\* What was pushed to a room object and not yet broadcast.
PushedInOrder(o) == Increasing(inbox[o]) /\ UpTo(inbox[o], Len(log[RoomOf[o]]))

\* A member of a room object has seen only what came before its inbox.
BeforeInbox(c, o) ==
    Below(got[c], inbox[o]) /\ Below(Writing(c), inbox[o]) /\ Below(send[c], inbox[o])

\* A connection that has not joined has received nothing.
Unseen(c) == pc[c] = "new" => got[c] = <<>> /\ send[c] = <<>> /\ outgoing[c] = 0

OrderInv ==
    /\ \A c \in Conns : InOrder(c) /\ PushedInOrder(c) /\ Unseen(c)
    /\ \A o \in Conns : \A c \in clients[o] : BeforeInbox(c, o)

\* What the buffers of a connection hold are positions.
LEMMA SeenTypes ==
    ASSUME HubInv, InboxTypeOK, LoopTypeOK, Payloads = Nat \ {0}
    PROVE  \A c \in Conns :
             /\ got[c] \in Seq(Positions) /\ Writing(c) \in Seq(Positions)
             /\ send[c] \in Seq(Positions) /\ inbox[c] \in Seq(Positions)
             /\ Len(log[RoomOf[c]]) \in Nat
<1> SUFFICES ASSUME NEW c \in Conns
             PROVE  /\ got[c] \in Seq(Positions) /\ Writing(c) \in Seq(Positions)
                    /\ send[c] \in Seq(Positions) /\ inbox[c] \in Seq(Positions)
                    /\ Len(log[RoomOf[c]]) \in Nat
  OBVIOUS
<1>1. got[c] \in Seq(Positions) /\ inbox[c] \in Seq(Positions)
  BY DEF Positions, LoopTypeOK, InboxTypeOK
<1>2. send[c] \in Seq(Positions)
  BY DEF Positions, HubInv, HubTypeOK
<1>3. outgoing[c] # 0 => outgoing[c] \in Positions
  BY DEF Positions, LoopTypeOK
<1>4. Writing(c) \in Seq(Positions)
  BY <1>3, EmptyOrder DEF Writing
<1>5. RoomOf[c] \in Rooms
  BY HubAssumption
<1>6. log[RoomOf[c]] \in Seq([from : Conns, num : Nat])
  BY <1>5 DEF InboxTypeOK
<1> QED
  BY <1>1, <1>2, <1>4, <1>6, LenProperties

\* A step that moves no message: those who join have received nothing yet.
LEMMA QuietKeepsOrder ==
    ASSUME HubInv, InboxTypeOK, LoopTypeOK, Payloads = Nat \ {0}, OrderInv,
           UNCHANGED <<log, inbox, got, outgoing, send>>,
           \A o \in Conns : \A c \in clients'[o] : c \in Conns /\ (c \in clients[o] \/ pc[c] = "new"),
           \A c \in Conns : pc'[c] = "new" => pc[c] = "new"
    PROVE  OrderInv'
<1>1. \A c \in Conns : InOrder(c)' /\ PushedInOrder(c)' /\ Unseen(c)'
  BY DEF OrderInv, InOrder, PushedInOrder, Unseen, Writing
<1>2. ASSUME NEW o \in Conns, NEW c \in clients'[o]
      PROVE  BeforeInbox(c, o)'
  <2>1. CASE c \in clients[o]
    BY <2>1 DEF OrderInv, BeforeInbox, Writing
  <2>2. CASE pc[c] = "new"
    <3>1. got[c] = <<>> /\ send[c] = <<>> /\ Writing(c) = <<>>
      BY <2>2 DEF OrderInv, Unseen, Writing
    <3>2. BeforeInbox(c, o)
      BY <3>1, EmptyOrder, SeenTypes DEF BeforeInbox
    <3> QED
      BY <3>2 DEF BeforeInbox, Writing
  <2> QED
    BY <2>1, <2>2
<1> QED
  BY <1>1, <1>2 DEF OrderInv

\* Redis executes a command: the new position is after everything seen.
LEMMA ExecuteKeepsOrder ==
    ASSUME HubInv, InboxTypeOK, LoopTypeOK, Payloads = Nat \ {0}, OrderInv,
           NEW c \in Conns, NEW n \in Nat, Execute(c, n),
           UNCHANGED <<got, outgoing, send, clients, pc>>
    PROVE  OrderInv'
<1> DEFINE L == Len(log[RoomOf[c]])
<1>1. L \in Nat /\ L + 1 \in Positions
  BY SeenTypes DEF Positions
<1>2. \A d \in Conns : /\ Len(log[RoomOf[d]]) \in Nat
                       /\ Len(log'[RoomOf[d]]) = IF RoomOf[d] = RoomOf[c] THEN L + 1
                                                 ELSE Len(log[RoomOf[d]])
  BY ExecuteLength, SeenTypes
<1>3. \A o \in Conns : inbox'[o] = inbox[o] \/ (RoomOf[o] = RoomOf[c] /\ inbox'[o] = Append(inbox[o], L + 1))
  BY DEF Execute
<1> HIDE DEF L
<1>4. \A d \in Conns, s \in Seq(Positions) :
         UpTo(s, Len(log[RoomOf[d]])) =>
            /\ UpTo(s, Len(log'[RoomOf[d]]))
            /\ RoomOf[d] = RoomOf[c] => Below(s, <<L + 1>>)
  BY <1>2, UpToOrder DEF L
<1>5. \A d \in Conns : InOrder(d)'
  BY <1>4, SeenTypes DEF OrderInv, InOrder, Writing
<1>6. ASSUME NEW o \in Conns
      PROVE  PushedInOrder(o)'
  <2>1. inbox[o] \in Seq(Positions) /\ Increasing(inbox[o]) /\ UpTo(inbox[o], Len(log[RoomOf[o]]))
    BY SeenTypes DEF OrderInv, PushedInOrder
  <2>2. CASE inbox'[o] = inbox[o]
    BY <2>1, <2>2, <1>4 DEF PushedInOrder
  <2>3. CASE RoomOf[o] = RoomOf[c] /\ inbox'[o] = Append(inbox[o], L + 1)
    <3>1. Increasing(inbox'[o])
      BY <2>1, <2>3, <1>1, <1>4, AppendOrder
    <3>2. L + 1 \in Nat /\ L + 1 <= L + 1 /\ UpTo(inbox[o], L + 1)
      BY <2>1, <2>3, <1>1, <1>2, <1>4
    <3>3. UpTo(inbox'[o], L + 1)
      BY <2>1, <2>3, <3>2, <1>1, AppendOrder
    <3> QED
      BY <2>3, <3>1, <3>3, <1>2 DEF PushedInOrder
  <2> QED
    BY <2>2, <2>3, <1>3
<1>7. ASSUME NEW o \in Conns, NEW d \in clients[o]
      PROVE  BeforeInbox(d, o)'
  <2>1. d \in Conns /\ RoomOf[d] = RoomOf[o]
    BY DEF HubInv, HubTypeOK, Members, Key
  <2>2. BeforeInbox(d, o) /\ InOrder(d)
    BY <2>1 DEF OrderInv
  <2>3. CASE inbox'[o] = inbox[o]
    BY <2>2, <2>3 DEF BeforeInbox, Writing
  <2>4. CASE RoomOf[o] = RoomOf[c] /\ inbox'[o] = Append(inbox[o], L + 1)
    <3>1. \A s \in {got[d], Writing(d), send[d]} : s \in Seq(Positions) /\ Below(s, <<L + 1>>)
      BY <2>1, <2>2, <2>4, <1>4, SeenTypes DEF InOrder
    <3>2. \A s \in {got[d], Writing(d), send[d]} : Below(s, inbox'[o])
      BY <2>2, <2>4, <3>1, <1>1, SeenTypes, AppendOrder DEF BeforeInbox
    <3> QED
      BY <3>2 DEF BeforeInbox, Writing
  <2> QED
    BY <2>3, <2>4, <1>3
<1>8. \A d \in Conns : Unseen(d)'
  BY DEF OrderInv, Unseen
<1> QED
  BY <1>5, <1>6, <1>7, <1>8 DEF OrderInv

\* A step of one connection that moves a message within its own buffers.
LEMMA MoveKeepsOrder ==
    ASSUME HubInv, OrderInv, NEW c \in Conns,
           UNCHANGED <<log, inbox, clients, pc>>,
           \A d \in Conns \ {c} : got'[d] = got[d] /\ send'[d] = send[d] /\ outgoing'[d] = outgoing[d],
           InOrder(c)', Unseen(c)',
           \A o \in Conns : c \in clients[o] => BeforeInbox(c, o)'
    PROVE  OrderInv'
<1>1. \A d \in Conns \ {c} : InOrder(d)' /\ Unseen(d)'
  BY DEF OrderInv, InOrder, Unseen, Writing
<1>2. \A o \in Conns : PushedInOrder(o)'
  BY DEF OrderInv, PushedInOrder
<1>3. ASSUME NEW o \in Conns, NEW d \in clients[o], d # c
      PROVE  BeforeInbox(d, o)'
  <2>1. d \in Conns
    BY DEF HubInv, HubTypeOK
  <2> QED
    BY <1>3, <2>1 DEF OrderInv, BeforeInbox, Writing
<1> QED
  BY <1>1, <1>2, <1>3 DEF OrderInv

\* The writer moves a payload from the channel to the user, or drops it.
LEMMA WriterKeepsOrder ==
    ASSUME HubInv, InboxTypeOK, LoopTypeOK, Payloads = Nat \ {0}, OrderInv, NEW c \in Conns,
           WriterTakes(c) \/ WriteSucceeds(c) \/ WriteFails(c)
    PROVE  OrderInv'
<1> DEFINE N == Len(log[RoomOf[c]])
<1>1. /\ got[c] \in Seq(Positions) /\ Writing(c) \in Seq(Positions)
      /\ send[c] \in Seq(Positions) /\ N \in Nat /\ \A o \in Conns : inbox[o] \in Seq(Positions)
  BY SeenTypes
<1>2. InOrder(c) /\ Unseen(c) /\ \A o \in Conns : c \in clients[o] => BeforeInbox(c, o)
  BY DEF OrderInv
<1>3. CASE WriterTakes(c)
  <2>1. /\ outgoing[c] = 0 /\ send[c] # <<>>
        /\ outgoing' = [outgoing EXCEPT ![c] = Head(send[c])]
        /\ send' = [send EXCEPT ![c] = Tail(send[c])]
        /\ UNCHANGED <<log, inbox, clients, pc, got>>
    BY <1>3 DEF WriterTakes, WriterReceive, wireVars
  <2>2. send'[c] = Tail(send[c]) /\ outgoing'[c] = Head(send[c])
    BY <2>1 DEF HubInv, HubTypeOK, LoopTypeOK
  <2>3. Head(send[c]) # 0
    BY <2>1, <1>1, TailOrder DEF Positions
  <2>4. Writing(c)' = <<Head(send[c])>>
    BY <2>2, <2>3 DEF Writing
  <2>8. UpTo(<<Head(send[c])>>, N)
    BY <2>1, <1>1, <1>2, TailOrder DEF InOrder, UpTo
  <2>5. InOrder(c)'
    BY <2>1, <2>2, <2>4, <2>8, <1>1, <1>2, TailOrder DEF InOrder
  <2>6. \A o \in Conns : c \in clients[o] => BeforeInbox(c, o)'
    BY <2>1, <2>2, <2>4, <1>1, <1>2, TailOrder DEF BeforeInbox
  <2>7. Unseen(c)'
    BY <2>1, <1>2 DEF Unseen
  <2> QED
    BY <2>1, <2>5, <2>6, <2>7, MoveKeepsOrder DEF HubInv, HubTypeOK, LoopTypeOK
<1>4. CASE WriteSucceeds(c) /\ peer[c] = "here"
  <2>1. /\ outgoing[c] # 0
        /\ outgoing' = [outgoing EXCEPT ![c] = 0]
        /\ got' = [got EXCEPT ![c] = Append(got[c], outgoing[c])]
        /\ UNCHANGED <<log, inbox, clients, pc, send>>
    BY <1>4 DEF WriteSucceeds, wireVars, hubVars
  <2>2. got'[c] = Append(got[c], outgoing[c]) /\ outgoing'[c] = 0 /\ outgoing[c] \in Positions
    BY <2>1 DEF LoopTypeOK, Positions
  <2>3. Writing(c) = <<outgoing[c]>> /\ Writing(c)' = <<>>
    BY <2>1, <2>2 DEF Writing
  <2>7. outgoing[c] <= N
    BY <2>3, <1>2 DEF InOrder, UpTo
  <2>8. /\ Increasing(got'[c]) /\ UpTo(got'[c], N) /\ Below(got'[c], send[c])
    BY <2>2, <2>3, <2>7, <1>1, <1>2, AppendOrder DEF InOrder
  <2>4. InOrder(c)'
    BY <2>1, <2>2, <2>3, <2>8, <1>1, <1>2, AppendOrder, EmptyOrder DEF InOrder
  <2>5. \A o \in Conns : c \in clients[o] => BeforeInbox(c, o)'
    BY <2>1, <2>2, <2>3, <1>1, <1>2, AppendOrder, EmptyOrder DEF BeforeInbox
  <2>6. Unseen(c)'
    BY <2>1, <1>2 DEF Unseen
  <2> QED
    BY <2>1, <2>4, <2>5, <2>6, MoveKeepsOrder DEF HubInv, HubTypeOK, LoopTypeOK
<1>5. CASE (WriteSucceeds(c) /\ peer[c] # "here") \/ WriteFails(c)
  <2>1. /\ outgoing' = [outgoing EXCEPT ![c] = 0]
        /\ UNCHANGED <<log, inbox, clients, pc, send, got>>
    BY <1>5 DEF WriteSucceeds, WriteFails, wireVars, hubVars
  <2>2. Writing(c)' = <<>> /\ outgoing'[c] = 0
    BY <2>1 DEF Writing, LoopTypeOK
  <2>3. InOrder(c)'
    BY <2>1, <2>2, <1>1, <1>2, EmptyOrder DEF InOrder
  <2>4. \A o \in Conns : c \in clients[o] => BeforeInbox(c, o)'
    BY <2>1, <2>2, <1>1, <1>2, EmptyOrder DEF BeforeInbox
  <2>5. Unseen(c)'
    BY <2>1, <2>2, <1>2 DEF Unseen
  <2> QED
    BY <2>1, <2>3, <2>4, <2>5, MoveKeepsOrder DEF LoopTypeOK
<1> QED
  BY <1>3, <1>4, <1>5

\* A client is a member of one room object only.
LEMMA OneObjectPerClient ==
    ASSUME HubInv, NEW o \in Conns, NEW q \in Conns, NEW c \in clients[o], c \in clients[q]
    PROVE  o = q
<1>1. c \in Conns
  BY DEF HubInv, HubTypeOK
<1>2. Key(o) = Key(q) /\ RoomAt(o) = o /\ RoomAt(q) = q
  BY <1>1 DEF HubInv, Members
<1> QED
  BY <1>2 DEF RoomAt

\* The goroutine of a room object hands its next message to the members.
LEMMA DeliverKeepsOrder ==
    ASSUME HubInv, InboxTypeOK, LoopTypeOK, Payloads = Nat \ {0}, OrderInv,
           NEW o \in Conns, SysDeliver(o)
    PROVE  OrderInv'
<1> DEFINE m == Head(inbox[o])
<1>1. /\ inbox[o] # <<>>
      /\ inbox' = [inbox EXCEPT ![o] = Tail(inbox[o])]
      /\ send' = [c \in Conns |-> IF c \in clients[o] THEN Offer(send[c], m) ELSE send[c]]
      /\ UNCHANGED <<log, got, outgoing, clients, pc>>
  BY DEF SysDeliver, Deliver, BroadcastLocalRoom, handlerVars
<1>2. \A c \in Conns : /\ got[c] \in Seq(Positions) /\ Writing(c) \in Seq(Positions)
                       /\ send[c] \in Seq(Positions) /\ inbox[c] \in Seq(Positions)
                       /\ Len(log[RoomOf[c]]) \in Nat
  BY SeenTypes
<1>3. /\ m \in Positions /\ Tail(inbox[o]) \in Seq(Positions)
      /\ Increasing(inbox[o]) => Increasing(Tail(inbox[o])) /\ Below(<<m>>, Tail(inbox[o]))
      /\ \A t \in Seq(Positions) : Below(t, inbox[o]) => Below(t, Tail(inbox[o])) /\ Below(t, <<m>>)
      /\ \A n \in Nat : UpTo(inbox[o], n) => UpTo(Tail(inbox[o]), n) /\ m <= n
  BY <1>1, <1>2, TailOrder
<1>4. inbox'[o] = Tail(inbox[o]) /\ \A q \in Conns \ {o} : inbox'[q] = inbox[q]
  BY <1>1 DEF InboxTypeOK
<1> HIDE DEF m
<1>5. \A q \in Conns : PushedInOrder(q)'
  BY <1>1, <1>2, <1>3, <1>4 DEF OrderInv, PushedInOrder
<1>6. ASSUME NEW c \in Conns, c \in clients[o]
      PROVE  /\ InOrder(c)' /\ BeforeInbox(c, o)' /\ pc[c] # "new"
             /\ \A q \in Conns : c \in clients[q] => q = o
  <2>1. RoomOf[c] = RoomOf[o] /\ pc[c] # "new"
    BY <1>6 DEF HubInv, Members, Key, InRoom
  <2>2. InOrder(c) /\ BeforeInbox(c, o) /\ PushedInOrder(o)
    BY <1>6 DEF OrderInv
  <2>3. m <= Len(log[RoomOf[c]]) /\ Below(<<m>>, inbox'[o])
    BY <2>1, <2>2, <1>2, <1>3, <1>4 DEF PushedInOrder
  <2>4. Below(got[c], <<m>>) /\ Below(Writing(c), <<m>>) /\ Below(send[c], <<m>>)
    BY <2>2, <1>2, <1>3 DEF BeforeInbox
  <2>5. Below(got[c], inbox'[o]) /\ Below(Writing(c), inbox'[o]) /\ Below(send[c], inbox'[o])
    BY <2>2, <1>2, <1>3, <1>4 DEF BeforeInbox
  <2>6. send'[c] = Append(send[c], m) \/ send'[c] = send[c]
    BY <1>1, <1>6 DEF Offer
  <2>7. CASE send'[c] = send[c]
    BY <2>2, <2>5, <2>7, <1>1, <2>1, OneObjectPerClient, <1>6
       DEF InOrder, BeforeInbox, Writing
  <2>8. CASE send'[c] = Append(send[c], m)
    <3>1. /\ Increasing(send'[c]) /\ Below(got[c], send'[c]) /\ Below(Writing(c), send'[c])
          /\ UpTo(send'[c], Len(log[RoomOf[c]]))
          /\ Below(send'[c], inbox'[o])
      BY <2>2, <2>3, <2>4, <2>5, <2>8, <1>2, <1>3, <1>4, AppendOrder DEF InOrder
    <3> QED
      BY <2>2, <2>5, <3>1, <1>1, <2>1, OneObjectPerClient, <1>6
         DEF InOrder, BeforeInbox, Writing
  <2> QED
    BY <2>6, <2>7, <2>8
<1>7. ASSUME NEW c \in Conns, c \notin clients[o]
      PROVE  InOrder(c)' /\ \A q \in Conns : c \in clients[q] => BeforeInbox(c, q)'
  <2>1. send'[c] = send[c]
    BY <1>1, <1>7
  <2>2. \A q \in Conns : c \in clients[q] => inbox'[q] = inbox[q]
    BY <1>4, <1>7
  <2> QED
    BY <2>1, <2>2, <1>1 DEF OrderInv, InOrder, BeforeInbox, Writing
<1>8. \A c \in Conns : Unseen(c)'
  BY <1>1, <1>6 DEF OrderInv, Unseen
<1>9. \A c \in Conns : InOrder(c)'
  BY <1>6, <1>7
<1>10. \A q \in Conns : \A c \in clients'[q] : BeforeInbox(c, q)'
  <2>1. \A q \in Conns : clients[q] \subseteq Conns
    BY DEF HubInv, HubTypeOK
  <2> QED
    BY <2>1, <1>1, <1>6, <1>7
<1> QED
  BY <1>5, <1>8, <1>9, <1>10 DEF OrderInv

\* What Redis pushed is lost, from some point on.
LEMMA LossKeepsOrder ==
    ASSUME HubInv, InboxTypeOK, LoopTypeOK, Payloads = Nat \ {0}, OrderInv,
           NEW o \in Conns, NEW n \in 0..Len(inbox[o]),
           inbox' = [inbox EXCEPT ![o] = SubSeq(inbox[o], 1, n)],
           UNCHANGED <<log, got, outgoing, send, clients, pc>>
    PROVE  OrderInv'
<1>1. \A c \in Conns : /\ got[c] \in Seq(Positions) /\ Writing(c) \in Seq(Positions)
                       /\ send[c] \in Seq(Positions) /\ inbox[c] \in Seq(Positions)
                       /\ Len(log[RoomOf[c]]) \in Nat
  BY SeenTypes
<1>2. inbox'[o] = SubSeq(inbox[o], 1, n) /\ \A q \in Conns \ {o} : inbox'[q] = inbox[q]
  BY DEF InboxTypeOK
<1>3. \A q \in Conns : PushedInOrder(q)'
  BY <1>1, <1>2, PrefixOrder DEF OrderInv, PushedInOrder
<1>4. \A q \in Conns : \A c \in clients'[q] : BeforeInbox(c, q)'
  <2> SUFFICES ASSUME NEW q \in Conns, NEW c \in clients[q]
               PROVE  BeforeInbox(c, q)'
    OBVIOUS
  <2>1. c \in Conns /\ BeforeInbox(c, q)
    BY DEF HubInv, HubTypeOK, OrderInv
  <2>2. \A t \in Seq(Positions) : Below(t, inbox[q]) => Below(t, inbox'[q])
    BY <1>1, <1>2, PrefixOrder
  <2> QED
    BY <2>1, <2>2, <1>1 DEF BeforeInbox, Writing
<1>5. \A c \in Conns : InOrder(c)' /\ Unseen(c)'
  BY DEF OrderInv, InOrder, Unseen, Writing
<1> QED
  BY <1>3, <1>4, <1>5 DEF OrderInv

\* A crash empties buffers and inboxes.
LEMMA CrashKeepsOrder ==
    ASSUME HubInv, InboxTypeOK, LoopTypeOK, Payloads = Nat \ {0}, OrderInv,
           NEW p \in Pods, Crash(p)
    PROVE  OrderInv'
<1> DEFINE lost(c) == PodOf[c] = p /\ pc[c] # "new"
<1>1. /\ inbox' = [c \in Conns |-> IF lost(c) THEN <<>> ELSE inbox[c]]
      /\ outgoing' = [c \in Conns |-> IF lost(c) THEN 0 ELSE outgoing[c]]
      /\ send' = [c \in Conns |-> IF lost(c) THEN <<>> ELSE send[c]]
      /\ clients' = [c \in Conns |-> IF lost(c) THEN {} ELSE clients[c]]
      /\ pc' = [c \in Conns |-> IF lost(c) THEN "returned" ELSE pc[c]]
      /\ log' = log /\ got' = got
  BY DEF Crash, PodCrash
<1>2. \A c \in Conns : /\ got[c] \in Seq(Positions) /\ Writing(c) \in Seq(Positions)
                       /\ send[c] \in Seq(Positions) /\ inbox[c] \in Seq(Positions)
                       /\ Len(log[RoomOf[c]]) \in Nat
  BY SeenTypes
<1>3. \A c \in Conns : /\ inbox'[c] = <<>> \/ inbox'[c] = inbox[c]
                       /\ send'[c] = <<>> \/ send'[c] = send[c]
                       /\ Writing(c)' = <<>> \/ Writing(c)' = Writing(c)
                       /\ clients'[c] \subseteq clients[c]
  BY <1>1 DEF Writing
<1>4. \A c \in Conns : InOrder(c)' /\ PushedInOrder(c)'
  BY <1>1, <1>2, <1>3, EmptyOrder DEF OrderInv, InOrder, PushedInOrder
<1>5. \A o \in Conns : \A c \in clients'[o] : BeforeInbox(c, o)'
  <2>1. \A o \in Conns : clients'[o] \subseteq clients[o] /\ clients[o] \subseteq Conns
    BY <1>3 DEF HubInv, HubTypeOK
  <2> QED
    BY <2>1, <1>1, <1>2, <1>3, EmptyOrder DEF OrderInv, BeforeInbox
<1>6. \A c \in Conns : Unseen(c)'
  BY <1>1 DEF OrderInv, Unseen
<1> QED
  BY <1>4, <1>5, <1>6 DEF OrderInv

\* No step of a handler reorders what its user sees.
LEMMA HandlerKeepsOrder ==
    ASSUME HubInv, InboxTypeOK, LoopTypeOK, Payloads = Nat \ {0}, OrderInv,
           NEW c \in Conns, Handler(c)
    PROVE  OrderInv'
<1> DEFINE Quiet ==
      /\ UNCHANGED <<log, inbox, got, outgoing, send>>
      /\ \A o \in Conns : \A d \in clients'[o] : d \in Conns /\ (d \in clients[o] \/ pc[d] = "new")
      /\ \A d \in Conns : pc'[d] = "new" => pc[d] = "new"
<1>1. Quiet => OrderInv'
  BY QuietKeepsOrder
<1>2. /\ pc \in [Conns -> {"new", "subscribing", "joined", "left", "closed", "returned"}]
      /\ clients \in [Conns -> SUBSET Conns]
  BY DEF HubInv, HubTypeOK
<1> USE DEF wireVars, handlerVars
<1>3. CASE SysJoinExisting(c)
  BY <1>1, <1>2, <1>3 DEF SysJoinExisting, StartLoops, JoinExisting
<1>4. CASE SysJoinNew(c)
  BY <1>1, <1>2, <1>4 DEF SysJoinNew, JoinNew, CreateRoom
<1>5. CASE SysSubscribe(c)
  BY <1>1, <1>2, <1>5 DEF SysSubscribe, StartLoops, Subscribe
<1>6. CASE ReadMessage(c) \/ PublishFails(c) \/ PublishTimesOut(c)
  BY <1>1, <1>2, <1>6 DEF ReadMessage, PublishFails, PublishTimesOut, BackToReading, hubVars
<1>7. CASE PublishExecuted(c)
  <2>1. sent[c] \in Nat /\ UNCHANGED <<got, outgoing, send, clients, pc>> /\ Execute(c, sent[c])
    BY <1>7 DEF PublishExecuted, BackToReading, hubVars, InboxTypeOK
  <2> QED
    BY <2>1, ExecuteKeepsOrder
<1>8. CASE ReadFails(c) \/ WriterDone(c) \/ PingFails(c) \/ PeerLeaves(c) \/ PeerDies(c)
  BY <1>1, <1>2, <1>8 DEF ReadFails, WriterDone, PingFails, PeerLeaves, PeerDies, hubVars
<1>9. CASE SysLeave(c)
  BY <1>1, <1>2, <1>9 DEF SysLeave, Leave
<1>10. CASE SysCloseSend(c) \/ SysReturn(c)
  BY <1>1, <1>2, <1>10 DEF SysCloseSend, CloseSend, SysReturn, Return
<1>11. CASE WriterTakes(c) \/ WriteSucceeds(c) \/ WriteFails(c)
  BY <1>11, WriterKeepsOrder
<1> QED
  BY <1>3, <1>4, <1>5, <1>6, <1>7, <1>8, <1>9, <1>10, <1>11 DEF Handler

\* Nor does any step of Redis, of a listening goroutine, or a crash.
LEMMA OthersKeepOrder ==
    ASSUME HubInv, InboxTypeOK, LoopTypeOK, Payloads = Nat \ {0}, OrderInv,
           [SysNext]_sysVars, \A c \in Conns : ~Handler(c)
    PROVE  OrderInv'
<1>1. ASSUME NEW o \in Conns, Subscription(o)
      PROVE  OrderInv'
  <2>1. CASE RedisSubscribes(o)
    BY <2>1, QuietKeepsOrder DEF RedisSubscribes, handlerVars, hubVars, HubInv, HubTypeOK
  <2>2. CASE RedisLost(o)
    <3>1. UNCHANGED <<log, got, outgoing, send, clients, pc>>
      BY <2>2 DEF RedisLost, handlerVars, hubVars
    <3>2. PICK n \in 0..Len(inbox[o]) : inbox' = [inbox EXCEPT ![o] = SubSeq(inbox[o], 1, n)]
      BY <2>2 DEF RedisLost
    <3> QED
      BY <3>1, <3>2, LossKeepsOrder
  <2>3. CASE SysDeliver(o)
    BY <2>3, DeliverKeepsOrder
  <2>4. CASE SysSubscriptionExit(o)
    <3>1. /\ UNCHANGED <<log, got, outgoing, send, clients, pc>>
          /\ inbox' = [inbox EXCEPT ![o] = <<>>]
      BY <2>4 DEF SysSubscriptionExit, SubscriptionExit, handlerVars
    <3>2. 0 \in 0..Len(inbox[o]) /\ SubSeq(inbox[o], 1, 0) = <<>>
      BY DEF InboxTypeOK
    <3>3. inbox' = [inbox EXCEPT ![o] = SubSeq(inbox[o], 1, 0)]
      BY <3>1, <3>2
    <3> QED
      BY <3>1, <3>2, <3>3, LossKeepsOrder
  <2> QED
    BY <1>1, <2>1, <2>2, <2>3, <2>4 DEF Subscription
<1>2. ASSUME NEW m \in strays, StrayExecuted(m)
      PROVE  OrderInv'
  <2>1. m.from \in Conns /\ m.num \in Nat
    BY DEF InboxTypeOK
  <2>2. UNCHANGED <<got, outgoing, send, clients, pc>> /\ Execute(m.from, m.num)
    BY <1>2 DEF StrayExecuted, handlerVars, hubVars
  <2> QED
    BY <2>1, <2>2, ExecuteKeepsOrder
<1>3. ASSUME NEW p \in Pods, Crash(p)
      PROVE  OrderInv'
  BY <1>3, CrashKeepsOrder
<1>4. CASE UNCHANGED sysVars
  BY <1>4, QuietKeepsOrder DEF sysVars, wireVars, handlerVars, hubVars, HubInv, HubTypeOK
<1> QED
  BY <1>1, <1>2, <1>3, <1>4 DEF SysNext

\* Buffers, inboxes and users are in the order of their rooms at any time.
LEMMA SystemOrder ==
    ASSUME Payloads = Nat \ {0}
    PROVE  SysSpec => []OrderInv
<1>1. SysInit => OrderInv
  <2> SUFFICES ASSUME SysInit
               PROVE  OrderInv
    OBVIOUS
  <2>1. \A c \in Conns : /\ got[c] = <<>> /\ send[c] = <<>> /\ inbox[c] = <<>> /\ clients[c] = {}
                         /\ outgoing[c] = 0 /\ Writing(c) = <<>> /\ Len(log[RoomOf[c]]) = 0
    BY HubAssumption DEF SysInit, HubInit, Writing
  <2> QED
    BY <2>1, EmptyOrder DEF OrderInv, InOrder, PushedInOrder, Unseen
<1>2. HubInv /\ InboxTypeOK /\ LoopTypeOK /\ OrderInv /\ [SysNext]_sysVars => OrderInv'
  BY HandlerKeepsOrder, OthersKeepOrder
<1> QED
  BY <1>1, <1>2, SystemHubInvariant, InboxTypes, SystemLoopTypes, PTL DEF SysSpec

\* The room as its users see it: who said each message.
Senders(s) == [i \in 1..Len(s) |-> s[i].from]

\* One more message in the log is one more sender.
LEMMA SendersAppend ==
    ASSUME NEW s \in Seq([from : Conns, num : Nat]), NEW m \in [from : Conns, num : Nat]
    PROVE  Senders(Append(s, m)) = Append(Senders(s), m.from)
<1>1. /\ Append(s, m) \in Seq([from : Conns, num : Nat])
      /\ Len(Append(s, m)) = Len(s) + 1 /\ Len(s) \in Nat
      /\ \A i \in 1..Len(s) : Append(s, m)[i] = s[i]
      /\ Append(s, m)[Len(s) + 1] = m
  BY AppendProperties
<1>2. \A i \in 1..Len(s) : s[i].from \in Conns
  <2>1. \A i \in 1..Len(s) : s[i] \in [from : Conns, num : Nat]
    BY ElementOfSeq
  <2> QED
    BY <2>1
<1>3. Senders(s) \in Seq(Conns) /\ Len(Senders(s)) = Len(s)
  BY <1>1, <1>2 DEF Senders
<1>4. m.from \in Conns
  OBVIOUS
<1>5. /\ Append(Senders(s), m.from) \in Seq(Conns)
      /\ Len(Append(Senders(s), m.from)) = Len(s) + 1
      /\ \A i \in 1..Len(s) : Append(Senders(s), m.from)[i] = Senders(s)[i]
      /\ Append(Senders(s), m.from)[Len(s) + 1] = m.from
  BY <1>3, <1>4, AppendProperties
<1>6. Senders(Append(s, m)) \in Seq(Conns) /\ Len(Senders(Append(s, m))) = Len(s) + 1
  <2>1. \A i \in 1..Len(s) + 1 : Append(s, m)[i].from \in Conns
    BY <1>1, <1>2, <1>4
  <2> QED
    BY <1>1, <2>1 DEF Senders
<1>7. \A i \in 1..Len(s) + 1 : Senders(Append(s, m))[i] = Append(Senders(s), m.from)[i]
  BY <1>1, <1>5 DEF Senders
<1> QED
  BY <1>1, <1>5, <1>6, <1>7, SeqEqual

RoomLog == [r \in Rooms |-> Senders(log[r])]

\* A command that Redis executes is a message posted in the room.
LEMMA ExecuteIsPost ==
    ASSUME InboxTypeOK, NEW c \in Conns, NEW n \in Nat, Execute(c, n), got' = got
    PROVE  Room!Post(c)
<1> DEFINE m == [from |-> c, num |-> n]
<1>1. RoomOf[c] \in Rooms /\ m \in [from : Conns, num : Nat]
  BY HubAssumption
<1>2. log' = [log EXCEPT ![RoomOf[c]] = Append(log[RoomOf[c]], m)]
  BY DEF Execute
<1>3. log[RoomOf[c]] \in Seq([from : Conns, num : Nat])
  BY <1>1 DEF InboxTypeOK
<1>4. Senders(Append(log[RoomOf[c]], m)) = Append(Senders(log[RoomOf[c]]), c)
  BY <1>1, <1>3, SendersAppend
<1>5. RoomLog' = [RoomLog EXCEPT ![RoomOf[c]] = Append(RoomLog[RoomOf[c]], c)]
  BY <1>1, <1>2, <1>4 DEF RoomLog, InboxTypeOK
<1> QED
  BY <1>5 DEF Room!Post, RoomLog, Senders

\* A payload that reaches the user is a later message of the room.
LEMMA WriteIsSee ==
    ASSUME HubInv, InboxTypeOK, LoopTypeOK, Payloads = Nat \ {0}, OrderInv,
           NEW c \in Conns, WriteSucceeds(c), peer[c] = "here"
    PROVE  Room!See(c)
<1> DEFINE i == outgoing[c]
<1>1. /\ i # 0 /\ log' = log
      /\ got' = [got EXCEPT ![c] = Append(got[c], i)]
  BY DEF WriteSucceeds, wireVars
<1>2. /\ got[c] \in Seq(Positions) /\ i \in Nat /\ Writing(c) = <<i>>
  BY <1>1, SeenTypes DEF Writing, LoopTypeOK
<1>3. InOrder(c)
  BY DEF OrderInv
<1>4. RoomOf[c] \in Rooms /\ Len(log[RoomOf[c]]) \in Nat
  BY HubAssumption, SeenTypes
<1>5. i \in 1..Len(log[RoomOf[c]])
  BY <1>1, <1>2, <1>3, <1>4 DEF InOrder, UpTo
<1>6. got[c] = <<>> \/ i > got[c][Len(got[c])]
  <2>1. CASE Len(got[c]) > 0
    <3>1. Len(got[c]) \in 1..Len(got[c]) /\ got[c][Len(got[c])] \in Nat
      BY <1>2, <2>1 DEF Positions
    <3>2. got[c][Len(got[c])] < i
      BY <1>2, <1>3, <3>1 DEF InOrder, Below
    <3> QED
      BY <1>2, <3>1, <3>2
  <2>2. CASE ~(Len(got[c]) > 0)
    BY <1>2, <2>2, EmptySeq
  <2> QED
    BY <2>1, <2>2
<1>7. Len(RoomLog[RoomOf[c]]) = Len(log[RoomOf[c]])
  BY <1>4 DEF RoomLog, Senders
<1>8. /\ i \in 1..Len(RoomLog[RoomOf[c]])
      /\ got[c] = <<>> \/ i > got[c][Len(got[c])]
      /\ got' = [got EXCEPT ![c] = Append(got[c], i)]
      /\ RoomLog' = RoomLog
  BY <1>1, <1>5, <1>6, <1>7 DEF RoomLog
<1> QED
  BY <1>8 DEF Room!See, Room!Last, RoomLog, Senders

\* Every step posts a message, shows one to a user, or changes nothing they see.
LEMMA SysStepIsRoomStep ==
    ASSUME HubInv, InboxTypeOK, LoopTypeOK, Payloads = Nat \ {0}, OrderInv, [SysNext]_sysVars
    PROVE  [Room!RoomNext]_(Room!roomVars)
<1>1. log' = log /\ got' = got => UNCHANGED Room!roomVars
  BY DEF Room!roomVars
<1>2. ASSUME NEW c \in Conns, Handler(c)
      PROVE  [Room!RoomNext]_(Room!roomVars)
  <2> USE DEF wireVars, handlerVars
  <2>1. CASE PublishExecuted(c)
    <3>1. sent[c] \in Nat /\ got' = got /\ Execute(c, sent[c])
      BY <2>1 DEF PublishExecuted, BackToReading, InboxTypeOK
    <3> QED
      BY <3>1, ExecuteIsPost DEF Room!RoomNext
  <2>2. CASE WriteSucceeds(c) /\ peer[c] = "here"
    BY <2>2, WriteIsSee DEF Room!RoomNext
  <2>3. CASE WriteSucceeds(c) /\ peer[c] # "here"
    BY <1>1, <2>3 DEF WriteSucceeds
  <2>4. CASE SysJoinExisting(c) \/ SysJoinNew(c) \/ SysSubscribe(c)
    BY <1>1, <2>4 DEF SysJoinExisting, SysJoinNew, SysSubscribe, StartLoops
  <2>5. CASE ReadMessage(c) \/ PublishFails(c) \/ PublishTimesOut(c)
    BY <1>1, <2>5 DEF ReadMessage, PublishFails, PublishTimesOut, BackToReading
  <2>6. CASE ReadFails(c) \/ SysLeave(c) \/ SysCloseSend(c) \/ SysReturn(c)
    BY <1>1, <2>6 DEF ReadFails, SysLeave, SysCloseSend, SysReturn
  <2>7. CASE WriterTakes(c) \/ WriteFails(c) \/ WriterDone(c)
    BY <1>1, <2>7 DEF WriterTakes, WriteFails, WriterDone
  <2>8. CASE PingFails(c) \/ PeerLeaves(c) \/ PeerDies(c)
    BY <1>1, <2>8 DEF PingFails, PeerLeaves, PeerDies
  <2> QED
    BY <1>2, <2>1, <2>2, <2>3, <2>4, <2>5, <2>6, <2>7, <2>8 DEF Handler
<1>3. ASSUME NEW o \in Conns, Subscription(o)
      PROVE  [Room!RoomNext]_(Room!roomVars)
  BY <1>1, <1>3 DEF Subscription, RedisSubscribes, RedisLost, SysDeliver, SysSubscriptionExit,
                    handlerVars
<1>4. ASSUME NEW m \in strays, StrayExecuted(m)
      PROVE  [Room!RoomNext]_(Room!roomVars)
  <2>1. m.from \in Conns /\ m.num \in Nat
    BY DEF InboxTypeOK
  <2> QED
    BY <1>4, <2>1, ExecuteIsPost DEF StrayExecuted, handlerVars, Room!RoomNext
<1>5. ASSUME NEW p \in Pods, Crash(p)
      PROVE  [Room!RoomNext]_(Room!roomVars)
  BY <1>1, <1>5 DEF Crash
<1>6. CASE UNCHANGED sysVars
  BY <1>1, <1>6 DEF sysVars, wireVars, handlerVars
<1> QED
  BY <1>2, <1>3, <1>4, <1>5, <1>6 DEF SysNext

\* Whatever handlers, writers, hubs, Redis and faults do, the users of a room
\* see one sequence of messages, each of them a part of it, in its order and
\* nothing twice: overflows, lost subscriptions, late PUBLISH commands and
\* crashes only ever leave messages out.
THEOREM SystemImplementsChatRoom ==
    ASSUME Payloads = Nat \ {0}
    PROVE  SysSpec => ImplementsChatRoom
<1>1. SysInit => Room!RoomInit
  <2> SUFFICES ASSUME SysInit
               PROVE  Room!RoomInit
    OBVIOUS
  <2>1. Senders(<<>>) = <<>>
    BY DEF Senders
  <2>2. RoomLog = [r \in Rooms |-> <<>>]
    BY <2>1 DEF SysInit, RoomLog
  <2> QED
    BY <2>2 DEF SysInit, Room!RoomInit, RoomLog, Senders
<1>2. HubInv /\ InboxTypeOK /\ LoopTypeOK /\ OrderInv /\ [SysNext]_sysVars
         => [Room!RoomNext]_(Room!roomVars)
  BY SysStepIsRoomStep
<1> QED
  BY <1>1, <1>2, SystemHubInvariant, InboxTypes, SystemLoopTypes, SystemOrder, PTL
     DEF SysSpec, ImplementsChatRoom, Room!RoomSpec
-----------------------------------------------------------------------------
(* Nobody misses a message *)

\* The sequence q holds consecutive positions, and d more follow it up to n.
Ends(q, d, n) == \A i \in 1..Len(q) : q[i] + Len(q) + d = n + i

\* Nothing was pushed to a room object that does not listen, and what was
\* pushed to one that does is the end of the room's log.
PushedUpToNow(o) ==
    /\ listening[o] \subseteq {ShardFor(RoomOf[o])}
    /\ listening[o] = {} => inbox[o] = <<>>
    /\ Ends(inbox[o], 0, Len(log[RoomOf[o]]))

\* What a member has before its inbox continues up to the inbox without a gap.
UpToInbox(c, o) ==
    /\ listening[o] = {} => got[c] = <<>> /\ Writing(c) = <<>> /\ send[c] = <<>>
    /\ Ends(send[c], Len(inbox[o]), Len(log[RoomOf[o]]))
    /\ Ends(Writing(c), Len(send[c]) + Len(inbox[o]), Len(log[RoomOf[o]]))
    /\ Ends(got[c], Len(Writing(c)) + Len(send[c]) + Len(inbox[o]), Len(log[RoomOf[o]]))

Served(c) == peer[c] = "here" /\ ~shut[c]

GapInv ==
    /\ \A o \in Conns : PushedUpToNow(o)
    /\ \A o \in Conns : \A c \in clients[o] : Served(c) => UpToInbox(c, o)

\* The behaviours NoGaps is about: no Redis connection breaks, and no message
\* is broadcast to a buffer that is full.
Undropped ==
    \A o \in Conns :
        /\ ~RedisLost(o)
        /\ SysDeliver(o) => \A c \in clients[o] : Len(send[c]) < SendCap

\* An empty sequence ends anywhere.
LEMMA EmptyEnds == \A d, n \in Nat : Ends(<<>>, d, n)
  BY DEF Ends

\* The log and what follows grow together.
LEMMA MoreEnds ==
    ASSUME NEW q \in Seq(Positions), NEW d \in Nat, NEW n \in Nat, Ends(q, d, n)
    PROVE  Ends(q, d + 1, n + 1)
<1>1. Len(q) \in Nat /\ \A i \in 1..Len(q) : q[i] \in Nat
  BY LenProperties, ElementOfSeq DEF Positions
<1> SUFFICES ASSUME NEW i \in 1..Len(q)
             PROVE  q[i] + Len(q) + (d + 1) = n + 1 + i
  BY DEF Ends
<1> DEFINE a == q[i]
           l == Len(q)
<1>2. a + l + d = n + i
  BY DEF Ends
<1>3. a \in Nat /\ l \in Nat /\ i \in Nat
  BY <1>1
<1> HIDE DEF a, l
<1>4. a + l + (d + 1) = n + 1 + i
  BY <1>2, <1>3
<1> QED
  BY <1>4 DEF a, l

\* The next position may be appended.
LEMMA AppendEnds ==
    ASSUME NEW q \in Seq(Positions), NEW m \in Positions, NEW d \in Nat, NEW n \in Nat,
           Ends(q, d + 1, n), m + d = n
    PROVE  Append(q, m) \in Seq(Positions) /\ Ends(Append(q, m), d, n)
<1>1. /\ Append(q, m) \in Seq(Positions)
      /\ Len(Append(q, m)) = Len(q) + 1 /\ Len(q) \in Nat
      /\ \A i \in 1..Len(q) : Append(q, m)[i] = q[i] /\ q[i] \in Nat
      /\ Append(q, m)[Len(q) + 1] = m
  BY AppendProperties DEF Positions
<1>2. \A i \in 1..Len(q) : q[i] + Len(q) + (d + 1) = n + i
  BY DEF Ends
<1>3. ASSUME NEW i \in 1..Len(q) + 1
      PROVE  Append(q, m)[i] + (Len(q) + 1) + d = n + i
  <2>1. CASE i \in 1..Len(q)
    <3> DEFINE a == Append(q, m)[i]
               l == Len(q)
    <3>1. i \in Nat /\ a \in Nat /\ l \in Nat
      BY <2>1, <1>1
    <3>2. a + l + (d + 1) = n + i
      BY <2>1, <1>1, <1>2
    <3> HIDE DEF a, l
    <3>3. a + (l + 1) + d = n + i
      BY <3>1, <3>2
    <3> QED
      BY <3>3 DEF a, l
  <2>2. CASE i = Len(q) + 1
    BY <2>2, <1>1 DEF Positions
  <2> QED
    BY <1>1, <2>1, <2>2
<1> QED
  BY <1>1, <1>3 DEF Ends

\* The head is the position just before the tail.
LEMMA TailEnds ==
    ASSUME NEW q \in Seq(Positions), q # <<>>, NEW d \in Nat, NEW n \in Nat, Ends(q, d, n)
    PROVE  /\ Tail(q) \in Seq(Positions) /\ Len(q) = Len(Tail(q)) + 1 /\ Len(Tail(q)) \in Nat
           /\ Ends(Tail(q), d, n)
           /\ Head(q) \in Positions /\ Head(q) + Len(Tail(q)) + d = n
<1>1. /\ Tail(q) \in Seq(Positions) /\ Len(q) = Len(Tail(q)) + 1 /\ Len(Tail(q)) \in Nat
      /\ \A i \in 1..Len(Tail(q)) : Tail(q)[i] = q[i + 1] /\ q[i + 1] \in Nat
      /\ Head(q) = q[1] /\ q[1] \in Positions /\ 1 \in 1..Len(q)
  BY DEF Positions
<1>2. \A i \in 1..Len(Tail(q)) : i + 1 \in 1..Len(q)
  BY <1>1
<1>3. Ends(Tail(q), d, n)
  <2> SUFFICES ASSUME NEW i \in 1..Len(Tail(q))
               PROVE  Tail(q)[i] + Len(Tail(q)) + d = n + i
    BY DEF Ends
  <2>1. q[i + 1] + Len(q) + d = n + (i + 1)
    BY <1>2 DEF Ends
  <2> DEFINE a == Tail(q)[i]
             l == Len(Tail(q))
  <2>2. i \in Nat /\ a \in Nat /\ l \in Nat /\ a + (l + 1) + d = n + (i + 1)
    BY <1>1, <2>1
  <2> HIDE DEF a, l
  <2>3. a + l + d = n + i
    BY <2>2
  <2> QED
    BY <2>3 DEF a, l
<1>4. q[1] + Len(q) + d = n + 1
  BY <1>1 DEF Ends
<1> QED
  BY <1>1, <1>3, <1>4 DEF Positions

\* A sequence that ends where another begins continues into it.
LEMMA ConcatEnds ==
    ASSUME NEW q \in Seq(Positions), NEW t \in Seq(Positions), NEW d \in Nat, NEW n \in Nat,
           Ends(q, Len(t) + d, n), Ends(t, d, n)
    PROVE  q \o t \in Seq(Positions) /\ Ends(q \o t, d, n) /\ Len(q \o t) = Len(q) + Len(t)
<1>1. /\ q \o t \in Seq(Positions) /\ Len(q \o t) = Len(q) + Len(t)
      /\ Len(q) \in Nat /\ Len(t) \in Nat
      /\ \A i \in 1..Len(q) + Len(t) :
           (q \o t)[i] = IF i <= Len(q) THEN q[i] ELSE t[i - Len(q)]
      /\ \A i \in 1..Len(q) : q[i] \in Nat
      /\ \A i \in 1..Len(t) : t[i] \in Nat
  BY ConcatProperties, LenProperties DEF Positions
<1>2. ASSUME NEW i \in 1..Len(q \o t)
      PROVE  (q \o t)[i] + Len(q \o t) + d = n + i
  <2>1. CASE i <= Len(q)
    <3>1. i \in 1..Len(q) /\ (q \o t)[i] = q[i]
      BY <1>1, <2>1
    <3>2. q[i] + Len(q) + (Len(t) + d) = n + i
      BY <3>1 DEF Ends
    <3> QED
      BY <1>1, <3>1, <3>2
  <2>2. CASE i > Len(q)
    <3> DEFINE k == i - Len(q)
    <3>1. k \in 1..Len(t) /\ i = Len(q) + k /\ (q \o t)[i] = t[k] /\ t[k] \in Nat
      BY <1>1, <2>2
    <3> HIDE DEF k
    <3> DEFINE a == t[k]
               x == Len(q)
               y == Len(t)
    <3>2. a + y + d = n + k
      BY <3>1 DEF Ends
    <3>3. a \in Nat /\ k \in Nat /\ x \in Nat /\ y \in Nat
      BY <1>1, <3>1
    <3> HIDE DEF a, x, y
    <3>4. a + (x + y) + d = n + (x + k)
      BY <3>2, <3>3
    <3> QED
      BY <1>1, <3>1, <3>4 DEF a, x, y
  <2> QED
    BY <1>1, <2>1, <2>2
<1> QED
  BY <1>1, <1>2 DEF Ends

\* A step that moves no message.
LEMMA QuietKeepsGapInv ==
    ASSUME HubInv, InboxTypeOK, LoopTypeOK, Payloads = Nat \ {0}, OrderInv, GapInv,
           UNCHANGED <<log, listening, inbox, got, outgoing, send>>,
           \A o \in Conns : \A c \in clients'[o] : c \in Conns /\ (c \in clients[o] \/ pc[c] = "new"),
           \A c \in Conns : Served(c)' => Served(c)
    PROVE  GapInv'
<1>1. \A o \in Conns : PushedUpToNow(o)'
  BY DEF GapInv, PushedUpToNow
<1>2. ASSUME NEW o \in Conns, NEW c \in clients'[o], Served(c)'
      PROVE  UpToInbox(c, o)'
  <2>1. c \in Conns
    OBVIOUS
  <2>2. CASE c \in clients[o]
    <3>1. UpToInbox(c, o)
      BY <1>2, <2>1, <2>2 DEF GapInv
    <3> QED
      BY <3>1 DEF UpToInbox, Writing
  <2>3. CASE pc[c] = "new"
    <3>1. got[c] = <<>> /\ send[c] = <<>> /\ Writing(c) = <<>>
      BY <2>1, <2>3 DEF OrderInv, Unseen, Writing
    <3>2. Len(<<>>) = 0 /\ Len(inbox[o]) \in Nat /\ Len(log[RoomOf[o]]) \in Nat
      BY SeenTypes, LenProperties
    <3>3. UpToInbox(c, o)
      BY <3>1, <3>2, EmptyEnds DEF UpToInbox
    <3> QED
      BY <3>3 DEF UpToInbox, Writing
  <2> QED
    BY <2>2, <2>3
<1> QED
  BY <1>1, <1>2 DEF GapInv

\* A step of one connection that moves a message within its own buffers.
LEMMA MoveKeepsGapInv ==
    ASSUME HubInv, GapInv, NEW c \in Conns,
           UNCHANGED <<log, listening, inbox, clients>>,
           \A d \in Conns \ {c} : got'[d] = got[d] /\ send'[d] = send[d] /\ outgoing'[d] = outgoing[d],
           \A d \in Conns : Served(d)' => Served(d),
           \A o \in Conns : Served(c)' /\ UpToInbox(c, o) => UpToInbox(c, o)'
    PROVE  GapInv'
<1>1. \A o \in Conns : PushedUpToNow(o)'
  BY DEF GapInv, PushedUpToNow
<1>2. ASSUME NEW o \in Conns, NEW d \in clients[o], Served(d)'
      PROVE  UpToInbox(d, o)'
  <2>1. d \in Conns
    BY DEF HubInv, HubTypeOK
  <2>2. UpToInbox(d, o)
    BY <1>2, <2>1 DEF GapInv
  <2> QED
    BY <1>2, <2>1, <2>2 DEF UpToInbox, Writing
<1> QED
  BY <1>1, <1>2 DEF GapInv

\* Redis executes a command: who listens is told, the others have nothing.
LEMMA ExecuteKeepsGapInv ==
    ASSUME HubInv, InboxTypeOK, LoopTypeOK, Payloads = Nat \ {0}, GapInv,
           NEW c \in Conns, NEW n \in Nat, Execute(c, n),
           UNCHANGED <<listening, got, outgoing, send, clients, peer, shut>>
    PROVE  GapInv'
<1> DEFINE N(o) == Len(log[RoomOf[o]])
<1>1. \A o \in Conns : N(o) \in Nat /\ inbox[o] \in Seq(Positions)
  BY SeenTypes
<1>2. \A o \in Conns : N(o)' = IF RoomOf[o] = RoomOf[c] THEN N(o) + 1 ELSE N(o)
  BY ExecuteLength
<1>3. \A o \in Conns : inbox'[o] = IF RoomOf[o] = RoomOf[c] /\ ShardFor(RoomOf[c]) \in listening[o]
                                   THEN Append(inbox[o], N(c) + 1) ELSE inbox[o]
  BY DEF Execute
<1>4. \A o \in Conns : \A d \in clients[o] : d \in Conns
  BY DEF HubInv, HubTypeOK
<1>5. ASSUME NEW o \in Conns
      PROVE  PushedUpToNow(o)' /\ \A d \in clients[o] : Served(d) => UpToInbox(d, o)'
  <2>1. PushedUpToNow(o) /\ \A d \in clients[o] : Served(d) => UpToInbox(d, o)
    BY DEF GapInv
  <2>2. \A d \in clients[o] : /\ Len(got[d]) \in Nat /\ Len(Writing(d)) \in Nat /\ Len(send[d]) \in Nat
                              /\ \A i \in 1..Len(got[d]) : got[d][i] \in Nat
                              /\ \A i \in 1..Len(Writing(d)) : Writing(d)[i] \in Nat
                              /\ \A i \in 1..Len(send[d]) : send[d][i] \in Nat
                              /\ Writing(d)' = Writing(d)
    <3> SUFFICES ASSUME NEW d \in clients[o]
                 PROVE  /\ Len(got[d]) \in Nat /\ Len(Writing(d)) \in Nat /\ Len(send[d]) \in Nat
                        /\ \A i \in 1..Len(got[d]) : got[d][i] \in Nat
                        /\ \A i \in 1..Len(Writing(d)) : Writing(d)[i] \in Nat
                        /\ \A i \in 1..Len(send[d]) : send[d][i] \in Nat
                        /\ Writing(d)' = Writing(d)
      OBVIOUS
    <3>1. got[d] \in Seq(Positions) /\ Writing(d) \in Seq(Positions) /\ send[d] \in Seq(Positions)
      BY <1>4, SeenTypes
    <3>2. Writing(d)' = Writing(d)
      BY DEF Writing
    <3> QED
      BY <3>1, <3>2, LenProperties, ElementOfSeq DEF Positions
  <2>3. CASE RoomOf[o] = RoomOf[c] /\ listening[o] # {}
    <3>1. N(o) = N(c) /\ N(o)' = N(o) + 1 /\ N(o) + 1 \in Positions
      BY <2>3, <1>1, <1>2 DEF Positions
    <3>2. inbox'[o] = Append(inbox[o], N(o) + 1)
      BY <2>1, <2>3, <1>3, <3>1 DEF PushedUpToNow
    <3>3. Ends(inbox[o], 0 + 1, N(o) + 1)
      BY <2>1, <1>1, MoreEnds DEF PushedUpToNow
    <3>4. Ends(inbox'[o], 0, N(o) + 1) /\ Len(inbox'[o]) = Len(inbox[o]) + 1
      BY <1>1, <3>1, <3>2, <3>3, AppendEnds
    <3>5. PushedUpToNow(o)'
      BY <2>1, <2>3, <3>1, <3>4 DEF PushedUpToNow
    <3>6. ASSUME NEW d \in clients[o], Served(d)
          PROVE  UpToInbox(d, o)'
      <4>1. UpToInbox(d, o) /\ Len(inbox[o]) \in Nat
        BY <2>1, <3>6, <1>1, LenProperties
      <4>2. got[d] \in Seq(Positions) /\ Writing(d) \in Seq(Positions) /\ send[d] \in Seq(Positions)
        BY <1>4, SeenTypes
      <4>3. /\ Ends(send[d], Len(inbox[o]) + 1, N(o) + 1)
            /\ Ends(Writing(d), Len(send[d]) + (Len(inbox[o]) + 1), N(o) + 1)
            /\ Ends(got[d], Len(Writing(d)) + Len(send[d]) + (Len(inbox[o]) + 1), N(o) + 1)
        <5> DEFINE x == Len(inbox[o])
                   y == Len(send[d])
                   z == Len(Writing(d))
        <5>1. x \in Nat /\ y \in Nat /\ z \in Nat
          BY <4>1, <2>2
        <5>2. Ends(send[d], x, N(o)) /\ Ends(Writing(d), y + x, N(o)) /\ Ends(got[d], z + y + x, N(o))
          BY <4>1 DEF UpToInbox
        <5>3. N(o) \in Nat
          BY <1>1
        <5> HIDE DEF x, y, z
        <5>4. y + x \in Nat /\ z + y + x \in Nat
          BY <5>1
        <5>5. /\ Ends(send[d], x + 1, N(o) + 1) /\ Ends(Writing(d), (y + x) + 1, N(o) + 1)
              /\ Ends(got[d], (z + y + x) + 1, N(o) + 1)
          BY <4>2, <5>1, <5>2, <5>3, <5>4, MoreEnds
        <5>6. (y + x) + 1 = y + (x + 1) /\ (z + y + x) + 1 = z + y + (x + 1)
          BY <5>1
        <5> QED
          BY <5>5, <5>6 DEF x, y, z
      <4> QED
        BY <4>3, <2>2, <2>3, <3>1, <3>4 DEF UpToInbox
    <3> QED
      BY <3>5, <3>6
  <2>4. CASE listening[o] = {}
    <3>1. inbox'[o] = <<>> /\ inbox[o] = <<>> /\ N(o)' \in Nat
      BY <2>1, <2>4, <1>1, <1>2, <1>3 DEF PushedUpToNow
    <3>2. PushedUpToNow(o)'
      BY <2>1, <3>1, EmptyEnds DEF PushedUpToNow
    <3>3. ASSUME NEW d \in clients[o], Served(d)
          PROVE  UpToInbox(d, o)'
      <4>1. got[d] = <<>> /\ Writing(d)' = <<>> /\ send[d] = <<>> /\ Len(<<>>) = 0
        BY <2>1, <2>2, <2>4, <3>3 DEF UpToInbox
      <4> QED
        BY <3>1, <4>1, EmptyEnds DEF UpToInbox
    <3> QED
      BY <3>2, <3>3
  <2>5. CASE RoomOf[o] # RoomOf[c]
    <3>1. N(o)' = N(o) /\ inbox'[o] = inbox[o]
      BY <2>5, <1>2, <1>3
    <3> QED
      BY <2>1, <2>2, <3>1 DEF PushedUpToNow, UpToInbox
  <2> QED
    BY <2>3, <2>4, <2>5
<1> QED
  BY <1>5 DEF GapInv, Served

\* Where a single payload ends.
LEMMA EndsOne ==
    ASSUME NEW m \in Positions, NEW d \in Nat, NEW n \in Nat
    PROVE  Len(<<m>>) = 1 /\ (Ends(<<m>>, d, n) <=> m + d = n)
<1>1. Len(<<m>>) = 1 /\ <<m>>[1] = m
  OBVIOUS
<1>2. Ends(<<m>>, d, n) <=> m + 1 + d = n + 1
  BY <1>1 DEF Ends
<1>3. m \in Nat
  BY DEF Positions
<1>4. m + 1 + d = n + 1 <=> m + d = n
  BY <1>3
<1> QED
  BY <1>1, <1>2, <1>4

\* The writer takes a payload: it is the last one before what is buffered.
LEMMA TakeKeepsUpToInbox ==
    ASSUME HubInv, InboxTypeOK, LoopTypeOK, Payloads = Nat \ {0}, NEW c \in Conns, NEW o \in Conns,
           WriterTakes(c), UpToInbox(c, o)
    PROVE  UpToInbox(c, o)'
<1> DEFINE N == Len(log[RoomOf[o]])
           x == Len(inbox[o])
           h == Head(send[c])
           t == Tail(send[c])
           y == Len(t)
<1>1. /\ outgoing[c] = 0 /\ send[c] # <<>>
      /\ outgoing' = [outgoing EXCEPT ![c] = h]
      /\ send' = [send EXCEPT ![c] = t]
      /\ UNCHANGED <<log, listening, inbox, got>>
  BY DEF WriterTakes, WriterReceive, wireVars
<1>2. send[c] \in Seq(Positions) /\ N \in Nat /\ x \in Nat
  BY SeenTypes, LenProperties
<1>3. /\ t \in Seq(Positions) /\ Len(send[c]) = y + 1 /\ y \in Nat /\ h \in Positions
      /\ Ends(send[c], x, N) => Ends(t, x, N) /\ h + y + x = N
  BY <1>1, <1>2, TailEnds
<1>4. /\ listening[o] # {} /\ Writing(c) = <<>> /\ Len(<<>>) = 0
      /\ Ends(send[c], x, N) /\ Ends(got[c], Len(Writing(c)) + Len(send[c]) + x, N)
  BY <1>1 DEF UpToInbox, Writing
<1>5. send'[c] = t /\ outgoing'[c] = h /\ h # 0 /\ Writing(c)' = <<h>>
  BY <1>1, <1>3 DEF HubInv, HubTypeOK, LoopTypeOK, Writing, Positions
<1>6. Ends(got[c], 0 + (y + 1) + x, N)
  BY <1>3, <1>4
<1>7. /\ Len(inbox'[o]) = x /\ Len(log'[RoomOf[o]]) = N /\ Len(send'[c]) = y /\ got'[c] = got[c]
      /\ listening'[o] # {}
  BY <1>1, <1>4, <1>5
<1> HIDE DEF N, x, h, t, y
<1>8. y + x \in Nat /\ h + (y + x) = N /\ 0 + (y + 1) + x = 1 + y + x
  BY <1>2, <1>3, <1>4 DEF Positions
<1>9. Len(<<h>>) = 1 /\ Ends(<<h>>, y + x, N)
  BY <1>2, <1>3, <1>8, EndsOne
<1> QED
  BY <1>3, <1>4, <1>5, <1>6, <1>7, <1>8, <1>9 DEF UpToInbox

\* A payload that was written is the last one before the channel's.
LEMMA WriteKeepsUpToInbox ==
    ASSUME HubInv, InboxTypeOK, LoopTypeOK, Payloads = Nat \ {0}, NEW c \in Conns, NEW o \in Conns,
           WriteSucceeds(c), peer[c] = "here", UpToInbox(c, o)
    PROVE  UpToInbox(c, o)'
<1> DEFINE N == Len(log[RoomOf[o]])
           x == Len(inbox[o])
           y == Len(send[c])
           m == outgoing[c]
           g == got[c]
<1>1. /\ m # 0
      /\ outgoing' = [outgoing EXCEPT ![c] = 0]
      /\ got' = [got EXCEPT ![c] = Append(g, m)]
      /\ UNCHANGED <<log, listening, inbox, send>>
  BY DEF WriteSucceeds, wireVars, hubVars
<1>2. g \in Seq(Positions) /\ N \in Nat /\ x \in Nat /\ y \in Nat /\ m \in Positions
  BY <1>1, SeenTypes, LenProperties DEF LoopTypeOK, Positions
<1>3. Writing(c) = <<m>> /\ <<m>> # <<>>
  BY <1>1 DEF Writing
<1>4. /\ listening[o] # {} /\ Ends(send[c], x, N) /\ Ends(<<m>>, y + x, N)
      /\ Ends(g, Len(<<m>>) + y + x, N)
  BY <1>3 DEF UpToInbox
<1>5. got'[c] = Append(g, m) /\ outgoing'[c] = 0 /\ Writing(c)' = <<>> /\ Len(<<>>) = 0
  BY <1>1 DEF LoopTypeOK, Writing
<1>6. /\ Len(inbox'[o]) = x /\ Len(log'[RoomOf[o]]) = N /\ Len(send'[c]) = y /\ send'[c] = send[c]
      /\ listening'[o] # {}
  BY <1>1, <1>4
<1> HIDE DEF N, x, y, m, g
<1>7. y + x \in Nat /\ 1 + y + x = (y + x) + 1 /\ 0 + y + x = y + x
  BY <1>2
<1>8. Len(<<m>>) = 1 /\ m + (y + x) = N
  BY <1>2, <1>4, <1>7, EndsOne
<1>9. Ends(Append(g, m), y + x, N)
  BY <1>2, <1>4, <1>7, <1>8, AppendEnds
<1> QED
  BY <1>2, <1>4, <1>5, <1>6, <1>7, <1>9, EmptyEnds DEF UpToInbox

\* The writer leaves no gap in what a served user gets.
LEMMA WriterKeepsGapInv ==
    ASSUME HubInv, InboxTypeOK, LoopTypeOK, Payloads = Nat \ {0}, GapInv, NEW c \in Conns,
           WriterTakes(c) \/ WriteSucceeds(c) \/ WriteFails(c)
    PROVE  GapInv'
<1>1. UNCHANGED <<log, listening, inbox, clients>>
  BY DEF WriterTakes, WriterReceive, WriteSucceeds, WriteFails, wireVars, hubVars
<1>2. \A d \in Conns \ {c} : got'[d] = got[d] /\ send'[d] = send[d] /\ outgoing'[d] = outgoing[d]
  <2>1. CASE WriterTakes(c)
    BY <2>1 DEF WriterTakes, WriterReceive, LoopTypeOK, HubInv, HubTypeOK
  <2>2. CASE WriteSucceeds(c) \/ WriteFails(c)
    BY <2>2 DEF WriteSucceeds, WriteFails, hubVars, LoopTypeOK
  <2> QED
    BY <2>1, <2>2
<1>3. peer' = peer /\ (shut' = shut \/ shut' = [shut EXCEPT ![c] = TRUE])
  BY DEF WriterTakes, WriteSucceeds, WriteFails
<1>4. \A d \in Conns : Served(d)' => Served(d)
  BY <1>3 DEF Served, LoopTypeOK
<1>5. Served(c)' => ~WriteFails(c) /\ peer[c] = "here"
  <2>1. WriteFails(c) => shut'[c] = TRUE
    BY DEF WriteFails, LoopTypeOK
  <2> QED
    BY <2>1, <1>3 DEF Served
<1>6. \A o \in Conns : Served(c)' /\ UpToInbox(c, o) => UpToInbox(c, o)'
  BY <1>5, TakeKeepsUpToInbox, WriteKeepsUpToInbox
<1> QED
  BY <1>1, <1>2, <1>4, <1>6, MoveKeepsGapInv

\* A message is handed to the members of the room object, whose buffers have
\* a place for it.
LEMMA DeliverKeepsGapInv ==
    ASSUME HubInv, InboxTypeOK, LoopTypeOK, Payloads = Nat \ {0}, GapInv,
           NEW o \in Conns, SysDeliver(o), Undropped
    PROVE  GapInv'
<1> DEFINE m == Head(inbox[o])
           t == Tail(inbox[o])
           x == Len(t)
           N == Len(log[RoomOf[o]])
<1>1. /\ inbox[o] # <<>>
      /\ inbox' = [inbox EXCEPT ![o] = t]
      /\ send' = [c \in Conns |-> IF c \in clients[o] THEN Offer(send[c], m) ELSE send[c]]
      /\ UNCHANGED <<log, listening, got, outgoing, clients, peer, shut>>
  BY DEF SysDeliver, Deliver, BroadcastLocalRoom, handlerVars
<1>2. inbox[o] \in Seq(Positions) /\ N \in Nat /\ 0 \in Nat
  BY SeenTypes
<1>3. PushedUpToNow(o)
  BY DEF GapInv
<1>4. /\ t \in Seq(Positions) /\ Len(inbox[o]) = x + 1 /\ x \in Nat /\ m \in Positions
      /\ Ends(t, 0, N) /\ m + x + 0 = N
  BY <1>1, <1>2, <1>3, TailEnds DEF PushedUpToNow
<1>5. inbox'[o] = t /\ \A q \in Conns \ {o} : inbox'[q] = inbox[q]
  BY <1>1 DEF InboxTypeOK
<1>6. \A c \in clients[o] : Len(send[c]) < SendCap
  BY DEF Undropped
<1>7. \A q \in Conns : PushedUpToNow(q)'
  BY <1>1, <1>4, <1>5 DEF GapInv, PushedUpToNow
<1>8. ASSUME NEW c \in Conns, c \in clients[o], Served(c)
      PROVE  UpToInbox(c, o)'
  <2> DEFINE y == Len(send[c])
             z == Len(Writing(c))
  <2>1. UpToInbox(c, o)
    BY <1>8 DEF GapInv
  <2>2. send'[c] = Append(send[c], m)
    BY <1>1, <1>6, <1>8 DEF Offer
  <2>3. send[c] \in Seq(Positions) /\ y \in Nat /\ z \in Nat
    BY SeenTypes, LenProperties
  <2>4. Len(send'[c]) = y + 1
    BY <2>2, <2>3, <1>4, AppendProperties
  <2>5. Writing(c)' = Writing(c) /\ got'[c] = got[c] /\ Len(log'[RoomOf[o]]) = N
    BY <1>1 DEF Writing
  <2>6. listening'[o] # {}
    BY <1>1, <1>3 DEF PushedUpToNow
  <2>7. /\ Ends(send[c], x + 1, N) /\ Ends(Writing(c), y + (x + 1), N)
        /\ Ends(got[c], z + y + (x + 1), N)
    BY <2>1, <1>4 DEF UpToInbox
  <2> HIDE DEF m, t, x, N, y, z
  <2>8. m + x = N
    BY <1>2, <1>4 DEF Positions
  <2>9. Ends(send'[c], x, N)
    BY <2>2, <2>3, <2>7, <2>8, <1>2, <1>4, AppendEnds
  <2>10. y + (x + 1) = (y + 1) + x /\ z + y + (x + 1) = z + (y + 1) + x
    BY <2>3, <1>4
  <2>11. Len(inbox'[o]) = x
    BY <1>5 DEF x
  <2>12. /\ Ends(Writing(c)', Len(send'[c]) + Len(inbox'[o]), Len(log'[RoomOf[o]]))
         /\ Ends(got'[c], Len(Writing(c)') + Len(send'[c]) + Len(inbox'[o]), Len(log'[RoomOf[o]]))
         /\ Ends(send'[c], Len(inbox'[o]), Len(log'[RoomOf[o]]))
    BY <2>4, <2>5, <2>7, <2>9, <2>10, <2>11 DEF z
  <2> QED
    BY <2>6, <2>12 DEF UpToInbox
<1>9. ASSUME NEW q \in Conns, NEW c \in clients[q], Served(c), q # o
      PROVE  UpToInbox(c, q)'
  <2>1. c \in Conns /\ c \notin clients[o]
    BY <1>9, OneObjectPerClient DEF HubInv, HubTypeOK
  <2>2. UpToInbox(c, q)
    BY <1>9, <2>1 DEF GapInv
  <2>3. send'[c] = send[c] /\ inbox'[q] = inbox[q]
    BY <1>1, <1>5, <1>9, <2>1
  <2> QED
    BY <2>2, <2>3, <1>1 DEF UpToInbox, Writing
<1>10. \A q \in Conns : \A c \in clients'[q] : Served(c)' => UpToInbox(c, q)'
  <2>1. \A q \in Conns : clients[q] \subseteq Conns
    BY DEF HubInv, HubTypeOK
  <2>2. \A c \in Conns : Served(c)' = Served(c)
    BY <1>1 DEF Served
  <2> QED
    BY <2>1, <2>2, <1>1, <1>8, <1>9
<1> QED
  BY <1>7, <1>10 DEF GapInv

\* A room object starts to listen when nothing was pushed to it.
LEMMA SubscribedKeepsGapInv ==
    ASSUME HubInv, GapInv, NEW o \in Conns, RedisSubscribes(o)
    PROVE  GapInv'
<1>1. /\ listening[o] = {}
      /\ listening' = [listening EXCEPT ![o] = {ShardFor(RoomOf[o])}]
      /\ UNCHANGED <<log, inbox, got, outgoing, send, clients, peer, shut>>
  BY DEF RedisSubscribes, handlerVars, hubVars
<1>2. \A q \in Conns : \/ listening'[q] = listening[q]
                       \/ listening[q] = {} /\ listening'[q] = {ShardFor(RoomOf[q])}
  BY <1>1
<1>3. \A q \in Conns : PushedUpToNow(q)'
  BY <1>1, <1>2 DEF GapInv, PushedUpToNow
<1>4. \A q \in Conns : \A c \in clients[q] : Served(c) => UpToInbox(c, q)'
  <2> SUFFICES ASSUME NEW q \in Conns, NEW c \in clients[q], Served(c)
               PROVE  UpToInbox(c, q)'
    OBVIOUS
  <2>1. UpToInbox(c, q)
    BY DEF GapInv
  <2>2. listening'[q] = {} => listening[q] = {}
    BY <1>2
  <2>3. Writing(c)' = Writing(c)
    BY <1>1 DEF Writing
  <2> QED
    BY <2>1, <2>2, <2>3, <1>1 DEF UpToInbox
<1> QED
  BY <1>1, <1>3, <1>4 DEF GapInv, Served

\* A room object whose context is cancelled has no members.
LEMMA CancelledRoomIsEmpty ==
    ASSUME HubInv, NEW o \in Conns, cancelled[o]
    PROVE  clients[o] = {}
<1>1. Key(o) \in Keys
  BY HubAssumption DEF Key, Keys
<1>2. RoomAt(o) # o
  <2>1. RoomAt(o) # NoRoom => ~cancelled[RoomAt(o)]
    BY <1>1 DEF HubInv, RegisteredRooms, RoomAt
  <2> QED
    BY <2>1, HubAssumption
<1> QED
  BY <1>2 DEF HubInv, HubTypeOK, Members

\* The goroutine that ends has a room object without members.
LEMMA ExitKeepsGapInv ==
    ASSUME HubInv, InboxTypeOK, LoopTypeOK, Payloads = Nat \ {0}, WireTypeOK, GapInv,
           NEW o \in Conns, SysSubscriptionExit(o)
    PROVE  GapInv'
<1>1. /\ listening' = [listening EXCEPT ![o] = {}]
      /\ inbox' = [inbox EXCEPT ![o] = <<>>]
      /\ UNCHANGED <<log, got, outgoing, send, clients, peer, shut>> /\ cancelled[o]
  BY DEF SysSubscriptionExit, SubscriptionExit, handlerVars
<1>2. clients[o] = {}
  BY <1>1, CancelledRoomIsEmpty
<1>3. /\ \A q \in Conns \ {o} : listening'[q] = listening[q] /\ inbox'[q] = inbox[q]
      /\ listening'[o] = {} /\ inbox'[o] = <<>>
  BY <1>1 DEF InboxTypeOK, WireTypeOK
<1>4. \A q \in Conns : PushedUpToNow(q)'
  <2>1. Len(log[RoomOf[o]]) \in Nat
    BY SeenTypes
  <2> QED
    BY <2>1, <1>1, <1>3, EmptyEnds DEF GapInv, PushedUpToNow
<1>5. \A q \in Conns : \A c \in clients[q] : Served(c) => UpToInbox(c, q)'
  <2> SUFFICES ASSUME NEW q \in Conns, NEW c \in clients[q], Served(c)
               PROVE  UpToInbox(c, q)'
    OBVIOUS
  <2>1. UpToInbox(c, q) /\ q # o
    BY <1>2 DEF GapInv
  <2>2. Writing(c)' = Writing(c)
    BY <1>1 DEF Writing
  <2> QED
    BY <2>1, <2>2, <1>1, <1>3 DEF UpToInbox
<1> QED
  BY <1>1, <1>4, <1>5 DEF GapInv, Served

\* A crash takes the room objects of a pod and all their members.
LEMMA CrashKeepsGapInv ==
    ASSUME HubInv, InboxTypeOK, LoopTypeOK, Payloads = Nat \ {0}, GapInv, NEW p \in Pods, Crash(p)
    PROVE  GapInv'
<1> DEFINE lost(c) == PodOf[c] = p /\ pc[c] # "new"
<1>1. /\ listening' = [c \in Conns |-> IF lost(c) THEN {} ELSE listening[c]]
      /\ inbox' = [c \in Conns |-> IF lost(c) THEN <<>> ELSE inbox[c]]
      /\ outgoing' = [c \in Conns |-> IF lost(c) THEN 0 ELSE outgoing[c]]
      /\ send' = [c \in Conns |-> IF lost(c) THEN <<>> ELSE send[c]]
      /\ clients' = [c \in Conns |-> IF lost(c) THEN {} ELSE clients[c]]
      /\ shut' = [c \in Conns |-> IF lost(c) THEN TRUE ELSE shut[c]]
      /\ peer' = [c \in Conns |-> IF lost(c) THEN "left" ELSE peer[c]]
      /\ log' = log /\ got' = got
  BY DEF Crash, PodCrash
<1>2. \A o \in Conns : PushedUpToNow(o)'
  <2>1. \A o \in Conns : Len(log[RoomOf[o]]) \in Nat
    BY SeenTypes
  <2> QED
    BY <2>1, <1>1, EmptyEnds DEF GapInv, PushedUpToNow
<1>3. ASSUME NEW o \in Conns, NEW c \in clients'[o], Served(c)'
      PROVE  UpToInbox(c, o)'
  <2>1. ~lost(o) /\ c \in clients[o]
    BY <1>1
  <2>2. c \in Conns
    BY <2>1 DEF HubInv, HubTypeOK
  <2>3. ~lost(c) /\ Served(c)
    BY <2>2, <1>1, <1>3 DEF Served
  <2>4. UpToInbox(c, o)
    BY <2>1, <2>2, <2>3 DEF GapInv
  <2> QED
    BY <2>1, <2>2, <2>3, <2>4, <1>1 DEF UpToInbox, Writing
<1> QED
  BY <1>2, <1>3 DEF GapInv

\* No step of a handler makes a gap.
LEMMA HandlerKeepsGapInv ==
    ASSUME HubInv, InboxTypeOK, LoopTypeOK, Payloads = Nat \ {0}, OrderInv, GapInv,
           NEW c \in Conns, Handler(c)
    PROVE  GapInv'
<1> DEFINE Quiet ==
      /\ UNCHANGED <<log, listening, inbox, got, outgoing, send>>
      /\ \A o \in Conns : \A d \in clients'[o] : d \in Conns /\ (d \in clients[o] \/ pc[d] = "new")
      /\ \A d \in Conns : Served(d)' => Served(d)
<1>1. Quiet => GapInv'
  BY QuietKeepsGapInv
<1>2. clients \in [Conns -> SUBSET Conns]
  BY DEF HubInv, HubTypeOK
<1> USE DEF wireVars, handlerVars
<1>3. CASE SysJoinExisting(c)
  BY <1>1, <1>2, <1>3 DEF SysJoinExisting, StartLoops, JoinExisting, Served
<1>4. CASE SysJoinNew(c)
  BY <1>1, <1>2, <1>4 DEF SysJoinNew, JoinNew, CreateRoom, Served
<1>5. CASE SysSubscribe(c)
  BY <1>1, <1>2, <1>5 DEF SysSubscribe, StartLoops, Subscribe, Served
<1>6. CASE ReadMessage(c) \/ PublishFails(c) \/ PublishTimesOut(c)
  BY <1>1, <1>2, <1>6 DEF ReadMessage, PublishFails, PublishTimesOut, BackToReading, hubVars, Served
<1>7. CASE PublishExecuted(c)
  <2>1. /\ sent[c] \in Nat /\ Execute(c, sent[c])
        /\ UNCHANGED <<listening, got, outgoing, send, clients, peer, shut>>
    BY <1>7 DEF PublishExecuted, BackToReading, hubVars, InboxTypeOK
  <2> QED
    BY <2>1, ExecuteKeepsGapInv
<1>8. CASE ReadFails(c) \/ SysReturn(c)
  <2>1. \A d \in Conns : Served(d)' => Served(d)
    BY <1>8 DEF ReadFails, SysReturn, Served, LoopTypeOK
  <2> QED
    BY <1>1, <1>2, <1>8, <2>1 DEF ReadFails, SysReturn, Return, hubVars
<1>9. CASE PeerLeaves(c) \/ PeerDies(c)
  <2>1. \A d \in Conns : Served(d)' => Served(d)
    BY <1>9 DEF PeerLeaves, PeerDies, Served, LoopTypeOK
  <2> QED
    BY <1>1, <1>2, <1>9, <2>1 DEF PeerLeaves, PeerDies, hubVars
<1>10. CASE WriterDone(c) \/ PingFails(c)
  BY <1>1, <1>2, <1>10 DEF WriterDone, PingFails, hubVars, Served
<1>11. CASE SysLeave(c)
  BY <1>1, <1>2, <1>11 DEF SysLeave, Leave, Served
<1>12. CASE SysCloseSend(c)
  BY <1>1, <1>2, <1>12 DEF SysCloseSend, CloseSend, Served
<1>13. CASE WriterTakes(c) \/ WriteSucceeds(c) \/ WriteFails(c)
  BY <1>13, WriterKeepsGapInv
<1> QED
  BY <1>3, <1>4, <1>5, <1>6, <1>7, <1>8, <1>9, <1>10, <1>11, <1>12, <1>13 DEF Handler

\* Nor does any other step that drops nothing.
LEMMA OthersKeepGapInv ==
    ASSUME HubInv, InboxTypeOK, LoopTypeOK, WireTypeOK, Payloads = Nat \ {0}, OrderInv, GapInv,
           [SysNext]_sysVars, [Undropped]_sysVars, \A c \in Conns : ~Handler(c)
    PROVE  GapInv'
<1>1. CASE UNCHANGED sysVars
  BY <1>1, QuietKeepsGapInv DEF sysVars, wireVars, handlerVars, hubVars, HubInv, HubTypeOK, Served
<1>2. ASSUME NEW o \in Conns, Subscription(o), Undropped
      PROVE  GapInv'
  BY <1>2, SubscribedKeepsGapInv, DeliverKeepsGapInv, ExitKeepsGapInv DEF Subscription, Undropped
<1>3. ASSUME NEW m \in strays, StrayExecuted(m)
      PROVE  GapInv'
  <2>1. m.from \in Conns /\ m.num \in Nat
    BY DEF InboxTypeOK
  <2>2. /\ Execute(m.from, m.num)
        /\ UNCHANGED <<listening, got, outgoing, send, clients, peer, shut>>
    BY <1>3 DEF StrayExecuted, handlerVars, hubVars
  <2> QED
    BY <2>1, <2>2, ExecuteKeepsGapInv
<1>4. ASSUME NEW p \in Pods, Crash(p)
      PROVE  GapInv'
  BY <1>4, CrashKeepsGapInv
<1> QED
  BY <1>1, <1>2, <1>3, <1>4 DEF SysNext

\* The whole stream of a served user is the end of its room's log.
LEMMA StreamEnds ==
    ASSUME HubInv, InboxTypeOK, LoopTypeOK, Payloads = Nat \ {0}, GapInv,
           NEW c \in Conns, pc[c] = "joined", Served(c)
    PROVE  Stream(c) \in Seq(Positions) /\ Ends(Stream(c), 0, Len(log[RoomOf[c]]))
<1> DEFINE o == RoomAt(c)
           N == Len(log[RoomOf[c]])
           w == Writing(c)
           x == Len(inbox[o])
           y == Len(send[c])
           z == Len(w)
<1>1. o \in Conns /\ c \in clients[o]
  <2>1. Key(c) \in Keys
    BY HubAssumption DEF Key, Keys
  <2> QED
    BY <2>1 DEF HubInv, HubTypeOK, NoStrandedClient, InRoom, RoomAt
<1>2. RoomOf[o] = RoomOf[c]
  BY <1>1 DEF HubInv, Members, Key
<1>3. PushedUpToNow(o) /\ UpToInbox(c, o)
  BY <1>1 DEF GapInv
<1>4. /\ got[c] \in Seq(Positions) /\ w \in Seq(Positions) /\ send[c] \in Seq(Positions)
      /\ inbox[o] \in Seq(Positions) /\ N \in Nat /\ x \in Nat /\ y \in Nat /\ z \in Nat
  BY <1>1, SeenTypes, LenProperties
<1>5. /\ Ends(inbox[o], 0, N) /\ Ends(send[c], x, N) /\ Ends(w, y + x, N)
      /\ Ends(got[c], z + y + x, N)
  BY <1>2, <1>3 DEF PushedUpToNow, UpToInbox
<1>6. Stream(c) = ((got[c] \o w) \o send[c]) \o inbox[o]
  BY DEF Stream, Writing
<1> HIDE DEF o, N, w, x, y, z
<1>7. z + y + x = z + (y + x) /\ y + x \in Nat /\ x + 0 = x /\ 0 \in Nat
  BY <1>4
<1>8. got[c] \o w \in Seq(Positions) /\ Ends(got[c] \o w, y + x, N)
  BY <1>4, <1>5, <1>7, ConcatEnds DEF z
<1>9. (got[c] \o w) \o send[c] \in Seq(Positions) /\ Ends((got[c] \o w) \o send[c], x, N)
  BY <1>4, <1>5, <1>8, ConcatEnds DEF y
<1>10. /\ ((got[c] \o w) \o send[c]) \o inbox[o] \in Seq(Positions)
       /\ Ends(((got[c] \o w) \o send[c]) \o inbox[o], 0, N)
  BY <1>4, <1>5, <1>7, <1>9, ConcatEnds DEF x
<1> QED
  BY <1>6, <1>10 DEF N

\* Such a sequence is consecutive and has the last position.
LEMMA EndsIsConsecutive ==
    ASSUME NEW q \in Seq(Positions), NEW n \in Nat, Ends(q, 0, n)
    PROVE  Consecutive(q) /\ (q # <<>> => Last(q) = n)
<1> DEFINE l == Len(q)
<1>1. l \in Nat /\ \A i \in 1..l : q[i] \in Nat
  BY LenProperties, ElementOfSeq DEF Positions
<1>2. \A i \in 1..l : q[i] + l + 0 = n + i
  BY DEF Ends
<1>3. ASSUME NEW i \in 1..(l - 1)
      PROVE  q[i + 1] = q[i] + 1
  <2> DEFINE a == q[i]
             b == q[i + 1]
  <2>1. i \in 1..l /\ i + 1 \in 1..l /\ i \in Nat
    BY <1>1
  <2>2. a \in Nat /\ b \in Nat /\ a + l + 0 = n + i /\ b + l + 0 = n + (i + 1)
    BY <2>1, <1>1, <1>2
  <2> HIDE DEF a, b, l
  <2>3. b = a + 1
    BY <2>1, <2>2, <1>1
  <2> QED
    BY <2>3 DEF a, b
<1>4. ASSUME q # <<>>
      PROVE  Last(q) = n
  <2> DEFINE a == q[l]
  <2>1. l \in 1..l
    BY <1>1, <1>4, EmptySeq
  <2>2. a \in Nat /\ a + l + 0 = n + l
    BY <2>1, <1>1, <1>2
  <2>3. Last(q) = a
    BY DEF Last
  <2> HIDE DEF a, l
  <2> QED
    BY <2>2, <2>3, <1>1
<1> QED
  BY <1>3, <1>4 DEF Consecutive

\* As long as no Redis connection breaks and no buffer overflows, and whatever
\* else fails, a connected user gets every message of its room from the first
\* one it gets, up to the last one Redis executed.
THEOREM SystemNoGaps ==
    ASSUME Payloads = Nat \ {0}
    PROVE  SysSpec /\ [][Undropped]_sysVars => []NoGaps
<1>1. SysInit => GapInv
  <2> SUFFICES ASSUME SysInit
               PROVE  GapInv
    OBVIOUS
  <2>1. \A o \in Conns : /\ listening[o] = {} /\ inbox[o] = <<>> /\ clients[o] = {}
                         /\ Len(log[RoomOf[o]]) = 0
    BY HubAssumption DEF SysInit, HubInit
  <2> QED
    BY <2>1, EmptyEnds DEF GapInv, PushedUpToNow
<1>2. HubInv /\ InboxTypeOK /\ LoopTypeOK /\ WireTypeOK /\ OrderInv /\ GapInv
         /\ [SysNext]_sysVars /\ [Undropped]_sysVars => GapInv'
  BY HandlerKeepsGapInv, OthersKeepGapInv
<1>3. HubInv /\ InboxTypeOK /\ LoopTypeOK /\ GapInv => NoGaps
  <2> SUFFICES ASSUME HubInv, InboxTypeOK, LoopTypeOK, GapInv,
                      NEW c \in Conns, pc[c] = "joined", peer[c] = "here", ~shut[c]
               PROVE  /\ Consecutive(Stream(c))
                      /\ Stream(c) # <<>> => Last(Stream(c)) = Len(log[RoomOf[c]])
    BY DEF NoGaps
  <2> QED
    BY StreamEnds, EndsIsConsecutive, SeenTypes DEF Served
<1> QED
  BY <1>1, <1>2, <1>3, SystemHubInvariant, InboxTypes, SystemLoopTypes, SystemOrder, PTL
     DEF SysSpec
=============================================================================
