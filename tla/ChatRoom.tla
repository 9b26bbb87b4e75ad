------------------------------ MODULE ChatRoom ------------------------------
(***************************************************************************)
(* What the chat service promises to the users of a room, whatever the     *)
(* number of pods: the messages of a room form one sequence, and each      *)
(* connection sees a part of it, in that order and nothing twice           *)
(* (services/chat/handler.go:13-18: one code path keeps the clients of a   *)
(* pod and those of every other pod in sync).  Nothing promises that a     *)
(* connection sees all of it: buffers overflow and Redis pub/sub forgets.  *)
(***************************************************************************)
EXTENDS Naturals, Sequences, SequencesExt

CONSTANTS Conns, Rooms, RoomOf

VARIABLES
    log,    \* the senders of the messages of each room, in the order of the room
    got     \* the positions in its room's log that each connection received

roomVars == <<log, got>>

RoomInit ==
    /\ log = [r \in Rooms |-> <<>>]
    /\ got = [c \in Conns |-> <<>>]

Post(c) ==
    /\ log' = [log EXCEPT ![RoomOf[c]] = Append(@, c)]
    /\ UNCHANGED got

See(c) ==
    /\ \E i \in 1..Len(log[RoomOf[c]]) :
          /\ got[c] = <<>> \/ i > Last(got[c])
          /\ got' = [got EXCEPT ![c] = Append(@, i)]
    /\ UNCHANGED log

RoomNext == \E c \in Conns : Post(c) \/ See(c)

RoomSpec == RoomInit /\ [][RoomNext]_roomVars
=============================================================================
