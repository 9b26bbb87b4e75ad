----------------------------- MODULE MCChatHub -----------------------------
(* The hub on two pods: three connections meet in one room of one pod, so   *)
(* that the room is created, shared, emptied and created again; a fourth    *)
(* is in that room on the other pod.                                        *)
EXTENDS ChatHub

CONSTANTS p1, p2, c1, c2, c3, c4, lobby, m1, noRoom

MCPods == {p1, p2}
MCConns == {c1, c2, c3, c4}
MCRooms == {lobby}
MCPodOf == [c \in MCConns |-> IF c = c4 THEN p2 ELSE p1]
MCRoomOf == [c \in MCConns |-> lobby]
MCPayloads == {m1}
=============================================================================
