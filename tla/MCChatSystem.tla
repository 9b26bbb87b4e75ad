---------------------------- MODULE MCChatSystem ----------------------------
(* One room on two pods.  The sender s stays on the first pod; l1 and l2    *)
(* use the second one, where they overlap, or where the room of one is      *)
(* dropped before the other creates it again.                               *)
EXTENDS ChatSystem

CONSTANTS p1, p2, s, l1, l2, lobby, noRoom

MCPods == {p1, p2}
MCConns == {s, l1, l2}
MCRooms == {lobby}
MCPodOf == [c \in MCConns |-> IF c = s THEN p1 ELSE p2]
MCRoomOf == [c \in MCConns |-> lobby]
MCMaxSends == [c \in MCConns |-> IF c = s THEN 2 ELSE 0]
MCLeavers == {l1, l2}
MCPayloads == 1..2
MCHashOf == [r \in MCRooms |-> 7]
=============================================================================
