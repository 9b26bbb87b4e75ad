---------------------------- MODULE MCChatFaults ----------------------------
(* A sender and a listener of one room on two pods, with every fault.        *)
EXTENDS ChatSystem

CONSTANTS p1, p2, s, l1, lobby, noRoom

MCPods == {p1, p2}
MCConns == {s, l1}
MCRooms == {lobby}
MCPodOf == [c \in MCConns |-> IF c = s THEN p1 ELSE p2]
MCOnePod == [c \in MCConns |-> p1]
MCRoomOf == [c \in MCConns |-> lobby]
MCOneSend == [c \in MCConns |-> IF c = s THEN 1 ELSE 0]
MCTwoSends == [c \in MCConns |-> IF c = s THEN 2 ELSE 0]
MCLeavers == {l1}
MCPayloads == 1..4
MCHashOf == [r \in MCRooms |-> 7]
=============================================================================
