---------------------------- MODULE MCChatHealth ----------------------------
(* Two probes that overlap, as when the kubelet gives up on a slow one and   *)
(* asks again, and two shards that fail and come back between any two steps. *)
EXTENDS ChatHealth

CONSTANTS p1, p2, s1, s2

MCProbes == {p1, p2}
MCShards == {s1, s2}
=============================================================================
