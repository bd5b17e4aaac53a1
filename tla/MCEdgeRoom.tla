---------------------------- MODULE MCEdgeRoom ----------------------------
(* Small instances of EdgeRoom for TLC. *)
EXTENDS EdgeRoom, TLC

CONSTANTS g1, g2, n1, n2

(* Two rooms, each with a network of its own, which goes by the room's name. *)
MCTwoRooms == {[room |-> g, net |-> g] : g \in {g1, g2}}

(* Either room with either of two networks: a supernode that has the room already assigns  *)
(* the same one again, one that was restarted or that the edge turned to assigns any.      *)
MCAnyNet == [room: {g1, g2}, net: {n1, n2}]
MCSymmetry == Permutations({g1, g2}) \cup Permutations({n1, n2})
============================================================================
