---------------------------- MODULE MCSupernode ----------------------------
(* Small instances of Supernode for TLC. *)
EXTENDS Supernode, TLC

MCLocalNets == {{}, {1}}
MCSymmetry == Permutations(NodeIds) \cup Permutations(Addrs) \cup Permutations(RoomIds)
                \cup Permutations(Tokens)
============================================================================
