----------------------------- MODULE MCIncoming -----------------------------
(* Two peers, two rooms and two MACs, interchangeable. *)
EXTENDS Incoming, TLC

MCSymmetry == Permutations(Nodes) \cup Permutations(Rooms) \cup Permutations(Macs)
============================================================================
