----------------------------- MODULE MCSendPath -----------------------------
(***************************************************************************)
(* Small instances of the two users of the packet slab for TLC, the        *)
(* dataplane's send path and the supernode's relay.  They run in different *)
(* programs and share nothing: the first state picks the one that moves.   *)
(***************************************************************************)
EXTENDS SendPath, Relay, TLC

VARIABLE part

MCSymmetry == Permutations(Tasks) \cup Permutations(Slots)

MCInit == part \in {"send path", "relay"} /\ SendInit /\ RelayInit

MCNext ==
    /\ UNCHANGED part
    /\ \/ part = "send path" /\ SendNext /\ UNCHANGED relay_vars
       \/ part = "relay" /\ RelayNext /\ UNCHANGED send_vars

MCSpec == MCInit /\ [][MCNext]_<<part, send_vars, relay_vars>>
=============================================================================
